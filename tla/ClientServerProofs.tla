--------------------------- MODULE ClientServerProofs ---------------------------
(***************************************************************************)
(* Whatever the clients, limits and interleavings, every consumer has a    *)
(* contiguous piece of the committed stream, and what it is told is true.  *)
(***************************************************************************)
EXTENDS ClientServerProperties, NatSetLemmas, SequenceTheorems, TLAPS

\* What is published is committed, and a commit is published before the next.
Commits ==
  /\ published <= durable /\ durable <= lines
  /\ producer = "idle" => published = durable
  /\ producer = "commit" => durable < lines
  /\ producer = "rotate" => published < durable

\* The segments that are there are the last of those that ever were.
Segments ==
  /\ \A b \in bases : first <= b
  /\ \A s \in sealed : s <= durable
  /\ \A s \in sealed, b \in bases : b <= s => s \in bases

\* A server that has ended serves nobody.
Ended == producer = "down" => \A c \in Client : pc[c] = "off"

Fetching == {"list", "relist", "open", "reopen", "read", "eof", "missing"}

\* A client is of the fan-out from its check to its end, and has no answer before.
Connected(c) ==
  /\ pc[c] \in {"admitted", "check", "missing", "live", "send"} => kind[c] = "stream"
  /\ pc[c] \in {"off", "admitted"} => reader[c] = NoReader
  /\ pc[c] \notin {"off", "closed"} => reason[c] = "none"
  /\ live[c] => pc[c] \in {"live", "send", "closed"}
  /\ pc[c] \in {"live", "send"} => live[c]
  /\ ~live[c] => queue[c] = <<>> /\ ~slow[c]

\* What a consumer has leads to the index that it is served next.
Has(c) ==
  /\ \A i \in 1..Len(ledger[c]) : ledger[c][i] = start[c] + i - 1
  /\ ledger[c] = <<>> \/ start[c] + Len(ledger[c]) <= durable
  /\ pc[c] # "off" => next[c] = start[c] + Len(ledger[c]) /\ next[c] <= published
  /\ pc[c] # "off" /\ kind[c] = "snapshot" => start[c] = 0 /\ next[c] <= head[c]
  /\ reason[c] = "answered" => start[c] = 0 /\ (pc[c] = "closed" => Len(ledger[c]) = head[c])

\* A reader is not past its client, nor past the end of its segment, which
\* holds the index it is looking for.
Within(c, b) ==
  /\ b \in sealed /\ b <= reader[c].index
  /\ \A s \in sealed : b < s => reader[c].index <= s
  /\ reader[c].index < next[c] => \A s \in sealed : b < s => next[c] < s

Located(c) ==
  /\ head[c] <= published
  /\ pc[c] # "closed" => reader[c].index <= next[c]
  /\ pc[c] \in Fetching => next[c] <= head[c]
  /\ pc[c] \in {"open", "reopen"} =>
       /\ reader[c].index \in sealed
       /\ \A s \in sealed : reader[c].index < s => next[c] < s
  /\ pc[c] \in {"read", "eof", "missing"} \/ (pc[c] = "check" /\ reader[c] # NoReader) =>
       Within(c, reader[c].descriptor)
  /\ pc[c] \in {"eof", "missing"} => reader[c].index = next[c]
  /\ pc[c] = "eof" => reader[c].index \in sealed

\* A queue continues with the line n and ends with the last published, unless
\* it was cut off.
Continuing(c, n) ==
  /\ \A i \in 1..Len(queue[c]) : queue[c][i] = n + i - 1
  /\ n + Len(queue[c]) <= published
  /\ ~slow[c] => n + Len(queue[c]) = published

Queued(c) ==
  /\ pc[c] = "live" => Continuing(c, next[c])
  /\ pc[c] = "send" => line[c] = next[c] /\ Continuing(c, next[c] + 1)

Honest(c) == reason[c] = "expired" => \A b \in bases : next[c] < b

ClientInv(c) == Connected(c) /\ Has(c) /\ Located(c) /\ Queued(c) /\ Honest(c)

ServerInv == TypeOK /\ Commits /\ Segments /\ Ended /\ \A c \in Client : ClientInv(c)
-----------------------------------------------------------------------------
(* Types.                                                                   *)

\* A segment that is there has the least index of all, or another.
LEMMA LeastBase ==
  ASSUME TypeOK
  PROVE  Min(bases) \in bases /\ Min(bases) \in Nat /\ \A b \in bases : Min(bases) <= b
BY MinOfNats DEF TypeOK

LEMMA TypesOfProducing ==
  ASSUME TypeOK, Producing
  PROVE  TypeOK'
<1>1. CASE AppendBatch
  BY <1>1, ClientServerAssumption DEF AppendBatch, TypeOK, hubVars, clientVars, queueVars,
     consumerVars
<1>2. CASE Commit
  BY <1>2 DEF Commit, TypeOK, hubVars, clientVars, queueVars, consumerVars
<1>3. CASE Rotate
  BY <1>3 DEF Rotate, TypeOK, hubVars, clientVars, queueVars, consumerVars
<1>4. CASE Expire
  <2>1. bases \ {Min(bases)} # {}
    BY <1>4, LeastBase DEF Expire, TypeOK
  <2> QED BY <1>4, <2>1 DEF Expire, TypeOK, hubVars, clientVars, queueVars, consumerVars
<1>5. CASE Retained
  BY <1>5 DEF Retained, TypeOK, fileVars, hubVars, clientVars, queueVars, consumerVars
<1>6. CASE Publish
  <2>1. published' \in Nat /\ slow' \in [Client -> BOOLEAN]
    BY <1>6 DEF Publish, FanOut, Fan, TypeOK
  <2>2. queue' \in [Client -> Seq(Nat)] /\ \A c \in Client : Len(queue'[c]) <= QueueLimit
    <3>1. \A c \in Client : Append(queue[c], published) \in Seq(Nat)
                            /\ Len(Append(queue[c], published)) = Len(queue[c]) + 1
      BY AppendProperties DEF TypeOK
    <3> QED BY <1>6, <3>1, LenProperties, ClientServerAssumption DEF Publish, FanOut, Fan, Roomy,
       TypeOK
  <2> QED BY <1>6, <2>1, <2>2 DEF Publish, TypeOK, fileVars, clientVars, consumerVars
<1>7. CASE Published
  BY <1>7, LeastBase DEF Published, TypeOK, fileVars, clientVars, queueVars, consumerVars
<1>8. CASE Stop
  BY <1>8, LeastBase DEF Stop, TypeOK, fileVars, clientVars, queueVars, consumerVars
<1>9. CASE Down
  <2>1. \A c \in Client : <<>> \in Seq(Nat) /\ Len(<<>>) <= QueueLimit
    BY ClientServerAssumption
  <2> QED BY <1>9, <2>1 DEF Down, TypeOK, fileVars, hubVars, consumerVars, Places, Reasons, NoReader
<1>10. CASE Restart
  <2>1. lines' \in Nat /\ published' \in Nat /\ first' \in Nat /\ starts' \in Nat /\ producer' = "idle"
    BY <1>10, LeastBase DEF Restart, TypeOK
  <2> QED BY <1>10, <2>1 DEF Restart, TypeOK, clientVars, queueVars, consumerVars
<1> QED
  BY <1>1, <1>2, <1>3, <1>4, <1>5, <1>6, <1>7, <1>8, <1>9, <1>10 DEF Producing

-----------------------------------------------------------------------------
(* A step of a client changes what belongs to that client, and only that.   *)

Reader == [descriptor : Nat \cup {-1}, index : Nat]

\* The type of what belongs to one client.
TypedAt(c) ==
  /\ pc[c] \in Places /\ kind[c] \in {"stream", "snapshot"} /\ next[c] \in Nat /\ head[c] \in Nat
  /\ line[c] \in Nat /\ reader[c] \in Reader /\ live[c] \in BOOLEAN /\ slow[c] \in BOOLEAN
  /\ queue[c] \in Seq(Nat) /\ Len(queue[c]) <= QueueLimit /\ reason[c] \in Reasons
  /\ start[c] \in Nat /\ ledger[c] \in Seq(Nat) /\ visits[c] \in Nat

OnClients ==
  /\ pc = [c \in Client |-> pc[c]] /\ kind = [c \in Client |-> kind[c]]
  /\ next = [c \in Client |-> next[c]] /\ head = [c \in Client |-> head[c]]
  /\ reader = [c \in Client |-> reader[c]] /\ line = [c \in Client |-> line[c]]
  /\ live = [c \in Client |-> live[c]] /\ slow = [c \in Client |-> slow[c]]
  /\ queue = [c \in Client |-> queue[c]] /\ reason = [c \in Client |-> reason[c]]
  /\ start = [c \in Client |-> start[c]] /\ ledger = [c \in Client |-> ledger[c]]
  /\ visits = [c \in Client |-> visits[c]]

ControlAlone(c) ==
  /\ pc' = [pc EXCEPT ![c] = pc'[c]] /\ kind' = [kind EXCEPT ![c] = kind'[c]]
  /\ reason' = [reason EXCEPT ![c] = reason'[c]] /\ start' = [start EXCEPT ![c] = start'[c]]
  /\ visits' = [visits EXCEPT ![c] = visits'[c]]

DataAlone(c) ==
  /\ next' = [next EXCEPT ![c] = next'[c]] /\ head' = [head EXCEPT ![c] = head'[c]]
  /\ reader' = [reader EXCEPT ![c] = reader'[c]] /\ line' = [line EXCEPT ![c] = line'[c]]
  /\ ledger' = [ledger EXCEPT ![c] = ledger'[c]]

QueueAlone(c) ==
  /\ live' = [live EXCEPT ![c] = live'[c]] /\ slow' = [slow EXCEPT ![c] = slow'[c]]
  /\ queue' = [queue EXCEPT ![c] = queue'[c]]

Alone(c) ==
  UNCHANGED <<fileVars, producer, hubVars>> /\ ControlAlone(c) /\ DataAlone(c) /\ QueueAlone(c)

LEMMA TypesByClient ==
  ASSUME TypeOK
  PROVE  OnClients /\ \A c \in Client : TypedAt(c)
BY DEF TypeOK, OnClients, TypedAt, Reader

LEMMA TypesOfAlone ==
  ASSUME TypeOK, NEW c \in Client, Alone(c), TypedAt(c)'
  PROVE  TypeOK'
<1>1. /\ pc' \in [Client -> Places] /\ kind' \in [Client -> {"stream", "snapshot"}]
      /\ next' \in [Client -> Nat] /\ head' \in [Client -> Nat] /\ line' \in [Client -> Nat]
  BY DEF TypeOK, Alone, ControlAlone, DataAlone, QueueAlone, TypedAt
<1>2. /\ reader' \in [Client -> Reader] /\ live' \in [Client -> BOOLEAN] /\ slow' \in [Client -> BOOLEAN]
      /\ reason' \in [Client -> Reasons] /\ start' \in [Client -> Nat] /\ visits' \in [Client -> Nat]
  BY DEF TypeOK, Alone, ControlAlone, DataAlone, QueueAlone, TypedAt, Reader
<1>3. ledger' \in [Client -> Seq(Nat)] /\ queue' \in [Client -> Seq(Nat)]
  BY DEF TypeOK, Alone, ControlAlone, DataAlone, QueueAlone, TypedAt
<1>4. \A d \in Client : Len(queue'[d]) <= QueueLimit
  BY DEF TypeOK, Alone, ControlAlone, DataAlone, QueueAlone, TypedAt
<1> QED BY <1>1, <1>2, <1>3, <1>4 DEF TypeOK, Alone, ControlAlone, Reader, fileVars, hubVars

\* What any client does is done to it alone.
LEMMA ServingIsAlone ==
  ASSUME OnClients, NEW c \in Client,
         Admit(c) \/ Snapshot(c) \/ Serving(c) \/ GivesUp(c) \/ Fails(c) \/ Dies(c)
  PROVE  Alone(c)
<1> USE DEF OnClients, Closes, Goes
<1>1. CASE Admit(c)
  <2>1. ControlAlone(c)
    BY <1>1, ZenonT(30) DEF ControlAlone, Admit, fileVars, hubVars, queueVars
  <2>2. DataAlone(c)
    BY <1>1, ZenonT(30) DEF DataAlone, Admit, fileVars, hubVars, queueVars
  <2>3. QueueAlone(c)
    BY <1>1, ZenonT(30) DEF QueueAlone, Admit, fileVars, hubVars, queueVars
  <2>4. UNCHANGED <<fileVars, producer, hubVars>>
    BY <1>1, ZenonT(30) DEF Admit, fileVars, hubVars, queueVars
  <2> QED BY <2>1, <2>2, <2>3, <2>4 DEF Alone
<1>2. CASE Snapshot(c)
  <2>1. ControlAlone(c)
    BY <1>2, ZenonT(30) DEF ControlAlone, Snapshot, fileVars, hubVars, queueVars
  <2>2. DataAlone(c)
    BY <1>2, ZenonT(30) DEF DataAlone, Snapshot, fileVars, hubVars, queueVars
  <2>3. QueueAlone(c)
    BY <1>2, ZenonT(30) DEF QueueAlone, Snapshot, fileVars, hubVars, queueVars
  <2>4. UNCHANGED <<fileVars, producer, hubVars>>
    BY <1>2, ZenonT(30) DEF Snapshot, fileVars, hubVars, queueVars
  <2> QED BY <2>1, <2>2, <2>3, <2>4 DEF Alone
<1>3. CASE Ready(c)
  BY <1>3, ZenonT(30) DEF Alone, ControlAlone, DataAlone, QueueAlone, Ready, fileVars, hubVars,
     queueVars, consumerVars
<1>4. CASE Check(c)
  <2>1. ControlAlone(c)
    BY <1>4, ZenonT(30) DEF ControlAlone, Check, fileVars, hubVars, consumerVars
  <2>2. DataAlone(c)
    BY <1>4, ZenonT(30) DEF DataAlone, Check, fileVars, hubVars, consumerVars
  <2>3. QueueAlone(c)
    BY <1>4, ZenonT(30) DEF QueueAlone, Check, fileVars, hubVars, consumerVars
  <2>4. UNCHANGED <<fileVars, producer, hubVars>>
    BY <1>4, ZenonT(30) DEF Check, fileVars, hubVars, consumerVars
  <2> QED BY <2>1, <2>2, <2>3, <2>4 DEF Alone
<1>5. CASE Lists(c)
  <2>1. ControlAlone(c)
    BY <1>5, ZenonT(30) DEF ControlAlone, Lists, Chooses, threadVars, fileVars, hubVars, queueVars
  <2>2. DataAlone(c)
    BY <1>5, ZenonT(30) DEF DataAlone, Lists, Chooses, threadVars, fileVars, hubVars, queueVars
  <2>3. QueueAlone(c)
    BY <1>5, ZenonT(30) DEF QueueAlone, Lists, Chooses, threadVars, fileVars, hubVars, queueVars
  <2>4. UNCHANGED <<fileVars, producer, hubVars>>
    BY <1>5, ZenonT(30) DEF Lists, Chooses, threadVars, fileVars, hubVars, queueVars
  <2> QED BY <2>1, <2>2, <2>3, <2>4 DEF Alone
<1>6. CASE Opens(c)
  <2>1. ControlAlone(c)
    BY <1>6, ZenonT(30) DEF ControlAlone, Opens, threadVars, fileVars, hubVars, queueVars
  <2>2. DataAlone(c)
    BY <1>6, ZenonT(30) DEF DataAlone, Opens, threadVars, fileVars, hubVars, queueVars
  <2>3. QueueAlone(c)
    BY <1>6, ZenonT(30) DEF QueueAlone, Opens, threadVars, fileVars, hubVars, queueVars
  <2>4. UNCHANGED <<fileVars, producer, hubVars>>
    BY <1>6, ZenonT(30) DEF Opens, threadVars, fileVars, hubVars, queueVars
  <2> QED BY <2>1, <2>2, <2>3, <2>4 DEF Alone
<1>7. CASE Skips(c)
  <2>1. ControlAlone(c)
    BY <1>7, ZenonT(30) DEF ControlAlone, Skips, threadVars, fileVars, hubVars, queueVars
  <2>2. DataAlone(c)
    BY <1>7, ZenonT(30) DEF DataAlone, Skips, threadVars, fileVars, hubVars, queueVars
  <2>3. QueueAlone(c)
    BY <1>7, ZenonT(30) DEF QueueAlone, Skips, threadVars, fileVars, hubVars, queueVars
  <2>4. UNCHANGED <<fileVars, producer, hubVars>>
    BY <1>7, ZenonT(30) DEF Skips, threadVars, fileVars, hubVars, queueVars
  <2> QED BY <2>1, <2>2, <2>3, <2>4 DEF Alone
<1>8. CASE AtEnd(c)
  <2>1. ControlAlone(c)
    BY <1>8, ZenonT(30) DEF ControlAlone, AtEnd, threadVars, fileVars, hubVars, queueVars
  <2>2. DataAlone(c)
    BY <1>8, ZenonT(30) DEF DataAlone, AtEnd, threadVars, fileVars, hubVars, queueVars
  <2>3. QueueAlone(c)
    BY <1>8, ZenonT(30) DEF QueueAlone, AtEnd, threadVars, fileVars, hubVars, queueVars
  <2>4. UNCHANGED <<fileVars, producer, hubVars>>
    BY <1>8, ZenonT(30) DEF AtEnd, threadVars, fileVars, hubVars, queueVars
  <2> QED BY <2>1, <2>2, <2>3, <2>4 DEF Alone
<1>9. CASE Continues(c)
  <2>1. ControlAlone(c)
    BY <1>9, ZenonT(30) DEF ControlAlone, Continues, Meets, threadVars, fileVars, hubVars, queueVars
  <2>2. DataAlone(c)
    BY <1>9, ZenonT(30) DEF DataAlone, Continues, Meets, threadVars, fileVars, hubVars, queueVars
  <2>3. QueueAlone(c)
    BY <1>9, ZenonT(30) DEF QueueAlone, Continues, Meets, threadVars, fileVars, hubVars, queueVars
  <2>4. UNCHANGED <<fileVars, producer, hubVars>>
    BY <1>9, ZenonT(30) DEF Continues, Meets, threadVars, fileVars, hubVars, queueVars
  <2> QED BY <2>1, <2>2, <2>3, <2>4 DEF Alone
<1>10. CASE CaughtUp(c)
  <2>1. ControlAlone(c)
    BY <1>10, ZenonT(30) DEF ControlAlone, CaughtUp, threadVars, fileVars, hubVars, queueVars
  <2>2. DataAlone(c)
    BY <1>10, ZenonT(30) DEF DataAlone, CaughtUp, threadVars, fileVars, hubVars, queueVars
  <2>3. QueueAlone(c)
    BY <1>10, ZenonT(30) DEF QueueAlone, CaughtUp, threadVars, fileVars, hubVars, queueVars
  <2>4. UNCHANGED <<fileVars, producer, hubVars>>
    BY <1>10, ZenonT(30) DEF CaughtUp, threadVars, fileVars, hubVars, queueVars
  <2> QED BY <2>1, <2>2, <2>3, <2>4 DEF Alone
<1>11. CASE Halts(c)
  <2>1. ControlAlone(c)
    BY <1>11, ZenonT(30) DEF ControlAlone, Halts, threadVars, fileVars, hubVars, queueVars
  <2>2. DataAlone(c)
    BY <1>11, ZenonT(30) DEF DataAlone, Halts, threadVars, fileVars, hubVars, queueVars
  <2>3. QueueAlone(c)
    BY <1>11, ZenonT(30) DEF QueueAlone, Halts, threadVars, fileVars, hubVars, queueVars
  <2>4. UNCHANGED <<fileVars, producer, hubVars>>
    BY <1>11, ZenonT(30) DEF Halts, threadVars, fileVars, hubVars, queueVars
  <2> QED BY <2>1, <2>2, <2>3, <2>4 DEF Alone
<1>12. CASE SendsLine(c)
  <2>1. ControlAlone(c)
    BY <1>12, ZenonT(30) DEF ControlAlone, SendsLine, Receives, threadVars, fileVars, hubVars,
       queueVars
  <2>2. DataAlone(c)
    BY <1>12, ZenonT(30) DEF DataAlone, SendsLine, Receives, threadVars, fileVars, hubVars,
       queueVars
  <2>3. QueueAlone(c)
    BY <1>12, ZenonT(30) DEF QueueAlone, SendsLine, Receives, threadVars, fileVars, hubVars,
       queueVars
  <2>4. UNCHANGED <<fileVars, producer, hubVars>>
    BY <1>12, ZenonT(30) DEF SendsLine, Receives, threadVars, fileVars, hubVars, queueVars
  <2> QED BY <2>1, <2>2, <2>3, <2>4 DEF Alone
<1>13. CASE CollectsLine(c)
  <2>1. ControlAlone(c)
    BY <1>13, ZenonT(30) DEF ControlAlone, CollectsLine, Receives, threadVars, fileVars, hubVars,
       queueVars
  <2>2. DataAlone(c)
    BY <1>13, ZenonT(30) DEF DataAlone, CollectsLine, Receives, threadVars, fileVars, hubVars,
       queueVars
  <2>3. QueueAlone(c)
    BY <1>13, ZenonT(30) DEF QueueAlone, CollectsLine, Receives, threadVars, fileVars, hubVars,
       queueVars
  <2>4. UNCHANGED <<fileVars, producer, hubVars>>
    BY <1>13, ZenonT(30) DEF CollectsLine, Receives, threadVars, fileVars, hubVars, queueVars
  <2> QED BY <2>1, <2>2, <2>3, <2>4 DEF Alone
<1>14. CASE Expired(c)
  BY <1>14, ZenonT(30) DEF Alone, ControlAlone, DataAlone, QueueAlone, Expired, missingVars,
     threadVars, fileVars, hubVars, queueVars
<1>15. CASE Retries(c)
  BY <1>15, ZenonT(30) DEF Alone, ControlAlone, DataAlone, QueueAlone, Retries, missingVars,
     threadVars, fileVars, hubVars, queueVars
<1>16. CASE Takes(c)
  BY <1>16, ZenonT(30) DEF Alone, ControlAlone, DataAlone, QueueAlone, Takes, threadVars,
     fileVars, hubVars
<1>17. CASE Sends(c)
  <2>1. ControlAlone(c)
    BY <1>17, ZenonT(30) DEF ControlAlone, Sends, Receives, threadVars, fileVars, hubVars, queueVars
  <2>2. DataAlone(c)
    BY <1>17, ZenonT(30) DEF DataAlone, Sends, Receives, threadVars, fileVars, hubVars, queueVars
  <2>3. QueueAlone(c)
    BY <1>17, ZenonT(30) DEF QueueAlone, Sends, Receives, threadVars, fileVars, hubVars, queueVars
  <2>4. UNCHANGED <<fileVars, producer, hubVars>>
    BY <1>17, ZenonT(30) DEF Sends, Receives, threadVars, fileVars, hubVars, queueVars
  <2> QED BY <2>1, <2>2, <2>3, <2>4 DEF Alone
<1>18. CASE Leaves(c)
  BY <1>18, ZenonT(30) DEF Alone, ControlAlone, DataAlone, QueueAlone, Leaves, missingVars,
     threadVars, fileVars, hubVars, queueVars
<1>19. CASE Disconnected(c)
  <2>1. ControlAlone(c)
    BY <1>19, ZenonT(30) DEF ControlAlone, Disconnected, fileVars, hubVars, consumerVars
  <2>2. DataAlone(c)
    BY <1>19, ZenonT(30) DEF DataAlone, Disconnected, fileVars, hubVars, consumerVars
  <2>3. QueueAlone(c)
    BY <1>19, ZenonT(30) DEF QueueAlone, Disconnected, fileVars, hubVars, consumerVars
  <2>4. UNCHANGED <<fileVars, producer, hubVars>>
    BY <1>19, ZenonT(30) DEF Disconnected, fileVars, hubVars, consumerVars
  <2> QED BY <2>1, <2>2, <2>3, <2>4 DEF Alone
<1>20. CASE GivesUp(c)
  BY <1>20, ZenonT(30) DEF Alone, ControlAlone, DataAlone, QueueAlone, GivesUp, missingVars,
     threadVars, fileVars, hubVars, queueVars
<1>21. CASE Fails(c)
  BY <1>21, ZenonT(30) DEF Alone, ControlAlone, DataAlone, QueueAlone, Fails, threadVars,
     fileVars, hubVars, queueVars
<1>22. CASE Dies(c)
  BY <1>22, ZenonT(30) DEF Alone, ControlAlone, DataAlone, QueueAlone, Dies, missingVars,
     threadVars, fileVars, hubVars, queueVars
<1> QED
  BY <1>1, <1>2, <1>3, <1>4, <1>5, <1>6, <1>7, <1>8, <1>9, <1>10, <1>11, <1>12, <1>13, <1>14,
     <1>15, <1>16, <1>17, <1>18, <1>19, <1>20, <1>21, <1>22 DEF Serving

\* A queue without its first line.
LEMMA TakenQueue ==
  ASSUME NEW q \in Seq(Nat), q # <<>>
  PROVE  /\ Head(q) \in Nat /\ Tail(q) \in Seq(Nat) /\ Len(Tail(q)) = Len(q) - 1 /\ Len(q) \in Nat \ {0}
         /\ Head(q) = q[1] /\ \A i \in 1..(Len(q) - 1) : Tail(q)[i] = q[i + 1]
BY HeadTailProperties, LenProperties, EmptySeq

\* What a reader's step does to it.
LEMMA ReaderChange ==
  ASSUME NEW r \in Reader
  PROVE  /\ [r EXCEPT !.index = @ + 1] \in Reader
         /\ \A i \in Nat : [r EXCEPT !.index = i] \in Reader
         /\ \A b \in Nat \cup {-1} : [r EXCEPT !.descriptor = b] \in Reader
         /\ r.index \in Nat /\ r.descriptor \in Nat \cup {-1}
BY DEF Reader

LEMMA AskedIsNat ==
  ASSUME TypeOK, NEW c \in Client
  PROVE  \A index \in Asked(c) : index \in Nat
BY LenProperties, ClientServerAssumption DEF TypeOK, Asked

LEMMA TypesOfServing ==
  ASSUME TypeOK, NEW c \in Client,
         Admit(c) \/ Snapshot(c) \/ Serving(c) \/ GivesUp(c) \/ Fails(c) \/ Dies(c)
  PROVE  TypeOK'
<1>1. OnClients /\ TypedAt(c)
  BY TypesByClient
<1>2. Alone(c)
  BY <1>1, ServingIsAlone
<1>3. /\ "off" \in Places /\ "admitted" \in Places /\ "check" \in Places
         /\ "list" \in Places /\ "relist" \in Places /\ "open" \in Places
         /\ "reopen" \in Places /\ "read" \in Places /\ "eof" \in Places
         /\ "missing" \in Places /\ "live" \in Places /\ "send" \in Places
         /\ "closed" \in Places
      /\ "none" \in Reasons /\ "stopping" \in Reasons /\ "unknown" \in Reasons
         /\ "expired" \in Reasons /\ "full" \in Reasons /\ "goodbye" \in Reasons
         /\ "unavailable" \in Reasons /\ "slow" \in Reasons /\ "dead" \in Reasons
         /\ "error" \in Reasons /\ "large" \in Reasons /\ "answered" \in Reasons
      /\ NoReader \in Reader
  BY DEF Places, Reasons, NoReader, Reader
<1>4. /\ published \in Nat /\ first \in Nat /\ bases \in SUBSET Nat
      /\ \A index \in Asked(c) : index \in Nat
  BY AskedIsNat DEF TypeOK
<1>5. TypedAt(c)'
  <2> USE <1>1, <1>3, <1>4 DEF OnClients, TypedAt, Closes, Goes
  <2>1. CASE Admit(c)
    <3>1. PICK index \in Asked(c) :
            /\ next' = [next EXCEPT ![c] = index] /\ kind' = [kind EXCEPT ![c] = "stream"]
            /\ start' = [start EXCEPT ![c] = index] \/ start' = start
            /\ ledger' = [ledger EXCEPT ![c] = <<>>] \/ ledger' = ledger
            /\ pc' = [pc EXCEPT ![c] = "admitted"] \/ pc' = pc
            /\ \E why \in Reasons : reason' = [reason EXCEPT ![c] = why]
      BY <2>1 DEF Admit
    <3>2. /\ next'[c] \in Nat /\ kind'[c] \in {"stream", "snapshot"} /\ start'[c] \in Nat
          /\ pc'[c] \in Places
      BY <3>1
    <3>4. ledger'[c] \in Seq(Nat)
      <4>1. ledger'[c] = <<>> \/ ledger'[c] = ledger[c]
        BY <3>1
      <4>2. ledger[c] \in Seq(Nat) /\ <<>> \in Seq(Nat)
        OBVIOUS
      <4> QED BY ONLY <4>1, <4>2, Zenon
    <3>3. reason'[c] \in Reasons
      BY <3>1
    <3> QED BY <2>1, <3>2, <3>3, <3>4 DEF Admit, fileVars, hubVars, queueVars
  <2>2. CASE Snapshot(c)
    BY <2>2 DEF Snapshot, fileVars, hubVars, queueVars
  <2>3. CASE Ready(c)
    BY <2>3 DEF Ready, fileVars, hubVars, queueVars, consumerVars
  <2>4. CASE Check(c)
    BY <2>4 DEF Check, fileVars, hubVars, consumerVars
  <2>5. CASE Lists(c)
    <3> DEFINE before == {b \in bases : b <= next[c]}
    <3>1. before \in SUBSET Nat /\ next[c] \in Nat /\ \A b \in before : b <= next[c]
      OBVIOUS
    <3> HIDE DEF before
    <3>2. before # {} => Max(before) \in Nat
      BY ONLY <3>1, MaxOfNats
    <3>3. reader'[c] = reader[c] \/ \E i \in Nat : reader'[c] = [reader[c] EXCEPT !.index = i]
      BY <2>5, <3>2 DEF Lists, Chooses, before
    <3>4. reader'[c] \in Reader
      BY <3>3, ReaderChange
    <3> QED BY <2>5, <3>4 DEF Lists, Chooses, threadVars, fileVars, hubVars, queueVars
  <2>6. CASE Opens(c)
    <3>1. reader'[c] = NoReader \/ reader'[c] = [reader[c] EXCEPT !.descriptor = reader[c].index]
      BY <2>6 DEF Opens
    <3>2. reader'[c] \in Reader
      <4>1. NoReader \in Reader /\ reader[c] \in Reader
        OBVIOUS
      <4>2. [reader[c] EXCEPT !.descriptor = reader[c].index] \in Reader
        BY ONLY <4>1, ReaderChange
      <4> QED BY ONLY <3>1, <4>1, <4>2, Zenon
    <3> QED BY <2>6, <3>2, SMTT(30) DEF Opens, threadVars, fileVars, hubVars, queueVars
  <2>7. CASE Skips(c)
    <3>1. reader'[c] \in Reader
      BY <2>7, ReaderChange DEF Skips
    <3> QED BY <2>7, <3>1 DEF Skips, threadVars, fileVars, hubVars, queueVars
  <2>8. CASE AtEnd(c)
    BY <2>8 DEF AtEnd, threadVars, fileVars, hubVars, queueVars
  <2>9. CASE Continues(c)
    BY <2>9, SMTT(30) DEF Continues, Meets, threadVars, fileVars, hubVars, queueVars, Reader
  <2>10. CASE CaughtUp(c)
    BY <2>10 DEF CaughtUp, threadVars, fileVars, hubVars, queueVars
  <2>11. CASE Halts(c)
    BY <2>11 DEF Halts, threadVars, fileVars, hubVars, queueVars
  <2>12. CASE SendsLine(c)
    <3>1. Append(ledger[c], reader[c].index) \in Seq(Nat)
      BY AppendProperties, ReaderChange
    <3>2. /\ ledger'[c] = Append(ledger[c], reader[c].index) \/ ledger'[c] = ledger[c]
          /\ next'[c] = next[c] + 1 \/ next'[c] = next[c]
          /\ reader'[c] = [reader[c] EXCEPT !.index = @ + 1]
      BY <2>12 DEF SendsLine, Receives
    <3>3. reader'[c] \in Reader
      BY <3>2, ReaderChange
    <3>4. pc'[c] \in Places /\ reason'[c] \in Reasons
      BY <2>12 DEF SendsLine
    <3>5. ledger'[c] \in Seq(Nat) /\ next'[c] \in Nat
      <4>1. ledger[c] \in Seq(Nat) /\ next[c] \in Nat /\ next[c] + 1 \in Nat
        OBVIOUS
      <4> QED BY ONLY <3>1, <3>2, <4>1, Zenon
    <3> QED BY <2>12, <3>3, <3>4, <3>5 DEF SendsLine, threadVars, fileVars, hubVars, queueVars
  <2>13. CASE CollectsLine(c)
    <3>1. Append(ledger[c], reader[c].index) \in Seq(Nat)
      BY AppendProperties, ReaderChange
    <3>2. /\ ledger'[c] = Append(ledger[c], reader[c].index) \/ ledger'[c] = ledger[c]
          /\ next'[c] = next[c] + 1 \/ next'[c] = next[c]
          /\ reader'[c] = [reader[c] EXCEPT !.index = @ + 1]
      BY <2>13 DEF CollectsLine, Receives
    <3>3. reader'[c] \in Reader
      BY <3>2, ReaderChange
    <3>4. pc'[c] \in Places /\ reason'[c] \in Reasons
      BY <2>13 DEF CollectsLine
    <3>5. ledger'[c] \in Seq(Nat) /\ next'[c] \in Nat
      <4>1. ledger[c] \in Seq(Nat) /\ next[c] \in Nat /\ next[c] + 1 \in Nat
        OBVIOUS
      <4> QED BY ONLY <3>1, <3>2, <4>1, Zenon
    <3> QED BY <2>13, <3>3, <3>4, <3>5 DEF CollectsLine, threadVars, fileVars, hubVars, queueVars
  <2>14. CASE Expired(c)
    BY <2>14 DEF Expired, missingVars, threadVars, fileVars, hubVars, queueVars
  <2>15. CASE Retries(c)
    BY <2>15 DEF Retries, missingVars, threadVars, fileVars, hubVars, queueVars
  <2>16. CASE Takes(c)
    <3>1. queue[c] # <<>>
      BY <2>16 DEF Takes
    <3>2. queue'[c] = Tail(queue[c]) /\ line'[c] = Head(queue[c])
      BY <2>16 DEF Takes
    <3>3. queue'[c] \in Seq(Nat) /\ Len(queue'[c]) <= QueueLimit /\ line'[c] \in Nat
      <4>1. queue[c] \in Seq(Nat) /\ Len(queue[c]) <= QueueLimit /\ QueueLimit \in Nat
        BY ClientServerAssumption
      <4>2. /\ Head(queue[c]) \in Nat /\ Tail(queue[c]) \in Seq(Nat)
            /\ Len(Tail(queue[c])) = Len(queue[c]) - 1 /\ Len(queue[c]) \in Nat
        BY ONLY <3>1, <4>1, TakenQueue
      <4>3. Len(Tail(queue[c])) <= QueueLimit
        BY ONLY <4>1, <4>2
      <4> QED BY ONLY <3>2, <4>2, <4>3, Zenon
    <3> QED BY <2>16, <3>3 DEF Takes, threadVars, fileVars, hubVars
  <2>17. CASE Sends(c)
    <3>1. Append(ledger[c], line[c]) \in Seq(Nat)
      BY AppendProperties
    <3>2. /\ ledger'[c] = Append(ledger[c], line[c]) \/ ledger'[c] = ledger[c]
          /\ next'[c] = next[c] + 1 \/ next'[c] = next[c]
      BY <2>17 DEF Sends, Receives
    <3>3. pc'[c] \in Places /\ reason'[c] \in Reasons
      BY <2>17 DEF Sends
    <3>5. ledger'[c] \in Seq(Nat) /\ next'[c] \in Nat
      <4>1. ledger[c] \in Seq(Nat) /\ next[c] \in Nat /\ next[c] + 1 \in Nat
        OBVIOUS
      <4> QED BY ONLY <3>1, <3>2, <4>1, Zenon
    <3> QED BY <2>17, <3>3, <3>5 DEF Sends, threadVars, fileVars, hubVars, queueVars
  <2>18. CASE Leaves(c)
    BY <2>18 DEF Leaves, missingVars, threadVars, fileVars, hubVars, queueVars
  <2>19. CASE Disconnected(c)
    BY <2>19, ClientServerAssumption DEF Disconnected, fileVars, hubVars, consumerVars
  <2>20. CASE GivesUp(c)
    BY <2>20 DEF GivesUp, missingVars, threadVars, fileVars, hubVars, queueVars
  <2>21. CASE Fails(c)
    BY <2>21 DEF Fails, threadVars, fileVars, hubVars, queueVars
  <2>22. CASE Dies(c)
    BY <2>22 DEF Dies, missingVars, threadVars, fileVars, hubVars, queueVars
  <2> QED
    BY <2>1, <2>2, <2>3, <2>4, <2>5, <2>6, <2>7, <2>8, <2>9, <2>10, <2>11, <2>12, <2>13, <2>14,
       <2>15, <2>16, <2>17, <2>18, <2>19, <2>20, <2>21, <2>22 DEF Serving
<1> QED BY <1>2, <1>5, TypesOfAlone

\* Type correctness, and no queue is longer than its limit.
THEOREM TypeCorrect == Spec => []TypeOK
<1>1. Init => TypeOK
  BY ClientServerAssumption DEF Init, TypeOK, Places, Reasons, NoReader
<1>2. TypeOK /\ [Next]_vars => TypeOK'
  <2> SUFFICES ASSUME TypeOK, [Next]_vars PROVE TypeOK'
    OBVIOUS
  <2>1. CASE UNCHANGED vars
    BY <2>1 DEF TypeOK, vars, fileVars, hubVars, clientVars, queueVars, consumerVars
  <2> QED BY <2>1, TypesOfProducing, TypesOfServing DEF Next
<1> QED BY <1>1, <1>2, PTL DEF Spec

-----------------------------------------------------------------------------
(* What the producer does.                                                  *)

\* A client's part of the invariant is about its own state, what is published
\* and durable, and the segments.
LEMMA Untouched ==
  ASSUME NEW c \in Client, ClientInv(c),
         UNCHANGED <<published, durable, bases, sealed>>,
         /\ pc'[c] = pc[c] /\ kind'[c] = kind[c] /\ next'[c] = next[c] /\ head'[c] = head[c]
         /\ line'[c] = line[c] /\ reader'[c] = reader[c] /\ live'[c] = live[c] /\ slow'[c] = slow[c]
         /\ queue'[c] = queue[c] /\ reason'[c] = reason[c] /\ start'[c] = start[c] /\ ledger'[c] = ledger[c]
  PROVE  ClientInv(c)'
<1>1. Connected(c)'
  BY DEF ClientInv, Connected
<1>2. Has(c)'
  BY DEF ClientInv, Has
<1>3. Located(c)'
  BY DEF ClientInv, Located, Within
<1>4. Queued(c)'
  BY DEF ClientInv, Queued, Continuing
<1>5. Honest(c)'
  BY DEF ClientInv, Honest
<1> QED BY <1>1, <1>2, <1>3, <1>4, <1>5 DEF ClientInv

\* Everything in the invariant that the producer has to do with.
LEMMA ProducingKeepsOrder ==
  ASSUME TypeOK, Commits, Segments, Ended, Producing
  PROVE  Commits' /\ Segments' /\ Ended'
<1> USE DEF Commits, Segments, Ended
<1>0. /\ lines \in Nat /\ durable \in Nat /\ published \in Nat /\ first \in Nat
      /\ bases \subseteq sealed /\ sealed \in SUBSET Nat
      /\ \A c \in Client : c \in DOMAIN pc
  BY DEF TypeOK
<1>1. CASE AppendBatch
  BY <1>0, <1>1 DEF AppendBatch, hubVars, clientVars
<1>2. CASE Commit
  BY <1>0, <1>2 DEF Commit, hubVars, clientVars
<1>3. CASE Rotate
  <2>1. CASE sealed' = sealed \cup {durable} /\ bases' = bases \cup {durable}
    <3>1. \A b \in bases : first <= b /\ b <= durable
      BY <1>0
    <3>2. first <= durable
      <4>1. PICK b \in bases : b \in Nat
        BY <1>0 DEF TypeOK
      <4> QED BY <1>0, <3>1, <4>1
    <3>3. \A s \in sealed', b \in bases' : b <= s => s \in bases'
      BY <1>0, <2>1
    <3> QED BY <1>0, <1>3, <2>1, <3>1, <3>2, <3>3 DEF Rotate, hubVars, clientVars
  <2>2. CASE UNCHANGED <<bases, sealed>>
    BY <1>0, <1>3, <2>2 DEF Rotate, hubVars, clientVars
  <2> QED BY <1>3, <2>1, <2>2 DEF Rotate
<1>4. CASE Expire
  <2>1. bases' \subseteq bases /\ \A b \in bases : b \notin bases' => b = Min(bases)
    BY <1>4 DEF Expire
  <2>2. /\ \A b \in bases' : Min(bases) < b
        /\ Min(bases) \in Nat
    BY <1>4, LeastBase, <1>0 DEF Expire
  <2>3. \A s \in sealed', b \in bases' : b <= s => s \in bases'
    BY <1>0, <1>4, <2>1, <2>2 DEF Expire
  <2> QED BY <1>0, <1>4, <2>1, <2>3 DEF Expire, hubVars, clientVars
<1>5. CASE Retained
  BY <1>0, <1>5 DEF Retained, fileVars, hubVars, clientVars
<1>6. CASE Publish
  BY <1>0, <1>6 DEF Publish, fileVars, clientVars
<1>7. CASE Published
  BY <1>0, <1>7, LeastBase DEF Published, fileVars, clientVars
<1>8. CASE Stop
  BY <1>0, <1>8, LeastBase DEF Stop, fileVars, clientVars
<1>9. CASE Down
  BY <1>0, <1>9 DEF Down, fileVars, hubVars
<1>10. CASE Restart
  BY <1>0, <1>10, LeastBase DEF Restart, clientVars
<1> QED
  BY <1>1, <1>2, <1>3, <1>4, <1>5, <1>6, <1>7, <1>8, <1>9, <1>10 DEF Producing

LEMMA ProducingKeepsClients ==
  ASSUME ServerInv, Producing, NEW c \in Client
  PROVE  ClientInv(c)'
<1>0. /\ lines \in Nat /\ durable \in Nat /\ published \in Nat /\ bases \in SUBSET Nat /\ bases # {}
      /\ published <= durable /\ durable <= lines /\ OnClients /\ TypedAt(c) /\ ClientInv(c)
      /\ bases \subseteq sealed /\ sealed \in SUBSET Nat /\ \A s \in sealed : s <= durable
  BY TypesByClient DEF ServerInv, TypeOK, Commits, Segments
<1>1. CASE AppendBatch \/ Retained \/ Published \/ Stop
  BY <1>0, <1>1, Untouched DEF AppendBatch, Retained, Published, Stop, fileVars, hubVars,
     clientVars, queueVars, consumerVars
<1>2. CASE Commit
  <2>1. durable' >= durable /\ durable' \in Nat
    BY <1>0, <1>2 DEF Commit
  <2>2. UNCHANGED <<bases, sealed, published, pc, kind, next, head, reader, line, reason, live, slow, queue, start, ledger>>
    BY <1>2 DEF Commit, hubVars, clientVars, queueVars, consumerVars
  <2>3. Has(c)'
    <3>1. Len(ledger[c]) \in Nat /\ start[c] \in Nat
      BY <1>0, LenProperties DEF TypedAt
    <3> QED BY <1>0, <2>1, <2>2, <3>1 DEF ClientInv, Has
  <2> QED BY <1>0, <2>2, <2>3 DEF ClientInv, Connected, Located, Within, Queued, Continuing, Honest
<1>3. CASE Rotate
  <2>1. /\ sealed' \subseteq sealed \cup {durable} /\ bases' \subseteq bases \cup {durable}
        /\ sealed \subseteq sealed' /\ published < durable
    BY <1>3 DEF Rotate, ServerInv, Commits
  <2>2. UNCHANGED <<durable, published, pc, kind, next, head, reader, line, reason, live, slow, queue, start, ledger>>
    BY <1>3 DEF Rotate, hubVars, clientVars, queueVars, consumerVars
  <2>3. next[c] \in Nat /\ head[c] \in Nat /\ reader[c].index \in Nat
    BY <1>0, ReaderChange DEF TypedAt
  <2>4. Located(c)'
    <3>1. Located(c)
      BY <1>0 DEF ClientInv
    <3>2. pc[c] \in Fetching => next[c] < durable /\ reader[c].index < durable
      BY <1>0, <2>1, <2>3, <3>1 DEF Located, Fetching
    <3>3. pc[c] = "check" => next[c] < durable /\ reader[c].index < durable
      BY <1>0, <2>1, <2>3, <3>1 DEF ClientInv, Has, Located
    <3>4. ASSUME Within(c, reader[c].descriptor), next[c] < durable, reader[c].index < durable
          PROVE  Within(c, reader[c].descriptor)'
      <4>1. \A s \in sealed' : s \in sealed \/ s = durable
        BY <2>1
      <4>2. reader[c].index \in Nat /\ next[c] \in Nat /\ durable \in Nat /\ sealed \in SUBSET Nat
        BY <1>0, <2>3
      <4> DEFINE b == reader[c].descriptor
      <4>3. /\ b \in sealed /\ b <= reader[c].index /\ \A s \in sealed : b < s => reader[c].index <= s
            /\ reader[c].index < next[c] => \A s \in sealed : b < s => next[c] < s
        BY <3>4 DEF Within
      <4> HIDE DEF b
      <4>4. \A s \in sealed' : b < s => reader[c].index <= s
        <5>1. reader[c].index <= durable
          BY <3>4, <4>2
        <5> QED BY ONLY <4>1, <4>3, <5>1
      <4>5. reader[c].index < next[c] => \A s \in sealed' : b < s => next[c] < s
        BY ONLY <3>4, <4>1, <4>2, <4>3
      <4>6. reader'[c] = reader[c] /\ next'[c] = next[c] /\ b \in sealed'
        BY <2>1, <2>2, <4>3
      <4> QED BY ONLY <4>3, <4>4, <4>5, <4>6 DEF Within, b
    <3> QED BY <2>1, <2>2, <3>1, <3>2, <3>3, <3>4 DEF Located, Fetching
  <2>5. Honest(c)'
    <3>1. reason[c] = "expired" => next[c] < durable
      <4>1. PICK b \in bases : b \in Nat /\ b <= durable
        BY <1>0
      <4> QED BY <1>0, <2>3, <4>1 DEF ClientInv, Honest
    <3> QED BY <1>0, <2>1, <2>2, <3>1 DEF ClientInv, Honest
  <2> QED BY <1>0, <2>2, <2>4, <2>5 DEF ClientInv, Connected, Has, Queued, Continuing
<1>4. CASE Expire
  <2>1. bases' \subseteq bases
    BY <1>4 DEF Expire
  <2>2. UNCHANGED <<sealed, durable, published, pc, kind, next, head, reader, line, reason, live, slow, queue, start, ledger>>
    BY <1>4 DEF Expire, hubVars, clientVars, queueVars, consumerVars
  <2> QED BY <1>0, <2>1, <2>2 DEF ClientInv, Connected, Has, Located, Within, Queued, Continuing,
     Honest
<1>5. CASE Publish
  <2>1. UNCHANGED <<sealed, bases, durable, pc, kind, next, head, reader, line, reason, live, start, ledger>> /\ published' = published + 1
    BY <1>5 DEF Publish, fileVars, clientVars, consumerVars
  <2>2. /\ c \in Receivers \cap Roomy => slow'[c] = slow[c] /\ queue'[c] = Append(queue[c], published)
        /\ c \in Receivers \ Roomy => slow'[c] = TRUE /\ queue'[c] = queue[c]
        /\ c \notin Receivers => slow'[c] = slow[c] /\ queue'[c] = queue[c]
    BY <1>0, <1>5 DEF Publish, FanOut, Fan, OnClients, TypedAt
  <2>3. Connected(c)'
    BY <1>0, <2>1, <2>2 DEF ClientInv, Connected, Receivers
  <2>4. Has(c)' /\ Located(c)' /\ Honest(c)'
    BY <1>0, <2>1 DEF ClientInv, Has, Located, Within, Honest, TypedAt
  <2>5. ASSUME NEW n \in Nat, Continuing(c, n), pc[c] \in {"live", "send"}
        PROVE  Continuing(c, n)'
    <3>1. Len(queue[c]) \in Nat /\ queue[c] \in Seq(Nat) /\ slow[c] \in BOOLEAN
      BY <1>0, LenProperties DEF TypedAt
    <3>2. c \in Receivers <=> ~slow[c]
      BY <1>0, <2>5 DEF ClientInv, Connected, Receivers, Clients
    <3>3. CASE slow[c]
      <4>1. slow'[c] = slow[c] /\ queue'[c] = queue[c] /\ published' = published + 1 /\ published \in Nat
        BY <1>0, <2>1, <2>2, <3>2, <3>3
      <4> QED BY ONLY <2>5, <3>1, <3>3, <4>1 DEF Continuing
    <3>4. CASE c \in Receivers \ Roomy
      BY <1>0, <2>1, <2>2, <2>5, <3>1, <3>2, <3>4 DEF Continuing
    <3>5. CASE c \in Receivers \cap Roomy
      <4>1. /\ Len(queue'[c]) = Len(queue[c]) + 1
            /\ queue'[c][Len(queue[c]) + 1] = published
            /\ \A i \in 1..Len(queue[c]) : queue'[c][i] = queue[c][i]
        BY <1>0, <2>2, <3>1, <3>5, AppendProperties, SMTT(30)
      <4>2. n + Len(queue[c]) = published
        BY <2>5, <3>2, <3>5 DEF Continuing
      <4>3. \A i \in 1..(Len(queue[c]) + 1) : queue'[c][i] = n + i - 1
        <5> SUFFICES ASSUME NEW i \in 1..(Len(queue[c]) + 1) PROVE queue'[c][i] = n + i - 1
          OBVIOUS
        <5>1. CASE i = Len(queue[c]) + 1
          BY ONLY <2>5, <3>1, <4>1, <4>2, <5>1
        <5>2. CASE i \in 1..Len(queue[c])
          BY <2>5, <4>1, <5>2 DEF Continuing
        <5> QED BY ONLY <3>1, <5>1, <5>2
      <4>4. slow'[c] = slow[c] /\ published' = published + 1 /\ published \in Nat
        BY <1>0, <2>1, <2>2, <3>5
      <4> QED BY ONLY <2>5, <3>1, <4>1, <4>2, <4>3, <4>4 DEF Continuing
    <3> QED BY <3>2, <3>3, <3>4, <3>5
  <2>6. Queued(c)'
    BY <1>0, <2>1, <2>5 DEF ClientInv, Queued, TypedAt
  <2> QED BY <2>3, <2>4, <2>6 DEF ClientInv
<1>6. CASE Down
  <2>1. /\ pc'[c] = "off" /\ live'[c] = FALSE /\ slow'[c] = FALSE /\ queue'[c] = <<>> /\ head'[c] = 0
        /\ reader'[c] = NoReader /\ reason'[c] \in {reason[c], "dead"}
    BY <1>6 DEF Down
  <2>2. UNCHANGED <<sealed, bases, durable, published, kind, next, start, ledger>>
    BY <1>6 DEF Down, fileVars, hubVars, consumerVars
  <2>3. Has(c)'
    BY <1>0, <2>1, <2>2 DEF ClientInv, Has
  <2>4. Located(c)'
    BY <1>0, <2>1, <2>2 DEF Located, NoReader, Fetching, TypedAt
  <2> QED BY <1>0, <2>1, <2>2, <2>3, <2>4 DEF ClientInv, Connected, Queued, Honest
<1>7. CASE Restart
  <2>1. published' = durable /\ pc[c] = "off"
    BY <1>7 DEF Restart, ServerInv, Ended
  <2>2. UNCHANGED <<sealed, bases, durable, pc, kind, next, head, reader, line, reason, live, slow, queue, start, ledger>>
    BY <1>7 DEF Restart, clientVars, queueVars, consumerVars
  <2> QED BY <1>0, <2>1, <2>2 DEF ClientInv, Connected, Has, Located, Within, Queued, Honest,
     TypedAt, Fetching
<1> QED
  BY <1>1, <1>2, <1>3, <1>4, <1>5, <1>6, <1>7 DEF Producing

-----------------------------------------------------------------------------
(* What a client's step does to it, point by point.                         *)

KeepsData(c) ==
  /\ kind'[c] = kind[c] /\ next'[c] = next[c] /\ head'[c] = head[c] /\ line'[c] = line[c]
  /\ start'[c] = start[c] /\ ledger'[c] = ledger[c]

KeepsQueue(c) == live'[c] = live[c] /\ slow'[c] = slow[c] /\ queue'[c] = queue[c]

LEMMA ReadyAt ==
  ASSUME OnClients, NEW c \in Client, Ready(c)
  PROVE  /\ pc[c] = "admitted"
         /\ \/ pc'[c] = "check" /\ reason'[c] = reason[c]
            \/ pc'[c] = "closed" /\ reason'[c] = "dead"
         /\ KeepsData(c)
         /\ reader'[c] = reader[c]
         /\ KeepsQueue(c)
BY DEF OnClients, KeepsData, KeepsQueue, Closes, Goes, Ready, fileVars, hubVars, queueVars,
   consumerVars

LEMMA ExpiredAt ==
  ASSUME OnClients, NEW c \in Client, Expired(c)
  PROVE  /\ pc[c] = "missing" /\ next[c] < first
         /\ pc'[c] = "closed" /\ reason'[c] = "expired"
         /\ KeepsData(c)
         /\ reader'[c] = reader[c]
         /\ KeepsQueue(c)
BY DEF OnClients, KeepsData, KeepsQueue, Closes, Goes, Expired, missingVars, threadVars, fileVars,
   hubVars, queueVars

LEMMA RetriesAt ==
  ASSUME OnClients, NEW c \in Client, Retries(c)
  PROVE  /\ pc[c] = "missing"
         /\ pc'[c] = "read" /\ reason'[c] = reason[c]
         /\ KeepsData(c)
         /\ reader'[c] = reader[c]
         /\ KeepsQueue(c)
BY DEF OnClients, KeepsData, KeepsQueue, Closes, Goes, Retries, missingVars, threadVars, fileVars,
   hubVars, queueVars

LEMMA GivesUpAt ==
  ASSUME OnClients, NEW c \in Client, GivesUp(c)
  PROVE  /\ pc[c] = "missing"
         /\ pc'[c] = "closed" /\ reason'[c] = "unavailable"
         /\ KeepsData(c)
         /\ reader'[c] = reader[c]
         /\ KeepsQueue(c)
BY DEF OnClients, KeepsData, KeepsQueue, Closes, Goes, GivesUp, missingVars, threadVars, fileVars,
   hubVars, queueVars

LEMMA FailsAt ==
  ASSUME OnClients, NEW c \in Client, Fails(c)
  PROVE  /\ pc[c] \in {"list", "relist", "open", "reopen", "eof"}
         /\ pc'[c] = "closed" /\ reason'[c] = "error"
         /\ KeepsData(c)
         /\ reader'[c] = reader[c]
         /\ KeepsQueue(c)
BY DEF OnClients, KeepsData, KeepsQueue, Closes, Goes, Fails, threadVars, fileVars, hubVars,
   queueVars

LEMMA DiesAt ==
  ASSUME OnClients, NEW c \in Client, Dies(c)
  PROVE  /\ pc[c] = "live"
         /\ pc'[c] = "closed" /\ reason'[c] = "dead"
         /\ KeepsData(c)
         /\ reader'[c] = reader[c]
         /\ KeepsQueue(c)
BY DEF OnClients, KeepsData, KeepsQueue, Closes, Goes, Dies, missingVars, threadVars, fileVars,
   hubVars, queueVars

LEMMA LeavesAt ==
  ASSUME OnClients, NEW c \in Client, Leaves(c)
  PROVE  /\ pc[c] = "live"
         /\ \/ pc'[c] = "closed" /\ reason'[c] = "slow"
            \/ pc'[c] = "closed" /\ reason'[c] = "goodbye"
         /\ KeepsData(c)
         /\ reader'[c] = reader[c]
         /\ KeepsQueue(c)
BY DEF OnClients, KeepsData, KeepsQueue, Closes, Goes, Leaves, missingVars, threadVars, fileVars,
   hubVars, queueVars

LEMMA HaltsAt ==
  ASSUME OnClients, NEW c \in Client, Halts(c)
  PROVE  /\ pc[c] = "read"
         /\ pc'[c] = "closed" /\ reason'[c] = "goodbye"
         /\ KeepsData(c)
         /\ reader'[c] = reader[c]
         /\ KeepsQueue(c)
BY DEF OnClients, KeepsData, KeepsQueue, Closes, Goes, Halts, Reading, Seeking, threadVars,
   fileVars, hubVars, queueVars

LEMMA CaughtUpAt ==
  ASSUME OnClients, NEW c \in Client, TypedAt(c), CaughtUp(c)
  PROVE  /\ pc[c] = "read" /\ ~(reader[c].index < next[c]) /\ ~(next[c] < head[c])
         /\ \/ kind[c] = "stream" /\ pc'[c] = "check" /\ reason'[c] = reason[c]
            \/ kind[c] # "stream" /\ pc'[c] = "closed" /\ reason'[c] = "answered"
         /\ KeepsData(c)
         /\ reader'[c] = reader[c]
         /\ KeepsQueue(c)
BY DEF OnClients, TypedAt, KeepsData, KeepsQueue, Closes, Goes, CaughtUp, Reading, Seeking,
   threadVars, fileVars, hubVars, queueVars

LEMMA DisconnectedAt ==
  ASSUME OnClients, NEW c \in Client, Disconnected(c)
  PROVE  /\ pc[c] = "closed"
         /\ pc'[c] = "off" /\ reason'[c] = reason[c]
         /\ head'[c] = 0 /\ reader'[c] = NoReader
         /\ live'[c] = FALSE /\ slow'[c] = FALSE /\ queue'[c] = <<>>
         /\ kind'[c] = kind[c] /\ next'[c] = next[c] /\ line'[c] = line[c] /\ start'[c] = start[c] /\ ledger'[c] = ledger[c]
BY DEF OnClients, KeepsData, KeepsQueue, Closes, Goes, Disconnected, fileVars, hubVars, consumerVars

LEMMA CheckAt ==
  ASSUME OnClients, NEW c \in Client, Check(c)
  PROVE  /\ pc[c] = "check" /\ head'[c] = published
         /\ kind'[c] = kind[c] /\ next'[c] = next[c] /\ line'[c] = line[c] /\ start'[c] = start[c] /\ ledger'[c] = ledger[c]
         /\ slow'[c] = slow[c] /\ queue'[c] = queue[c]
         /\ \/ pc'[c] = "closed" /\ reason'[c] = "goodbye" /\ live'[c] = live[c] /\ reader'[c] = reader[c]
            \/ next[c] = published /\ pc'[c] = "live" /\ reason'[c] = reason[c] /\ live'[c] = TRUE /\ reader'[c] = NoReader
            \/ next[c] # published /\ reader[c] = NoReader /\ pc'[c] = "list" /\ reason'[c] = reason[c] /\ live'[c] = live[c] /\ reader'[c] = reader[c]
            \/ next[c] # published /\ reader[c] # NoReader /\ pc'[c] = "read" /\ reason'[c] = reason[c] /\ live'[c] = live[c] /\ reader'[c] = reader[c]
BY DEF OnClients, KeepsData, KeepsQueue, Closes, Goes, Check, fileVars, hubVars, consumerVars

LEMMA ListsAt ==
  ASSUME TypeOK, NEW c \in Client, Lists(c)
  PROVE  /\ pc[c] \in {"list", "relist"} /\ KeepsData(c) /\ KeepsQueue(c)
         /\ \/ /\ \A b \in bases : next[c] < b
               /\ pc'[c] = "closed" /\ reason'[c] = "expired" /\ reader'[c] = reader[c]
            \/ /\ \E m \in bases : /\ m <= next[c] /\ \A b \in bases : b <= next[c] => b <= m
                                   /\ reader'[c] = [reader[c] EXCEPT !.index = m]
               /\ pc'[c] \in {"open", "reopen"} /\ reason'[c] = reason[c]
<1> DEFINE before == {b \in bases : b <= next[c]}
<1>1. before \in SUBSET Nat /\ next[c] \in Nat /\ \A b \in before : b <= next[c]
  BY DEF TypeOK
<1>2. before # {} => Max(before) \in before /\ \A b \in before : Max(before) >= b
  <2> HIDE DEF before
  <2> QED BY ONLY <1>1, MaxOfNats
<1>3. pc[c] \in {"list", "relist"} /\ KeepsData(c) /\ KeepsQueue(c)
  BY DEF Lists, Chooses, KeepsData, KeepsQueue, threadVars, fileVars, hubVars, queueVars
<1>4. \/ before = {} /\ pc'[c] = "closed" /\ reason'[c] = "expired" /\ reader'[c] = reader[c]
      \/ /\ before # {} /\ reader'[c] = [reader[c] EXCEPT !.index = Max(before)]
         /\ pc'[c] \in {"open", "reopen"} /\ reason'[c] = reason[c]
  BY DEF TypeOK, Lists, Chooses, Closes, Goes
<1>5. before = {} => \A b \in bases : next[c] < b
  BY <1>1 DEF TypeOK
<1>6. before # {} => \E m \in bases : /\ m = Max(before) /\ m <= next[c]
                                      /\ \A b \in bases : b <= next[c] => b <= m
  <2> SUFFICES ASSUME before # {}
               PROVE  /\ Max(before) \in bases /\ Max(before) <= next[c]
                      /\ \A b \in bases : b <= next[c] => b <= Max(before)
    OBVIOUS
  <2>1. Max(before) \in Nat /\ bases \in SUBSET Nat
    BY <1>1, <1>2 DEF TypeOK
  <2> QED BY <1>2, <2>1
<1> HIDE DEF before
<1> QED BY <1>3, <1>4, <1>5, <1>6

LEMMA OpensAt ==
  ASSUME OnClients, NEW c \in Client, Opens(c)
  PROVE  /\ pc[c] \in {"open", "reopen"}
         /\ KeepsData(c)
         /\ KeepsQueue(c)
         /\ \/ reader[c].index \in bases /\ pc'[c] = "read" /\ reason'[c] = reason[c] /\ reader'[c] = [reader[c] EXCEPT !.descriptor = reader[c].index]
            \/ pc'[c] = "relist" /\ reason'[c] = reason[c] /\ reader'[c] = NoReader
            \/ reader[c].index \notin bases /\ pc'[c] = "closed" /\ reason'[c] = "expired" /\ reader'[c] = NoReader
BY DEF OnClients, KeepsData, KeepsQueue, Closes, Goes, Opens, threadVars, fileVars, hubVars,
   queueVars

LEMMA SkipsAt ==
  ASSUME OnClients, NEW c \in Client, Skips(c)
  PROVE  /\ pc[c] = "read" /\ reader[c].index < next[c] /\ HasLine(c)
         /\ pc'[c] = pc[c] /\ reason'[c] = reason[c]
         /\ KeepsData(c)
         /\ KeepsQueue(c)
         /\ reader'[c] = [reader[c] EXCEPT !.index = @ + 1]
BY DEF OnClients, KeepsData, KeepsQueue, Closes, Goes, Skips, Seeking, threadVars, fileVars,
   hubVars, queueVars

LEMMA AtEndAt ==
  ASSUME OnClients, NEW c \in Client, AtEnd(c)
  PROVE  /\ pc[c] = "read" /\ ~HasLine(c)
         /\ reader[c].index < next[c] \/ next[c] < head[c]
         /\ pc'[c] = "eof" /\ reason'[c] = reason[c]
         /\ KeepsData(c)
         /\ reader'[c] = reader[c]
         /\ KeepsQueue(c)
BY DEF OnClients, KeepsData, KeepsQueue, Closes, Goes, AtEnd, Seeking, threadVars, fileVars,
   hubVars, queueVars

LEMMA ContinuesAt ==
  ASSUME OnClients, NEW c \in Client, Continues(c)
  PROVE  /\ pc[c] = "eof"
         /\ KeepsData(c)
         /\ KeepsQueue(c)
         /\ \/ reader[c].index \in bases /\ pc'[c] = "read" /\ reason'[c] = reason[c] /\ reader'[c] = [reader[c] EXCEPT !.descriptor = reader[c].index]
            \/ reader[c].index \notin bases /\ pc'[c] = "closed" /\ reason'[c] = "expired" /\ reader'[c] = reader[c]
            \/ kind[c] # "snapshot" /\ pc'[c] = "missing" /\ reason'[c] = reason[c] /\ reader'[c] = reader[c]
BY DEF OnClients, KeepsData, KeepsQueue, Closes, Goes, Continues, Meets, Seeking, threadVars,
   fileVars, hubVars, queueVars

LEMMA SendsLineAt ==
  ASSUME OnClients, NEW c \in Client, SendsLine(c)
  PROVE  /\ pc[c] = "read" /\ ~(reader[c].index < next[c]) /\ next[c] < head[c] /\ HasLine(c)
         /\ kind[c] = "stream"
         /\ head'[c] = head[c] /\ line'[c] = line[c] /\ kind'[c] = kind[c] /\ start'[c] = start[c]
         /\ KeepsQueue(c)
         /\ reader'[c] = [reader[c] EXCEPT !.index = @ + 1]
         /\ \/ ledger'[c] = Append(ledger[c], reader[c].index) /\ next'[c] = next[c] + 1 /\ pc'[c] = pc[c] /\ reason'[c] = reason[c]
            \/ ledger'[c] = ledger[c] /\ next'[c] = next[c] /\ pc'[c] = "closed" /\ reason'[c] = "dead"
BY DEF OnClients, KeepsData, KeepsQueue, Closes, Goes, SendsLine, Receives, Reading, Seeking,
   threadVars, fileVars, hubVars, queueVars

LEMMA CollectsLineAt ==
  ASSUME OnClients, NEW c \in Client, CollectsLine(c)
  PROVE  /\ pc[c] = "read" /\ ~(reader[c].index < next[c]) /\ next[c] < head[c] /\ HasLine(c)
         /\ kind[c] = "snapshot"
         /\ head'[c] = head[c] /\ line'[c] = line[c] /\ kind'[c] = kind[c] /\ start'[c] = start[c]
         /\ KeepsQueue(c)
         /\ reader'[c] = [reader[c] EXCEPT !.index = @ + 1]
         /\ \/ ledger'[c] = Append(ledger[c], reader[c].index) /\ next'[c] = next[c] + 1 /\ pc'[c] = pc[c] /\ reason'[c] = reason[c]
            \/ ledger'[c] = ledger[c] /\ next'[c] = next[c] /\ pc'[c] = "closed" /\ reason'[c] = "large"
BY DEF OnClients, KeepsData, KeepsQueue, Closes, Goes, CollectsLine, Receives, Reading, Seeking,
   threadVars, fileVars, hubVars, queueVars

LEMMA TakesAt ==
  ASSUME OnClients, NEW c \in Client, Takes(c)
  PROVE  /\ pc[c] = "live" /\ queue[c] # <<>>
         /\ pc'[c] = "send" /\ reason'[c] = reason[c]
         /\ kind'[c] = kind[c] /\ next'[c] = next[c] /\ start'[c] = start[c] /\ ledger'[c] = ledger[c]
         /\ head'[c] = head[c]
         /\ reader'[c] = reader[c]
         /\ line'[c] = Head(queue[c]) /\ queue'[c] = Tail(queue[c])
         /\ live'[c] = live[c] /\ slow'[c] = slow[c]
BY DEF OnClients, KeepsData, KeepsQueue, Closes, Goes, Takes, threadVars, fileVars, hubVars

LEMMA SendsAt ==
  ASSUME OnClients, NEW c \in Client, Sends(c)
  PROVE  /\ pc[c] = "send"
         /\ head'[c] = head[c] /\ kind'[c] = kind[c] /\ start'[c] = start[c]
         /\ reader'[c] = reader[c]
         /\ KeepsQueue(c)
         /\ \/ ledger'[c] = Append(ledger[c], line[c]) /\ next'[c] = next[c] + 1 /\ pc'[c] = "live" /\ reason'[c] = reason[c]
            \/ ledger'[c] = ledger[c] /\ next'[c] = next[c] /\ pc'[c] = "closed" /\ reason'[c] = "dead"
BY DEF OnClients, KeepsData, KeepsQueue, Closes, Goes, Sends, Receives, threadVars, fileVars,
   hubVars, queueVars

LEMMA SnapshotAt ==
  ASSUME OnClients, NEW c \in Client, Snapshot(c)
  PROVE  /\ pc[c] = "off"
         /\ start'[c] = 0 /\ ledger'[c] = <<>> /\ kind'[c] = "snapshot" /\ next'[c] = 0
         /\ head'[c] = published /\ line'[c] = line[c]
         /\ reader'[c] = reader[c]
         /\ KeepsQueue(c)
         /\ \/ first > 0 /\ pc'[c] = "closed" /\ reason'[c] = "expired"
            \/ pc'[c] = "list" /\ reason'[c] = "none"
BY DEF OnClients, KeepsData, KeepsQueue, Closes, Goes, Snapshot, fileVars, hubVars, queueVars

LEMMA AdmitAt ==
  ASSUME TypeOK, NEW c \in Client, Admit(c)
  PROVE  /\ Up /\ pc[c] = "off" /\ kind'[c] = "stream" /\ next'[c] \in Nat
         /\ head'[c] = head[c] /\ line'[c] = line[c] /\ reader'[c] = reader[c] /\ KeepsQueue(c)
         /\ \/ start'[c] = next'[c] /\ ledger'[c] = <<>>
            \/ /\ start'[c] = start[c] /\ ledger'[c] = ledger[c]
               /\ next'[c] = start[c] + Len(ledger[c])
         /\ \/ pc'[c] = "off" /\ reason'[c] \in {"stopping", "unknown", "full"}
            \/ pc'[c] = "off" /\ reason'[c] = "expired" /\ next'[c] < first
            \/ pc'[c] = "admitted" /\ reason'[c] = "none" /\ next'[c] <= published
<1>1. /\ Up /\ pc[c] = "off"
      /\ head'[c] = head[c] /\ line'[c] = line[c] /\ reader'[c] = reader[c] /\ KeepsQueue(c)
  BY DEF Admit, KeepsQueue, queueVars
<1>2. PICK index \in Asked(c) :
        /\ next' = [next EXCEPT ![c] = index] /\ kind' = [kind EXCEPT ![c] = "stream"]
        /\ IF Fresh(c)
           THEN start' = [start EXCEPT ![c] = index] /\ ledger' = [ledger EXCEPT ![c] = <<>>]
           ELSE UNCHANGED <<start, ledger>>
        /\ \/ \E why \in {"stopping", "unknown", "expired", "full"} :
                /\ Refuses(c, index, why)
                /\ reason' = [reason EXCEPT ![c] = why]
                /\ UNCHANGED pc
           \/ /\ \A why \in {"stopping", "unknown", "expired", "full"} : ~Refuses(c, index, why)
              /\ pc' = [pc EXCEPT ![c] = "admitted"]
              /\ reason' = [reason EXCEPT ![c] = "none"]
  BY DEF Admit
<1>3. index \in Nat /\ published \in Nat /\ first \in Nat
  BY AskedIsNat DEF TypeOK
<1>4. next'[c] = index /\ kind'[c] = "stream"
  BY <1>2 DEF TypeOK
<1>5. \/ start'[c] = index /\ ledger'[c] = <<>>
      \/ start'[c] = start[c] /\ ledger'[c] = ledger[c] /\ index = start[c] + Len(ledger[c])
  BY <1>2 DEF TypeOK, Asked
<1>6. Refuses(c, index, "expired") => index < first
  BY DEF Refuses
<1>7. ~Refuses(c, index, "unknown") /\ ~Refuses(c, index, "stopping") => index <= published
  BY <1>3 DEF Refuses
<1>8. \/ pc'[c] = "off" /\ reason'[c] \in {"stopping", "unknown", "full"}
      \/ pc'[c] = "off" /\ reason'[c] = "expired" /\ index < first
      \/ pc'[c] = "admitted" /\ reason'[c] = "none" /\ index <= published
  BY <1>1, <1>2, <1>6, <1>7 DEF TypeOK
<1> QED BY <1>1, <1>3, <1>4, <1>5, <1>8

-----------------------------------------------------------------------------
(* What a client's step keeps.                                              *)

\* What is known before a client's step.
Before(c) ==
  /\ TypeOK /\ Commits /\ Segments /\ ClientInv(c) /\ TypedAt(c) /\ OnClients
  /\ UNCHANGED <<fileVars, producer, hubVars>>

\* The numbers among it.
LEMMA BeforeNumbers ==
  ASSUME NEW c \in Client, Before(c)
  PROVE  /\ published \in Nat /\ first \in Nat /\ durable \in Nat /\ lines \in Nat
         /\ next[c] \in Nat /\ head[c] \in Nat /\ start[c] \in Nat /\ line[c] \in Nat
         /\ reader[c].index \in Nat /\ reader[c].descriptor \in Nat \cup {-1}
         /\ bases \subseteq sealed /\ sealed \in SUBSET Nat
         /\ Len(ledger[c]) \in Nat /\ Len(queue[c]) \in Nat /\ reader[c] \in Reader
         /\ ledger[c] \in Seq(Nat) /\ queue[c] \in Seq(Nat)
         /\ kind[c] \in {"stream", "snapshot"} /\ slow[c] \in BOOLEAN /\ live[c] \in BOOLEAN
         /\ published <= durable /\ durable <= lines
         /\ UNCHANGED <<lines, durable, bases, sealed, published, first>>
BY LenProperties, ReaderChange DEF Before, TypedAt, TypeOK, Commits, fileVars, hubVars

\* A client that ends, or that only waits, keeps what it has.
LEMMA KeepingData ==
  ASSUME NEW c \in Client, Before(c), KeepsData(c), KeepsQueue(c), reader'[c] = reader[c],
         pc[c] # "off", pc'[c] \notin {"off", "send", "live"},
         \/ pc'[c] = "closed"
         \/ pc'[c] = "check" /\ pc[c] = "admitted"
         \/ pc'[c] = "check" /\ pc[c] = "read" /\ kind[c] = "stream"
         \/ pc'[c] = "read" /\ pc[c] = "missing"
         \/ pc'[c] = "missing" /\ pc[c] = "eof" /\ kind[c] = "stream",
         \/ pc'[c] # "closed" /\ reason'[c] = reason[c]
         \/ pc'[c] = "closed" /\ reason'[c] = "expired" /\ \A b \in bases : next[c] < b
         \/ pc'[c] = "closed" /\ reason'[c] = "answered" /\ kind[c] = "snapshot" /\ next[c] = head[c]
         \/ pc'[c] = "closed" /\ reason'[c] \notin {"expired", "answered"}
  PROVE  ClientInv(c)'
<1>1. ClientInv(c)
  BY DEF Before
<1>2. Connected(c)'
  BY <1>1 DEF ClientInv, Connected, KeepsData, KeepsQueue
<1>3. Has(c)'
  BY <1>1, BeforeNumbers DEF ClientInv, Has, KeepsData
<1>4. Located(c)'
  BY <1>1, BeforeNumbers DEF ClientInv, Connected, Located, Within, Fetching, KeepsData
<1>5. Queued(c)' /\ Honest(c)'
  BY <1>1, BeforeNumbers DEF ClientInv, Queued, Honest, KeepsData
<1> QED BY <1>1, <1>2, <1>3, <1>4, <1>5 DEF ClientInv

LEMMA ReadyKeeps ==
  ASSUME NEW c \in Client, Before(c), Ready(c)
  PROVE  ClientInv(c)'
<1>1. OnClients
  BY DEF Before
<1> QED BY <1>1, ReadyAt, KeepingData

LEMMA ExpiredKeeps ==
  ASSUME NEW c \in Client, Before(c), Expired(c)
  PROVE  ClientInv(c)'
<1>1. OnClients /\ TypeOK /\ \A b \in bases : first <= b
  BY DEF Before, Segments
<1>2. next[c] < first => \A b \in bases : next[c] < b
  BY <1>1, BeforeNumbers DEF TypeOK
<1> QED BY <1>1, <1>2, ExpiredAt, KeepingData

LEMMA WaitingKeeps ==
  ASSUME NEW c \in Client, Before(c),
         Retries(c) \/ GivesUp(c) \/ Fails(c) \/ Dies(c) \/ Leaves(c) \/ Halts(c)
  PROVE  ClientInv(c)'
<1>1. OnClients /\ ClientInv(c)
  BY DEF Before
<1>2. /\ KeepsData(c) /\ KeepsQueue(c) /\ reader'[c] = reader[c] /\ pc[c] # "off"
      /\ \/ pc'[c] = "closed" /\ reason'[c] \in {"unavailable", "error", "dead", "slow", "goodbye"}
         \/ pc'[c] = "read" /\ pc[c] = "missing" /\ reason'[c] = reason[c]
  BY <1>1, RetriesAt, GivesUpAt, FailsAt, DiesAt, LeavesAt, HaltsAt
<1> QED BY <1>2, KeepingData

LEMMA CaughtUpKeeps ==
  ASSUME NEW c \in Client, Before(c), CaughtUp(c)
  PROVE  ClientInv(c)'
<1>1. OnClients /\ TypedAt(c) /\ ClientInv(c)
  BY DEF Before
<1>2. pc[c] = "read" => next[c] <= head[c]
  BY <1>1 DEF ClientInv, Located, Fetching
<1>3. ~(next[c] < head[c]) /\ next[c] <= head[c] => next[c] = head[c]
  BY BeforeNumbers
<1>4. kind[c] # "stream" => kind[c] = "snapshot"
  BY BeforeNumbers
<1> QED BY <1>1, <1>2, <1>3, <1>4, CaughtUpAt, KeepingData

LEMMA DisconnectedKeeps ==
  ASSUME NEW c \in Client, Before(c), Disconnected(c)
  PROVE  ClientInv(c)'
<1>1. OnClients /\ ClientInv(c)
  BY DEF Before
<1> USE DisconnectedAt, <1>1, BeforeNumbers
<1>2. Connected(c)'
  BY DEF Connected
<1>3. Has(c)'
  BY DEF ClientInv, Has
<1>4. Located(c)'
  <2>1. pc'[c] = "off" /\ head'[c] = 0 /\ reader'[c].index = 0 /\ next'[c] \in Nat /\ published' \in Nat
    <3>1. /\ pc'[c] = "off" /\ head'[c] = 0 /\ reader'[c] = NoReader /\ next'[c] = next[c]
          /\ published' = published /\ published \in Nat /\ next[c] \in Nat
      OBVIOUS
    <3>2. NoReader.index = 0
      BY ONLY DEF NoReader
    <3> QED BY ONLY <3>1, <3>2
  <2> QED BY ONLY <2>1 DEF Located, Fetching
<1>5. Queued(c)' /\ Honest(c)'
  BY DEF ClientInv, Queued, Honest
<1> QED BY <1>2, <1>3, <1>4, <1>5 DEF ClientInv

LEMMA CheckKeeps ==
  ASSUME NEW c \in Client, Before(c), Check(c)
  PROVE  ClientInv(c)'
<1>1. OnClients /\ ClientInv(c)
  BY DEF Before
<1> USE CheckAt, <1>1, BeforeNumbers
<1>2. Connected(c)'
  BY DEF ClientInv, Connected
<1>3. Has(c)'
  <2>1. Has(c) /\ pc[c] # "off" /\ reason[c] = "none"
    BY DEF ClientInv, Connected
  <2>2. /\ ledger'[c] = ledger[c] /\ start'[c] = start[c] /\ next'[c] = next[c] /\ kind'[c] = kind[c]
        /\ reason'[c] \in {"none", "goodbye"} /\ head'[c] = published /\ UNCHANGED <<published, durable>>
    BY <2>1
  <2>3. next[c] <= published
    BY <2>1 DEF Has
  <2> QED BY ONLY <2>1, <2>2, <2>3 DEF Has
<1>4. Located(c)'
  <2>1. /\ pc[c] = "check" /\ head'[c] = published /\ next'[c] = next[c] /\ next[c] <= published
        /\ reader[c].index <= next[c]
        /\ reader[c] # NoReader => Within(c, reader[c].descriptor)
        /\ UNCHANGED <<published, sealed>>
    BY DEF ClientInv, Has, Located
  <2>2. CASE pc'[c] \in {"closed", "list", "read"} /\ reader'[c] = reader[c]
             /\ (pc'[c] = "read" => reader[c] # NoReader)
    <3>1. published \in Nat /\ next[c] \in Nat /\ reader[c].index \in Nat
      OBVIOUS
    <3>2. pc'[c] = "read" => Within(c, reader[c].descriptor)'
      BY ONLY <2>1, <2>2 DEF Within
    <3> QED BY ONLY <2>1, <2>2, <3>1, <3>2 DEF Located, Fetching
  <2>3. CASE pc'[c] = "live" /\ reader'[c] = NoReader
    <3>1. reader'[c].index = 0
      BY <2>3 DEF NoReader
    <3> QED BY <2>1, <2>3, <3>1 DEF Located, Fetching
  <2> QED BY <2>2, <2>3
<1>5. Queued(c)'
  <2>1. CASE pc'[c] = "live"
    <3>1. /\ queue'[c] = <<>> /\ ~slow[c] /\ next[c] = published /\ slow'[c] = slow[c]
          /\ next'[c] = next[c] /\ published' = published /\ published \in Nat
      BY <2>1 DEF ClientInv, Connected
    <3>2. Len(queue'[c]) = 0
      BY <3>1
    <3>3. Continuing(c, next[c])'
      BY ONLY <3>1, <3>2 DEF Continuing
    <3> QED BY <2>1, <3>1, <3>3 DEF Queued
  <2>2. CASE pc'[c] \in {"closed", "list", "read"}
    BY <2>2 DEF Queued
  <2> QED BY <2>1, <2>2
<1>6. Honest(c)'
  BY DEF ClientInv, Honest
<1> QED BY <1>2, <1>3, <1>4, <1>5, <1>6 DEF ClientInv

LEMMA ListsKeeps ==
  ASSUME NEW c \in Client, Before(c), Lists(c)
  PROVE  ClientInv(c)'
<1>1. ClientInv(c) /\ TypeOK /\ Segments
  BY DEF Before
<1>2. /\ pc[c] \in {"list", "relist"} /\ KeepsData(c) /\ KeepsQueue(c)
      /\ \/ /\ \A b \in bases : next[c] < b
            /\ pc'[c] = "closed" /\ reason'[c] = "expired" /\ reader'[c] = reader[c]
         \/ /\ \E m \in bases : /\ m <= next[c] /\ \A b \in bases : b <= next[c] => b <= m
                                /\ reader'[c] = [reader[c] EXCEPT !.index = m]
            /\ pc'[c] \in {"open", "reopen"} /\ reason'[c] = reason[c]
  BY <1>1, ListsAt
<1>3. CASE pc'[c] = "closed"
  BY <1>2, <1>3, KeepingData
<1>4. CASE pc'[c] \in {"open", "reopen"}
  <2>1. PICK m \in bases : /\ m <= next[c] /\ \A b \in bases : b <= next[c] => b <= m
                           /\ reader'[c] = [reader[c] EXCEPT !.index = m]
    BY <1>2, <1>4
  <2>2. m \in sealed /\ m \in Nat /\ reader'[c].index = m
    <3>1. reader[c] \in Reader /\ m \in sealed /\ m \in Nat
      BY BeforeNumbers
    <3> QED BY <2>1, <3>1 DEF Reader
  <2>3. \A s \in sealed : m < s => next[c] < s
    <3> SUFFICES ASSUME NEW s \in sealed, m < s PROVE next[c] < s
      OBVIOUS
    <3>1. s \in bases /\ s \in Nat /\ next[c] \in Nat
      BY <1>1, <2>2, BeforeNumbers DEF Segments
    <3> QED BY <2>1, <2>2, <3>1
  <2>4. Connected(c)' /\ Has(c)'
    BY <1>1, <1>2, <1>4, BeforeNumbers, SMTT(30)
       DEF ClientInv, Connected, Has, KeepsData, KeepsQueue
  <2>5. Located(c)'
    <3>1. /\ head[c] <= published /\ next[c] <= head[c] /\ UNCHANGED <<published, sealed>>
          /\ next'[c] = next[c] /\ head'[c] = head[c]
      BY <1>1, <1>2, BeforeNumbers DEF ClientInv, Located, Fetching, KeepsData
    <3> QED BY <1>4, <2>1, <2>2, <2>3, <3>1 DEF Located
  <2>6. Queued(c)' /\ Honest(c)'
    BY <1>1, <1>2, <1>4, BeforeNumbers DEF ClientInv, Queued, Honest, KeepsData
  <2> QED BY <2>4, <2>5, <2>6 DEF ClientInv
<1> QED BY <1>2, <1>3, <1>4

\* A reader that opens the segment that begins where it is.
LEMMA OpeningKeeps ==
  ASSUME NEW c \in Client, Before(c), KeepsData(c), KeepsQueue(c),
         pc[c] \in {"open", "reopen", "eof"}, pc'[c] = "read", reason'[c] = reason[c],
         reader'[c] = [reader[c] EXCEPT !.descriptor = reader[c].index]
  PROVE  ClientInv(c)'
<1>1. ClientInv(c)
  BY DEF Before
<1>2. /\ reader'[c].index = reader[c].index /\ reader'[c].descriptor = reader[c].index
      /\ reader[c].index \in Nat
  BY BeforeNumbers DEF Reader
<1>3. /\ head[c] <= published /\ next[c] <= head[c] /\ reader[c].index <= next[c]
      /\ reader[c].index \in sealed
      /\ reader[c].index < next[c] => \A s \in sealed : reader[c].index < s => next[c] < s
      /\ UNCHANGED <<published, sealed>> /\ next'[c] = next[c] /\ head'[c] = head[c]
      /\ sealed \in SUBSET Nat
  BY <1>1, BeforeNumbers DEF ClientInv, Located, Fetching, KeepsData
<1>4. Within(c, reader[c].descriptor)'
  BY ONLY <1>2, <1>3 DEF Within
<1>5. Located(c)'
  BY <1>2, <1>3, <1>4 DEF Located, Fetching
<1>6. Connected(c)' /\ Has(c)'
  BY <1>1, BeforeNumbers DEF ClientInv, Connected, Has, KeepsData, KeepsQueue
<1>7. Queued(c)' /\ Honest(c)'
  BY <1>1, BeforeNumbers DEF ClientInv, Queued, Honest, KeepsData
<1> QED BY <1>5, <1>6, <1>7 DEF ClientInv

\* A reader finds no segment there: those that are there come after it.
LEMMA GoneMeansExpired ==
  ASSUME NEW c \in Client, Before(c), pc[c] \in {"open", "reopen", "eof"},
         reader[c].index \notin bases
  PROVE  \A b \in bases : next[c] < b
<1>1. /\ reader[c].index \in sealed /\ reader[c].index \in Nat /\ next[c] \in Nat
      /\ \A s \in sealed : reader[c].index < s => next[c] < s
      /\ bases \subseteq sealed /\ sealed \in SUBSET Nat
      /\ \A s \in sealed, b \in bases : b <= s => s \in bases
  BY BeforeNumbers DEF Before, ClientInv, Located, Segments, Within
<1> SUFFICES ASSUME NEW b \in bases PROVE next[c] < b
  OBVIOUS
<1>2. b \in Nat /\ ~(b <= reader[c].index)
  BY <1>1
<1> QED BY <1>1, <1>2

LEMMA OpensKeeps ==
  ASSUME NEW c \in Client, Before(c), Opens(c)
  PROVE  ClientInv(c)'
<1>1. ClientInv(c) /\ OnClients
  BY DEF Before
<1>2. /\ pc[c] \in {"open", "reopen"} /\ KeepsData(c) /\ KeepsQueue(c)
      /\ \/ /\ reader[c].index \in bases /\ pc'[c] = "read" /\ reason'[c] = reason[c]
            /\ reader'[c] = [reader[c] EXCEPT !.descriptor = reader[c].index]
         \/ pc'[c] = "relist" /\ reason'[c] = reason[c] /\ reader'[c] = NoReader
         \/ /\ reader[c].index \notin bases /\ pc'[c] = "closed" /\ reason'[c] = "expired"
            /\ reader'[c] = NoReader
  BY <1>1, OpensAt
<1>3. CASE pc'[c] = "read"
  BY <1>2, <1>3, OpeningKeeps
<1>4. CASE pc'[c] \in {"relist", "closed"}
  <2>1. reader'[c].index = 0
    BY <1>2, <1>4 DEF NoReader
  <2>2. /\ head[c] <= published /\ next[c] <= head[c] /\ next[c] \in Nat
        /\ UNCHANGED <<published, sealed>> /\ next'[c] = next[c] /\ head'[c] = head[c]
    BY <1>1, <1>2, BeforeNumbers DEF ClientInv, Located, Fetching, KeepsData
  <2>3. Located(c)'
    BY <1>4, <2>1, <2>2 DEF Located
  <2>4. Connected(c)' /\ Has(c)'
    BY <1>1, <1>2, <1>4, BeforeNumbers DEF ClientInv, Connected, Has, KeepsData, KeepsQueue
  <2>5. reason'[c] = "expired" => reason[c] = "expired" \/ \A b \in bases : next[c] < b
    BY <1>2, GoneMeansExpired
  <2>6. Queued(c)' /\ Honest(c)'
    BY <1>1, <1>2, <1>4, <2>5, BeforeNumbers DEF ClientInv, Queued, Honest, KeepsData
  <2> QED BY <2>3, <2>4, <2>6 DEF ClientInv
<1> QED BY <1>2, <1>3, <1>4

LEMMA ContinuesKeeps ==
  ASSUME NEW c \in Client, Before(c), Continues(c)
  PROVE  ClientInv(c)'
<1>1. ClientInv(c) /\ OnClients
  BY DEF Before
<1>2. /\ pc[c] = "eof" /\ KeepsData(c) /\ KeepsQueue(c)
      /\ \/ /\ reader[c].index \in bases /\ pc'[c] = "read" /\ reason'[c] = reason[c]
            /\ reader'[c] = [reader[c] EXCEPT !.descriptor = reader[c].index]
         \/ /\ reader[c].index \notin bases /\ pc'[c] = "closed" /\ reason'[c] = "expired"
            /\ reader'[c] = reader[c]
         \/ /\ kind[c] # "snapshot" /\ pc'[c] = "missing" /\ reason'[c] = reason[c]
            /\ reader'[c] = reader[c]
  BY <1>1, ContinuesAt
<1>3. CASE pc'[c] = "read"
  BY <1>2, <1>3, OpeningKeeps
<1>4. CASE pc'[c] = "closed"
  <2>1. \A b \in bases : next[c] < b
    BY <1>2, <1>4, GoneMeansExpired
  <2> QED BY <1>2, <1>4, <2>1, KeepingData
<1>5. CASE pc'[c] = "missing"
  <2>1. kind[c] = "stream"
    BY <1>2, <1>5, BeforeNumbers
  <2> QED BY <1>2, <1>5, <2>1, KeepingData
<1> QED BY <1>2, <1>3, <1>4, <1>5

\* What ends where a reader is begins another segment, unless it is the last.
LEMMA EndOfSegment ==
  ASSUME NEW c \in Client, Before(c), pc[c] = "read"
  PROVE  /\ EndOf(reader[c].descriptor) \in Nat
         /\ ~HasLine(c) => reader[c].index = EndOf(reader[c].descriptor) \/ reader[c].index >= lines
         /\ \/ \A s \in sealed : s <= reader[c].descriptor
            \/ EndOf(reader[c].descriptor) \in sealed /\ reader[c].descriptor < EndOf(reader[c].descriptor)
         /\ \A s \in sealed : reader[c].descriptor < s => EndOf(reader[c].descriptor) <= s
         /\ (\A s \in sealed : s <= reader[c].descriptor) => EndOf(reader[c].descriptor) = lines
<1> DEFINE d == reader[c].descriptor
           later == {s \in sealed : s > d}
<1>1. /\ d \in sealed /\ sealed \in SUBSET Nat /\ lines \in Nat /\ reader[c].index \in Nat
      /\ \A s \in sealed : d < s => reader[c].index <= s
  BY BeforeNumbers DEF Before, ClientInv, Located, Within
<1>2. EndOf(d) = IF later = {} THEN lines ELSE Min(later)
  BY DEF EndOf
<1> HIDE DEF d
<1>3. later \in SUBSET Nat /\ d \in Nat
  BY <1>1
<1>4. later # {} => Min(later) \in later /\ \A s \in later : Min(later) <= s
  <2> HIDE DEF later
  <2> QED BY ONLY <1>3, MinOfNats
<1>5. (\A s \in sealed : s <= d) <=> later = {}
  BY ONLY <1>1, <1>3
<1>6. CASE later = {}
  BY <1>1, <1>2, <1>5, <1>6 DEF HasLine, d
<1>7. CASE later # {}
  <2>1. EndOf(d) \in sealed /\ d < EndOf(d) /\ \A s \in sealed : d < s => EndOf(d) <= s
    BY ONLY <1>1, <1>2, <1>3, <1>4, <1>7
  <2>2. EndOf(d) \in Nat /\ reader[c].index <= EndOf(d)
    BY ONLY <1>1, <2>1
  <2>3. ~HasLine(c) => reader[c].index = EndOf(d)
    BY ONLY <1>1, <2>2 DEF HasLine, d
  <2> QED BY <1>5, <1>7, <2>1, <2>2, <2>3 DEF d
<1> QED BY <1>6, <1>7

LEMMA SkipsKeeps ==
  ASSUME NEW c \in Client, Before(c), Skips(c)
  PROVE  ClientInv(c)'
<1> DEFINE d == reader[c].descriptor
<1>1. ClientInv(c) /\ OnClients
  BY DEF Before
<1>2. /\ pc[c] = "read" /\ reader[c].index < next[c] /\ HasLine(c)
      /\ pc'[c] = pc[c] /\ reason'[c] = reason[c] /\ KeepsData(c) /\ KeepsQueue(c)
      /\ reader'[c] = [reader[c] EXCEPT !.index = @ + 1]
  BY <1>1, SkipsAt
<1>3. /\ reader'[c].index = reader[c].index + 1 /\ reader'[c].descriptor = d
      /\ reader[c].index \in Nat /\ next[c] \in Nat
  BY <1>2, BeforeNumbers DEF Reader
<1>4. /\ head[c] <= published /\ next[c] <= head[c] /\ Within(c, d) /\ sealed \in SUBSET Nat
      /\ UNCHANGED <<published, sealed>> /\ next'[c] = next[c] /\ head'[c] = head[c]
  BY <1>1, <1>2, BeforeNumbers DEF ClientInv, Located, Fetching, KeepsData
<1>5. \A s \in sealed : d < s => reader[c].index < s
  BY <1>2, <1>3, <1>4, EndOfSegment DEF HasLine
<1> HIDE DEF d
<1>6. d \in Nat
  BY <1>4 DEF Within
<1>7. Within(c, d)' /\ d' = reader'[c].descriptor
  <2>1. /\ d \in sealed' /\ d <= reader'[c].index
        /\ \A s \in sealed' : d < s => reader'[c].index <= s
        /\ reader'[c].index < next'[c] => \A s \in sealed' : d < s => next'[c] < s
    <3>1. /\ d \in sealed /\ d <= reader[c].index
          /\ reader[c].index < next[c] => \A s \in sealed : d < s => next[c] < s
      BY ONLY <1>4 DEF Within
    <3>2. \A s \in sealed : d < s => reader[c].index + 1 <= s
      BY ONLY <1>3, <1>4, <1>5, <1>6
    <3>3. d <= reader[c].index + 1
      BY ONLY <1>3, <1>6, <3>1
    <3> QED BY ONLY <1>2, <1>3, <1>4, <3>1, <3>2, <3>3
  <2>2. d' = d /\ d' = reader'[c].descriptor
    BY <1>3 DEF d
  <2> QED BY ONLY <2>1, <2>2 DEF Within
<1>8. Located(c)'
  <2>1. reader'[c].index <= next'[c]
    BY <1>2, <1>3, <1>4
  <2> QED BY <1>2, <1>4, <1>7, <2>1 DEF Located
<1>9. Connected(c)' /\ Has(c)'
  BY <1>1, <1>2, BeforeNumbers DEF ClientInv, Connected, Has, KeepsData, KeepsQueue
<1>10. Queued(c)' /\ Honest(c)'
  BY <1>1, <1>2, BeforeNumbers DEF ClientInv, Queued, Honest, KeepsData
<1> QED BY <1>8, <1>9, <1>10 DEF ClientInv

\* A reader finds the end of a file only where its client is, with a segment
\* after it.
LEMMA AtEndKeeps ==
  ASSUME NEW c \in Client, Before(c), AtEnd(c)
  PROVE  ClientInv(c)'
<1> DEFINE d == reader[c].descriptor
<1>1. ClientInv(c) /\ OnClients
  BY DEF Before
<1>2. /\ pc[c] = "read" /\ ~HasLine(c)
      /\ reader[c].index < next[c] \/ next[c] < head[c]
      /\ pc'[c] = "eof" /\ reason'[c] = reason[c] /\ KeepsData(c) /\ KeepsQueue(c)
      /\ reader'[c] = reader[c]
  BY <1>1, AtEndAt
<1>3. /\ reader[c].index \in Nat /\ next[c] \in Nat /\ head[c] \in Nat /\ lines \in Nat
      /\ published \in Nat /\ durable \in Nat /\ published <= durable /\ durable <= lines
  BY BeforeNumbers
<1>4. /\ head[c] <= published /\ next[c] <= head[c] /\ reader[c].index <= next[c] /\ Within(c, d)
      /\ UNCHANGED <<published, sealed>> /\ next'[c] = next[c] /\ head'[c] = head[c]
  BY <1>1, <1>2, BeforeNumbers DEF ClientInv, Located, Fetching, KeepsData
<1>5. /\ EndOf(d) \in Nat
      /\ reader[c].index = EndOf(d) \/ reader[c].index >= lines
      /\ \/ EndOf(d) = lines
         \/ EndOf(d) \in sealed /\ d < EndOf(d)
  BY <1>2, EndOfSegment
<1>6. reader[c].index < lines
  BY <1>2, <1>3, <1>4
<1>7. reader[c].index = EndOf(d) /\ EndOf(d) \in sealed /\ d < EndOf(d)
  BY <1>3, <1>5, <1>6
<1>8. reader[c].index = next[c]
  BY <1>3, <1>4, <1>7 DEF Within
<1>9. Located(c)'
  BY <1>2, <1>4, <1>7, <1>8 DEF Located, Within
<1>10. Connected(c)' /\ Has(c)'
  BY <1>1, <1>2, BeforeNumbers DEF ClientInv, Connected, Has, KeepsData, KeepsQueue
<1>11. Queued(c)' /\ Honest(c)'
  BY <1>1, <1>2, BeforeNumbers DEF ClientInv, Queued, Honest, KeepsData
<1> QED BY <1>9, <1>10, <1>11 DEF ClientInv

\* A client that is given the line it is served next.
LEMMA ReceivingKeepsHas ==
  ASSUME NEW c \in Client, Before(c), pc[c] # "off", pc'[c] \notin {"off", "closed"},
         kind'[c] = kind[c], start'[c] = start[c], head'[c] = head[c], reason'[c] = reason[c],
         ledger'[c] = Append(ledger[c], next[c]), next'[c] = next[c] + 1,
         next[c] < published, kind[c] = "snapshot" => next[c] < head[c]
  PROVE  Has(c)'
<1>1. Has(c)
  BY DEF Before, ClientInv
<1>2. /\ next[c] \in Nat /\ start[c] \in Nat /\ Len(ledger[c]) \in Nat /\ published \in Nat
      /\ durable \in Nat /\ published <= durable /\ durable' = durable /\ published' = published
      /\ head[c] \in Nat /\ ledger[c] \in Seq(Nat)
  BY BeforeNumbers
<1>3. /\ Len(ledger'[c]) = Len(ledger[c]) + 1
      /\ ledger'[c][Len(ledger[c]) + 1] = next[c]
      /\ \A i \in 1..Len(ledger[c]) : ledger'[c][i] = ledger[c][i]
  BY <1>2, AppendProperties
<1>4. next[c] = start[c] + Len(ledger[c])
  BY <1>1 DEF Has
<1>5. \A i \in 1..(Len(ledger[c]) + 1) : ledger'[c][i] = start[c] + i - 1
  <2> SUFFICES ASSUME NEW i \in 1..(Len(ledger[c]) + 1) PROVE ledger'[c][i] = start[c] + i - 1
    OBVIOUS
  <2>1. CASE i = Len(ledger[c]) + 1
    BY ONLY <1>2, <1>3, <1>4, <2>1
  <2>2. CASE i \in 1..Len(ledger[c])
    BY <1>1, <1>3, <2>2 DEF Has
  <2>3. i = Len(ledger[c]) + 1 \/ i \in 1..Len(ledger[c])
    <3>1. Len(ledger[c]) \in Nat
      BY <1>2
    <3> QED BY ONLY <3>1
  <2> QED BY ONLY <2>1, <2>2, <2>3
<1>6. \A i \in 1..Len(ledger'[c]) : ledger'[c][i] = start'[c] + i - 1
  BY ONLY <1>3, <1>5, start'[c] = start[c]
<1>7. /\ start'[c] + Len(ledger'[c]) <= durable' /\ next'[c] = start'[c] + Len(ledger'[c])
      /\ next'[c] <= published'
  BY <1>2, <1>3, <1>4
<1>8. kind'[c] = "snapshot" => start'[c] = 0 /\ next'[c] <= head'[c]
  BY <1>1, <1>2 DEF Has
<1>9. reason'[c] = "answered" => start'[c] = 0
  BY <1>1 DEF Has
<1> QED BY <1>6, <1>7, <1>8, <1>9 DEF Has

\* A line that is read goes out, or is the last thing that happens.
LEMMA ReadingKeeps ==
  ASSUME NEW c \in Client, Before(c), SendsLine(c) \/ CollectsLine(c)
  PROVE  ClientInv(c)'
<1> DEFINE d == reader[c].descriptor
<1>1. ClientInv(c) /\ OnClients
  BY DEF Before
<1>2. /\ pc[c] = "read" /\ ~(reader[c].index < next[c]) /\ next[c] < head[c] /\ HasLine(c)
      /\ head'[c] = head[c] /\ kind'[c] = kind[c] /\ start'[c] = start[c] /\ KeepsQueue(c)
      /\ reader'[c] = [reader[c] EXCEPT !.index = @ + 1]
      /\ \/ /\ ledger'[c] = Append(ledger[c], reader[c].index) /\ next'[c] = next[c] + 1
            /\ pc'[c] = pc[c] /\ reason'[c] = reason[c]
         \/ /\ ledger'[c] = ledger[c] /\ next'[c] = next[c]
            /\ pc'[c] = "closed" /\ reason'[c] \in {"dead", "large"}
  BY <1>1, SendsLineAt, CollectsLineAt
<1>3. /\ reader'[c].index = reader[c].index + 1 /\ reader'[c].descriptor = d
      /\ reader[c].index \in Nat /\ next[c] \in Nat /\ head[c] \in Nat /\ published \in Nat
  BY <1>2, BeforeNumbers DEF Reader
<1>4. /\ head[c] <= published /\ reader[c].index <= next[c] /\ Within(c, d)
      /\ sealed \in SUBSET Nat
      /\ UNCHANGED <<published, sealed, bases>>
  BY <1>1, <1>2, BeforeNumbers DEF ClientInv, Located, Fetching
<1>5. reader[c].index = next[c] /\ next[c] < published
  BY <1>2, <1>3, <1>4
<1>6. Connected(c)'
  BY <1>1, <1>2 DEF ClientInv, Connected, KeepsQueue
<1>7. CASE pc'[c] = "read"
  <2>1. \A s \in sealed : d < s => reader[c].index < s
    BY <1>2, <1>3, <1>4, EndOfSegment DEF HasLine
  <2>2. Within(c, d)' /\ d' = reader'[c].descriptor
    <3>1. d \in sealed /\ d <= reader[c].index /\ d \in Nat
      BY ONLY <1>4 DEF Within
    <3> HIDE DEF d
    <3>2. \A s \in sealed : d < s => reader[c].index + 1 <= s
      BY ONLY <1>3, <1>4, <2>1, <3>1
    <3>3. d <= reader[c].index + 1
      BY ONLY <1>3, <3>1
    <3>4. ~(reader'[c].index < next'[c])
      BY <1>2, <1>3, <1>5, <1>7
    <3>5. d' = d /\ d' = reader'[c].descriptor
      BY <1>3 DEF d
    <3> QED BY ONLY <1>3, <1>4, <3>1, <3>2, <3>3, <3>4, <3>5 DEF Within
  <2>3. Located(c)'
    <3>1. reader'[c].index = next'[c] /\ next'[c] <= head'[c]
      BY <1>2, <1>3, <1>5, <1>7
    <3>2. reader'[c].index <= next'[c] /\ head'[c] <= published'
      BY <1>2, <1>3, <1>4, <1>5, <1>7
    <3> QED BY <1>7, <2>2, <3>1, <3>2 DEF Located
  <2>4. Has(c)'
    BY <1>2, <1>5, <1>7, ReceivingKeepsHas
  <2>5. Queued(c)' /\ Honest(c)'
    BY <1>1, <1>2, <1>7 DEF ClientInv, Connected, Queued, Honest
  <2> QED BY <1>6, <2>3, <2>4, <2>5 DEF ClientInv
<1>8. CASE pc'[c] = "closed"
  <2>1. Has(c)'
    BY <1>1, <1>2, <1>8, BeforeNumbers DEF ClientInv, Has
  <2>2. Located(c)'
    BY <1>1, <1>2, <1>4, <1>8 DEF ClientInv, Located, Fetching
  <2>3. Queued(c)' /\ Honest(c)'
    BY <1>2, <1>8 DEF Queued, Honest
  <2> QED BY <1>6, <2>1, <2>2, <2>3 DEF ClientInv
<1> QED BY <1>2, <1>7, <1>8

LEMMA TakesKeeps ==
  ASSUME NEW c \in Client, Before(c), Takes(c)
  PROVE  ClientInv(c)'
<1>1. ClientInv(c) /\ OnClients
  BY DEF Before
<1>2. /\ pc[c] = "live" /\ queue[c] # <<>> /\ pc'[c] = "send" /\ reason'[c] = reason[c]
      /\ kind'[c] = kind[c] /\ next'[c] = next[c] /\ head'[c] = head[c]
      /\ start'[c] = start[c] /\ ledger'[c] = ledger[c] /\ reader'[c] = reader[c]
      /\ line'[c] = Head(queue[c]) /\ queue'[c] = Tail(queue[c])
      /\ live'[c] = live[c] /\ slow'[c] = slow[c]
  BY <1>1, TakesAt
<1>3. /\ Head(queue[c]) = queue[c][1] /\ Len(Tail(queue[c])) = Len(queue[c]) - 1
      /\ Len(queue[c]) \in Nat \ {0}
      /\ \A i \in 1..(Len(queue[c]) - 1) : Tail(queue[c])[i] = queue[c][i + 1]
  BY <1>2, BeforeNumbers, TakenQueue
<1>4. /\ \A i \in 1..Len(queue[c]) : queue[c][i] = next[c] + i - 1
      /\ next[c] + Len(queue[c]) <= published
      /\ ~slow[c] => next[c] + Len(queue[c]) = published
      /\ next[c] \in Nat /\ published \in Nat /\ published' = published
  BY <1>1, <1>2, BeforeNumbers DEF ClientInv, Queued, Continuing
<1>5. line'[c] = next'[c]
  BY <1>2, <1>3, <1>4
<1>6. Continuing(c, next[c] + 1)'
  <2>1. Len(queue'[c]) = Len(queue[c]) - 1
    BY <1>2, <1>3
  <2>2. \A i \in 1..Len(queue'[c]) : queue'[c][i] = next'[c] + 1 + i - 1
    <3> SUFFICES ASSUME NEW i \in 1..Len(queue'[c]) PROVE queue'[c][i] = next'[c] + 1 + i - 1
      OBVIOUS
    <3>1. i \in 1..(Len(queue[c]) - 1) /\ i + 1 \in 1..Len(queue[c])
      BY <1>3, <2>1
    <3>2. queue'[c][i] = queue[c][i + 1] /\ queue[c][i + 1] = next[c] + (i + 1) - 1
      BY <1>2, <1>3, <1>4, <3>1
    <3>3. next'[c] = next[c] /\ next[c] \in Nat
      BY <1>2, <1>4
    <3> QED BY ONLY <3>1, <3>2, <3>3
  <2>3. next'[c] + 1 + Len(queue'[c]) = next[c] + Len(queue[c])
    <3>1. next'[c] = next[c] /\ next[c] \in Nat /\ Len(queue[c]) \in Nat
      BY <1>2, <1>3, <1>4
    <3> QED BY ONLY <2>1, <3>1
  <2> QED BY <1>2, <1>4, <2>2, <2>3 DEF Continuing
<1>7. Queued(c)'
  BY <1>2, <1>5, <1>6 DEF Queued
<1>8. Connected(c)'
  BY <1>1, <1>2 DEF ClientInv, Connected
<1>9. Has(c)'
  BY <1>1, <1>2, BeforeNumbers DEF ClientInv, Has
<1>10. Located(c)' /\ Honest(c)'
  BY <1>1, <1>2, BeforeNumbers DEF ClientInv, Located, Honest, Fetching
<1> QED BY <1>7, <1>8, <1>9, <1>10 DEF ClientInv

LEMMA SendsKeeps ==
  ASSUME NEW c \in Client, Before(c), Sends(c)
  PROVE  ClientInv(c)'
<1>1. ClientInv(c) /\ OnClients
  BY DEF Before
<1>2. /\ pc[c] = "send" /\ head'[c] = head[c] /\ kind'[c] = kind[c] /\ start'[c] = start[c]
      /\ reader'[c] = reader[c] /\ KeepsQueue(c)
      /\ \/ /\ ledger'[c] = Append(ledger[c], line[c]) /\ next'[c] = next[c] + 1
            /\ pc'[c] = "live" /\ reason'[c] = reason[c]
         \/ /\ ledger'[c] = ledger[c] /\ next'[c] = next[c]
            /\ pc'[c] = "closed" /\ reason'[c] = "dead"
  BY <1>1, SendsAt
<1>3. line[c] = next[c] /\ Continuing(c, next[c] + 1) /\ next[c] \in Nat /\ Len(queue[c]) \in Nat
      /\ published \in Nat /\ UNCHANGED <<published, bases>> /\ reader[c].index \in Nat
  BY <1>1, <1>2, BeforeNumbers DEF ClientInv, Queued
<1>4. next[c] < published
  BY <1>3 DEF Continuing
<1>5. Connected(c)'
  BY <1>1, <1>2 DEF ClientInv, Connected, KeepsQueue
<1>6. CASE pc'[c] = "live"
  <2>1. Has(c)'
    <3>1. kind[c] = "stream"
      BY <1>1, <1>2 DEF ClientInv, Connected
    <3> QED BY <1>2, <1>3, <1>4, <1>6, <3>1, ReceivingKeepsHas
  <2>2. Queued(c)'
    BY <1>2, <1>3, <1>6 DEF Queued, Continuing, KeepsQueue
  <2>3. Located(c)'
    <3>1. head[c] <= published /\ reader[c].index <= next[c]
      BY <1>1, <1>2 DEF ClientInv, Located
    <3> QED BY <1>2, <1>3, <1>6, <3>1 DEF Located, Fetching
  <2>4. Honest(c)'
    BY <1>1, <1>2, <1>6 DEF ClientInv, Connected, Honest
  <2> QED BY <1>5, <2>1, <2>2, <2>3, <2>4 DEF ClientInv
<1>7. CASE pc'[c] = "closed"
  <2>1. Has(c)'
    BY <1>1, <1>2, <1>7, BeforeNumbers DEF ClientInv, Has
  <2>2. Located(c)'
    BY <1>1, <1>2, <1>3, <1>7 DEF ClientInv, Located, Fetching
  <2>3. Queued(c)' /\ Honest(c)'
    BY <1>2, <1>7 DEF Queued, Honest
  <2> QED BY <1>5, <2>1, <2>2, <2>3 DEF ClientInv
<1> QED BY <1>2, <1>6, <1>7

LEMMA SnapshotKeeps ==
  ASSUME NEW c \in Client, Before(c), Snapshot(c)
  PROVE  ClientInv(c)'
<1>1. ClientInv(c) /\ OnClients /\ TypeOK /\ Segments
  BY DEF Before
<1>2. /\ pc[c] = "off"
      /\ start'[c] = 0 /\ ledger'[c] = <<>> /\ kind'[c] = "snapshot" /\ next'[c] = 0
      /\ head'[c] = published /\ reader'[c] = reader[c] /\ KeepsQueue(c)
      /\ \/ first > 0 /\ pc'[c] = "closed" /\ reason'[c] = "expired"
         \/ pc'[c] = "list" /\ reason'[c] = "none"
  BY <1>1, SnapshotAt
<1>3. reader[c] = NoReader /\ ~live[c] /\ published \in Nat /\ published' = published /\ bases' = bases
  BY <1>1, <1>2, BeforeNumbers DEF ClientInv, Connected
<1>4. NoReader.index = 0
  BY ONLY DEF NoReader
<1>5. Len(ledger'[c]) = 0
  BY <1>2
<1>6. Has(c)'
  BY <1>2, <1>3, <1>5 DEF Has
<1>7. Connected(c)'
  BY <1>1, <1>2, <1>3 DEF ClientInv, Connected, KeepsQueue
<1>8. Located(c)'
  BY <1>2, <1>3, <1>4 DEF Located
<1>9. Queued(c)' /\ Honest(c)'
  <2>1. first > 0 => \A b \in bases : 0 < b
    BY <1>1 DEF Segments, TypeOK
  <2> QED BY <1>2, <1>3, <2>1 DEF Queued, Honest
<1> QED BY <1>6, <1>7, <1>8, <1>9 DEF ClientInv

LEMMA AdmitKeeps ==
  ASSUME NEW c \in Client, Before(c), Admit(c)
  PROVE  ClientInv(c)'
<1>1. ClientInv(c) /\ TypeOK /\ Segments
  BY DEF Before
<1>2. /\ pc[c] = "off" /\ kind'[c] = "stream" /\ next'[c] \in Nat
      /\ head'[c] = head[c] /\ reader'[c] = reader[c] /\ KeepsQueue(c)
      /\ \/ start'[c] = next'[c] /\ ledger'[c] = <<>>
         \/ /\ start'[c] = start[c] /\ ledger'[c] = ledger[c]
            /\ next'[c] = start[c] + Len(ledger[c])
      /\ \/ pc'[c] = "off" /\ reason'[c] \in {"stopping", "unknown", "full"}
         \/ pc'[c] = "off" /\ reason'[c] = "expired" /\ next'[c] < first
         \/ pc'[c] = "admitted" /\ reason'[c] = "none" /\ next'[c] <= published
  BY <1>1, AdmitAt
<1>3. /\ reader[c] = NoReader /\ ~live[c] /\ head[c] <= published
      /\ UNCHANGED <<published, bases, durable>>
  BY <1>1, <1>2, BeforeNumbers DEF ClientInv, Connected, Located
<1>4. NoReader.index = 0
  BY ONLY DEF NoReader
<1>5. ledger'[c] = <<>> => Len(ledger'[c]) = 0
  OBVIOUS
<1>6. Has(c)'
  <2>1. /\ \A i \in 1..Len(ledger'[c]) : ledger'[c][i] = start'[c] + i - 1
        /\ ledger'[c] = <<>> \/ start'[c] + Len(ledger'[c]) <= durable'
        /\ next'[c] = start'[c] + Len(ledger'[c])
    BY <1>1, <1>2, <1>3, <1>5 DEF ClientInv, Has
  <2> QED BY <1>2, <1>3, <2>1 DEF Has
<1>7. Connected(c)'
  BY <1>1, <1>2, <1>3 DEF ClientInv, Connected, KeepsQueue
<1>8. Located(c)'
  BY <1>2, <1>3, <1>4 DEF Located, Fetching
<1>9. Queued(c)' /\ Honest(c)'
  <2>1. next'[c] < first => \A b \in bases : next'[c] < b
    BY <1>1, <1>2 DEF Segments, TypeOK
  <2> QED BY <1>2, <1>3, <2>1 DEF Queued, Honest
<1> QED BY <1>6, <1>7, <1>8, <1>9 DEF ClientInv

-----------------------------------------------------------------------------
(* The invariant, and what follows from it.                                 *)

LEMMA ServingKeepsClient ==
  ASSUME NEW c \in Client, Before(c),
         Admit(c) \/ Snapshot(c) \/ Serving(c) \/ GivesUp(c) \/ Fails(c) \/ Dies(c)
  PROVE  ClientInv(c)'
BY AdmitKeeps, SnapshotKeeps, ReadyKeeps, CheckKeeps, ListsKeeps, OpensKeeps, SkipsKeeps,
   AtEndKeeps, ContinuesKeeps, CaughtUpKeeps, ReadingKeeps, ExpiredKeeps, WaitingKeeps,
   TakesKeeps, SendsKeeps, DisconnectedKeeps DEF Serving

\* A client that is not connected does nothing once the server has ended.
LEMMA ServingKeepsEnded ==
  ASSUME NEW c \in Client, Ended, TypeOK, producer' = producer, Alone(c),
         Admit(c) \/ Snapshot(c) \/ Serving(c) \/ GivesUp(c) \/ Fails(c) \/ Dies(c)
  PROVE  Ended'
<1>1. CASE Admit(c) \/ Snapshot(c)
  BY <1>1 DEF Admit, Snapshot, Up, Ended
<1>2. CASE ~(Admit(c) \/ Snapshot(c))
  <2>1. pc[c] # "off"
    BY <1>2 DEF Serving, Ready, Check, Lists, Chooses, Opens, Skips, AtEnd, Continues, Meets,
       CaughtUp, Halts, SendsLine, CollectsLine, Reading, Expired, Retries, Takes, Sends, Leaves,
       Disconnected, GivesUp, Fails, Dies
  <2> QED BY <2>1 DEF Ended
<1> QED BY <1>1, <1>2

LEMMA ServingKeepsInv ==
  ASSUME ServerInv, NEW c \in Client,
         Admit(c) \/ Snapshot(c) \/ Serving(c) \/ GivesUp(c) \/ Fails(c) \/ Dies(c)
  PROVE  ServerInv'
<1>1. TypeOK /\ OnClients /\ Commits /\ Segments /\ Ended /\ \A d \in Client : TypedAt(d) /\ ClientInv(d)
  BY TypesByClient DEF ServerInv
<1>2. Alone(c)
  BY <1>1, ServingIsAlone
<1>3. UNCHANGED <<fileVars, producer, hubVars>>
  BY <1>2 DEF Alone
<1>4. TypeOK'
  BY <1>1, TypesOfServing
<1>5. Commits' /\ Segments'
  BY <1>1, <1>3 DEF Commits, Segments, fileVars, hubVars
<1>6. Ended'
  BY <1>1, <1>2, <1>3, ServingKeepsEnded
<1>7. ClientInv(c)'
  BY <1>1, <1>3, ServingKeepsClient DEF Before
<1>8. ASSUME NEW d \in Client, d # c PROVE ClientInv(d)'
  <2>1. /\ pc'[d] = pc[d] /\ kind'[d] = kind[d] /\ next'[d] = next[d] /\ head'[d] = head[d]
        /\ line'[d] = line[d] /\ reader'[d] = reader[d] /\ live'[d] = live[d] /\ slow'[d] = slow[d]
        /\ queue'[d] = queue[d] /\ reason'[d] = reason[d] /\ start'[d] = start[d]
        /\ ledger'[d] = ledger[d]
    BY <1>1, <1>2, <1>8 DEF OnClients, Alone, ControlAlone, DataAlone, QueueAlone
  <2> QED BY <1>1, <1>3, <2>1, Untouched DEF fileVars, hubVars
<1> QED BY <1>4, <1>5, <1>6, <1>7, <1>8 DEF ServerInv

\* The invariant, at any time.
THEOREM ServerInvariance == Spec => []ServerInv
<1>1. Init => ServerInv
  <2> SUFFICES ASSUME Init PROVE ServerInv
    OBVIOUS
  <2>1. TypeOK
    BY ClientServerAssumption DEF Init, TypeOK, Places, Reasons, NoReader
  <2>2. Commits /\ Segments /\ Ended
    BY DEF Init, Commits, Segments, Ended
  <2>3. ASSUME NEW c \in Client PROVE ClientInv(c)
    <3>1. /\ pc[c] = "off" /\ kind[c] = "stream" /\ next[c] = 0 /\ head[c] = 0 /\ reader[c] = NoReader
          /\ reason[c] = "none" /\ live[c] = FALSE /\ slow[c] = FALSE /\ queue[c] = <<>>
          /\ ledger[c] = <<>> /\ start[c] = 0 /\ published = 0
      BY DEF Init
    <3>2. NoReader.index = 0 /\ Len(ledger[c]) = 0
      BY <3>1 DEF NoReader
    <3> QED BY <3>1, <3>2 DEF ClientInv, Connected, Has, Located, Queued, Honest, Fetching
  <2> QED BY <2>1, <2>2, <2>3 DEF ServerInv
<1>2. ServerInv /\ [Next]_vars => ServerInv'
  <2> SUFFICES ASSUME ServerInv, [Next]_vars PROVE ServerInv'
    OBVIOUS
  <2>1. CASE UNCHANGED vars
    <3>1. TypeOK'
      BY <2>1 DEF ServerInv, TypeOK, vars, fileVars, hubVars, clientVars, queueVars, consumerVars
    <3>2. Commits' /\ Segments' /\ Ended'
      BY <2>1 DEF ServerInv, Commits, Segments, Ended, vars, fileVars, hubVars, clientVars
    <3>3. \A c \in Client : ClientInv(c)'
      BY <2>1, Untouched DEF ServerInv, vars, fileVars, hubVars, clientVars, queueVars, consumerVars
    <3> QED BY <3>1, <3>2, <3>3 DEF ServerInv
  <2>2. CASE Producing
    <3>1. TypeOK' /\ Commits' /\ Segments' /\ Ended'
      BY <2>2, TypesOfProducing, ProducingKeepsOrder DEF ServerInv
    <3> QED BY <2>2, <3>1, ProducingKeepsClients DEF ServerInv
  <2>3. ASSUME NEW c \in Client,
               Admit(c) \/ Snapshot(c) \/ Serving(c) \/ GivesUp(c) \/ Fails(c) \/ Dies(c)
        PROVE  ServerInv'
    BY <2>3, ServingKeepsInv
  <2> QED BY <2>1, <2>2, <2>3 DEF Next
<1> QED BY <1>1, <1>2, PTL DEF Spec

\* A sequence that counts from a number is known by its length.
LEMMA Counting ==
  ASSUME NEW s \in Seq(Nat), NEW n \in Nat, \A i \in 1..Len(s) : s[i] = n + i - 1
  PROVE  s = [i \in 1..Len(s) |-> n + i - 1]
BY LenProperties

\* A line in flight before a queue.
LEMMA InFlight ==
  ASSUME NEW q \in Seq(Nat), NEW l \in Nat
  PROVE  /\ <<l>> \o q \in Seq(Nat) /\ Len(<<l>> \o q) = 1 + Len(q) /\ (<<l>> \o q)[1] = l
         /\ \A i \in 1..Len(q) : (<<l>> \o q)[i + 1] = q[i]
<1>1. <<l>> \in Seq(Nat) /\ Len(<<l>>) = 1 /\ <<l>>[1] = l /\ Len(q) \in Nat
  BY LenProperties
<1>2. /\ <<l>> \o q \in Seq(Nat) /\ Len(<<l>> \o q) = Len(<<l>>) + Len(q)
      /\ \A i \in 1..Len(<<l>>) + Len(q) :
           (<<l>> \o q)[i] = IF i <= Len(<<l>>) THEN <<l>>[i] ELSE q[i - Len(<<l>>)]
  BY <1>1, ConcatProperties
<1> DEFINE o == <<l>> \o q
           s == <<l>>
<1>3. /\ Len(s) = 1 /\ s[1] = l
      /\ \A i \in 1..Len(s) + Len(q) : o[i] = IF i <= Len(s) THEN s[i] ELSE q[i - Len(s)]
  BY <1>1, <1>2
<1> HIDE DEF o, s
<1>4. Len(q) \in Nat
  BY <1>1
<1>5. o[1] = l /\ \A i \in 1..Len(q) : o[i + 1] = q[i]
  <2>1. o[1] = l
    <3>1. 1 \in 1..Len(s) + Len(q) /\ 1 <= Len(s)
      BY ONLY <1>3, <1>4
    <3> QED BY ONLY <1>3, <3>1
  <2>2. ASSUME NEW i \in 1..Len(q) PROVE o[i + 1] = q[i]
    <3>1. i + 1 \in 1..Len(s) + Len(q) /\ ~(i + 1 <= Len(s)) /\ (i + 1) - Len(s) = i
      BY ONLY <1>3, <1>4
    <3> QED BY ONLY <1>3, <3>1
  <2> QED BY <2>1, <2>2
<1> QED BY <1>1, <1>2, <1>5 DEF o

\* Every consumer has a contiguous piece of what was committed.
THEOREM ContiguousLedgers == Spec => []LedgersAreContiguous
<1>1. ServerInv => LedgersAreContiguous
  <2> SUFFICES ASSUME ServerInv, NEW c \in Client
               PROVE  /\ ledger[c] = [i \in 1..Len(ledger[c]) |-> start[c] + i - 1]
                      /\ start[c] + Len(ledger[c]) <= durable \/ ledger[c] = <<>>
    BY DEF LedgersAreContiguous
  <2>1. ledger[c] \in Seq(Nat) /\ start[c] \in Nat /\ Has(c)
    BY TypesByClient DEF ServerInv, ClientInv, TypedAt
  <2> QED BY <2>1, Counting DEF Has
<1> QED BY <1>1, ServerInvariance, PTL

\* Nobody is told that a cursor has expired while the journal still has it.
THEOREM HonestExpiry == Spec => []ExpiryIsHonest
<1>1. ServerInv => ExpiryIsHonest
  BY LeastBase DEF ServerInv, ClientInv, Honest, ExpiryIsHonest
<1> QED BY <1>1, ServerInvariance, PTL

\* A snapshot is everything that was published when it was asked for.
THEOREM CompleteSnapshots == Spec => []SnapshotIsComplete
<1>1. ServerInv => SnapshotIsComplete
  BY DEF ServerInv, ClientInv, Has, SnapshotIsComplete
<1> QED BY <1>1, ServerInvariance, PTL

\* A live client is owed exactly what was published since.
THEOREM ExactQueues == Spec => []QueueIsTheRest
<1>1. ServerInv => QueueIsTheRest
  <2> SUFFICES ASSUME ServerInv, NEW c \in Clients, live[c], pc[c] # "closed",
                      NEW owed, owed = (IF pc[c] = "send" THEN <<line[c]>> ELSE <<>>) \o queue[c]
               PROVE  /\ owed = [i \in 1..Len(owed) |-> next[c] + i - 1]
                      /\ next[c] + Len(owed) = published \/ slow[c]
    BY DEF QueueIsTheRest
  <2>1. /\ queue[c] \in Seq(Nat) /\ line[c] \in Nat /\ next[c] \in Nat /\ published \in Nat
        /\ slow[c] \in BOOLEAN /\ Connected(c) /\ Queued(c) /\ Len(queue[c]) \in Nat
    BY TypesByClient, LenProperties DEF ServerInv, ClientInv, TypedAt, TypeOK, Clients
  <2>2. CASE pc[c] = "live"
    <3>1. owed = queue[c]
      BY <2>1, <2>2, ConcatEmptySeq
    <3>2. Continuing(c, next[c])
      BY <2>1, <2>2 DEF Queued
    <3> QED BY <2>1, <3>1, <3>2, Counting DEF Continuing
  <2>3. CASE pc[c] = "send"
    <3>2. /\ owed \in Seq(Nat) /\ Len(owed) = 1 + Len(queue[c]) /\ owed[1] = line[c]
          /\ \A i \in 1..Len(queue[c]) : owed[i + 1] = queue[c][i]
      <4>1. owed = <<line[c]>> \o queue[c]
        BY <2>3
      <4> QED BY ONLY <2>1, <4>1, InFlight
    <3>3. /\ line[c] = next[c]
          /\ \A i \in 1..Len(queue[c]) : queue[c][i] = next[c] + 1 + i - 1
          /\ ~slow[c] => next[c] + 1 + Len(queue[c]) = published
      BY <2>1, <2>3 DEF Queued, Continuing
    <3>4. ASSUME NEW i \in 1..(1 + Len(queue[c])) PROVE owed[i] = next[c] + i - 1
      <4>1. CASE i = 1
        <5>1. owed[1] = next[c] /\ next[c] \in Nat
          BY <2>1, <3>2, <3>3
        <5> QED BY ONLY <4>1, <5>1
      <4>2. CASE i # 1
        <5>1. i - 1 \in 1..Len(queue[c]) /\ i \in Nat /\ (i - 1) + 1 = i
          BY <2>1, <4>2
        <5>2. owed[(i - 1) + 1] = queue[c][i - 1] /\ queue[c][i - 1] = next[c] + 1 + (i - 1) - 1
          BY <3>2, <3>3, <5>1
        <5>3. next[c] \in Nat
          BY <2>1
        <5> QED BY ONLY <5>1, <5>2, <5>3
      <4> QED BY <4>1, <4>2
    <3>5. owed = [i \in 1..Len(owed) |-> next[c] + i - 1]
      <4>1. owed \in Seq(Nat) /\ next[c] \in Nat
        BY <2>1, <3>2
      <4>2. \A i \in 1..Len(owed) : owed[i] = next[c] + i - 1
        BY ONLY <3>2, <3>4
      <4> QED BY ONLY <4>1, <4>2, Counting
    <3>6. next[c] + Len(owed) = published \/ slow[c]
      <4>1. next[c] \in Nat /\ Len(queue[c]) \in Nat /\ slow[c] \in BOOLEAN
        BY <2>1
      <4>2. CASE ~slow[c]
        <5>1. next[c] + 1 + Len(queue[c]) = published /\ Len(owed) = 1 + Len(queue[c])
          BY <3>2, <3>3, <4>2
        <5> QED BY ONLY <4>1, <5>1
      <4> QED BY <4>2
    <3> QED BY <3>5, <3>6
  <2> QED BY <2>1, <2>2, <2>3 DEF Connected
<1> QED BY <1>1, ServerInvariance, PTL

\* A live client is let go with the producer's goodbye only when it has all.
THEOREM CompleteGoodbyes == Spec => GoodbyeIsComplete
<1> DEFINE Good == \A c \in Client : live[c] /\ reason'[c] = "goodbye" /\ reason[c] # "goodbye" =>
                     next[c] = published
<1>1. ServerInv /\ [Next]_vars => Good
  <2> SUFFICES ASSUME ServerInv, [Next]_vars, NEW c \in Client,
                      live[c], reason'[c] = "goodbye", reason[c] # "goodbye"
               PROVE  next[c] = published
    OBVIOUS
  <2>1. TypeOK /\ OnClients /\ TypedAt(c) /\ Connected(c) /\ Queued(c)
    BY TypesByClient DEF ServerInv, ClientInv
  <2>2. ~Producing /\ ~UNCHANGED vars
    BY <2>1 DEF Producing, AppendBatch, Commit, Rotate, Expire, Retained, Publish, Published, Stop,
                Down, Restart, vars, clientVars
  <2>3. Admit(c) \/ Snapshot(c) \/ Serving(c) \/ GivesUp(c) \/ Fails(c) \/ Dies(c)
    <3>1. PICK d \in Client :
            Admit(d) \/ Snapshot(d) \/ Serving(d) \/ GivesUp(d) \/ Fails(d) \/ Dies(d)
      BY <2>2 DEF Next
    <3>2. d # c => reason'[c] = reason[c]
      BY <2>1, <3>1, ServingIsAlone DEF OnClients, Alone, ControlAlone, DataAlone, QueueAlone
    <3> QED BY <3>1, <3>2
  <2>4. pc[c] \in {"live", "send", "closed"}
    BY <2>1 DEF Connected
  <2>5. Leaves(c)
    <3>1. ~Halts(c) /\ ~Check(c)
      BY <2>4 DEF Halts, Reading, Check
    <3>2. ~Admit(c) /\ ~Snapshot(c) /\ ~Lists(c) /\ ~Opens(c) /\ ~Ready(c) /\ ~Continues(c)
      BY <2>1, <2>4, AdmitAt, SnapshotAt, ListsAt, OpensAt, ReadyAt, ContinuesAt
    <3>3. ~Skips(c) /\ ~AtEnd(c) /\ ~CaughtUp(c) /\ ~SendsLine(c) /\ ~CollectsLine(c)
      BY <2>4 DEF Skips, AtEnd, CaughtUp, Reading, SendsLine, CollectsLine
    <3>4. ~Expired(c) /\ ~Retries(c) /\ ~Takes(c) /\ ~Sends(c) /\ ~Disconnected(c)
      BY <2>1, <2>4, ExpiredAt, RetriesAt, TakesAt, SendsAt, DisconnectedAt
    <3>5. ~GivesUp(c) /\ ~Fails(c) /\ ~Dies(c)
      BY <2>1, GivesUpAt, FailsAt, DiesAt
    <3> QED BY <2>3, <3>1, <3>2, <3>3, <3>4, <3>5 DEF Serving
  <2>6. pc[c] = "live" /\ ~slow[c] /\ queue[c] = <<>>
    BY <2>1, <2>5 DEF Leaves, Closes, OnClients
  <2>7. Continuing(c, next[c]) /\ Len(queue[c]) = 0 /\ next[c] \in Nat
    BY <2>1, <2>6 DEF Queued, TypedAt
  <2> QED BY <2>6, <2>7 DEF Continuing
<1> QED BY <1>1, ServerInvariance, PTL DEF Spec, GoodbyeIsComplete
=============================================================================
