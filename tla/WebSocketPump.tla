---------------------------- MODULE WebSocketPump ----------------------------
(***************************************************************************)
(* The reader thread of the feed (transport.cpp): it connects, pushes a    *)
(* marker and then the messages of the connection into a bounded queue,    *)
(* drops the connection when the queue is full, and gives up after a run   *)
(* of connections that brought nothing.  A message is only the connection  *)
(* it came by, of which two are told apart; the session decodes it when it *)
(* takes it.                                                               *)
(***************************************************************************)
EXTENDS Naturals, Sequences

CONSTANTS
    QueueLimit,   \* --max-queue-bytes, in messages
    MaxFailures   \* 8: connections in a row without a frame

ASSUME PumpAssumption == QueueLimit \in Nat \ {0} /\ MaxFailures \in Nat \ {0}

VARIABLES
    link,       \* where the reader is
    failures,   \* connections in a row that failed
    heard,      \* the venue has answered on this connection
    source,     \* the connection, 0 or 1 by turns
    queue       \* the messages the session has not taken

pumpVars == <<link, failures, heard, source, queue>>

PumpInit ==
    /\ link = "down" /\ failures = 0 /\ heard = FALSE /\ source = 0 /\ queue = <<>>

\* The object is destroyed with its queue, and the next process makes a new one.
PumpReset ==
    /\ link' = "down" /\ failures' = 0 /\ heard' = FALSE /\ queue' = <<>>
    /\ UNCHANGED source

\* ++failures, and the end of the budget.
Spends ==
    /\ failures' = failures + 1
    /\ link' = IF failures + 1 >= MaxFailures THEN "failed" ELSE "down"

\* Wrong: a handshake counts as an answer.
ConnectsAnew ==
    /\ link = "down"
    /\ link' = "marker" /\ source' = 1 - source /\ heard' = FALSE /\ failures' = 0
    /\ UNCHANGED queue

Connects ==
    /\ link = "down"
    /\ link' = "marker" /\ source' = 1 - source /\ heard' = FALSE
    /\ UNCHANGED <<failures, queue>>

HandshakeFails ==
    /\ link = "down"
    /\ Spends
    /\ UNCHANGED <<heard, source, queue>>

HasRoom == Len(queue) < QueueLimit
Message(connected) == [connected |-> connected, source |-> source]

\* Wrong: a queue without room goes without the marker.
MarksIfRoom ==
    /\ link = "marker"
    /\ link' = "open"
    /\ queue' = IF HasRoom THEN Append(queue, Message(TRUE)) ELSE queue
    /\ UNCHANGED <<failures, heard, source>>

\* The marker waits for room and precedes every message of the connection.
Marks ==
    /\ link = "marker" /\ HasRoom
    /\ link' = "open"
    /\ queue' = Append(queue, Message(TRUE))
    /\ UNCHANGED <<failures, heard, source>>

\* The first frame proves the connection.
Hears ==
    /\ heard' = TRUE
    /\ failures' = IF heard THEN failures ELSE 0

HearsControl ==
    /\ link = "open"
    /\ Hears
    /\ UNCHANGED <<link, source, queue>>

\* A full queue loses the message and drops the connection.
HearsData ==
    /\ link = "open"
    /\ Hears
    /\ IF HasRoom
       THEN queue' = Append(queue, Message(FALSE)) /\ link' = "open"
       ELSE link' = "full" /\ UNCHANGED queue
    /\ UNCHANGED source

\* A quarter of the queue at most is left before the reader connects again.
Drained ==
    /\ link = "full" /\ Len(queue) <= QueueLimit \div 4
    /\ link' = "down"
    /\ UNCHANGED <<failures, heard, source, queue>>

\* The venue closes, retires or goes stale, or a planned reconnect is due.
Breaks ==
    /\ link = "open" /\ heard
    /\ link' = "down"
    /\ UNCHANGED <<failures, heard, source, queue>>

\* Closed, or silent for too long, before any frame.
BreaksUnheard ==
    /\ link = "open" /\ ~ heard
    /\ Spends
    /\ UNCHANGED <<heard, source, queue>>

\* Access is denied, or a frame is not ordered text.
Refused ==
    /\ link \in {"down", "open"}
    /\ link' = "failed"
    /\ UNCHANGED <<failures, heard, source, queue>>

PumpStep ==
    \/ Connects \/ HandshakeFails \/ Marks \/ HearsControl \/ HearsData
    \/ Drained \/ Breaks \/ BreaksUnheard \/ Refused
=============================================================================
