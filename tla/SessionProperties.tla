-------------------------- MODULE SessionProperties --------------------------
(***************************************************************************)
(* What the feed promises of a stream, whatever the WebSocket and REST     *)
(* show, and whenever connections and processes end.                       *)
(***************************************************************************)
EXTENDS Session

\* The log is the tape from the first print of the start minute on: no id is missing, repeated
\* or out of order, matched time does not go back, and the minutes close one after the other,
\* each with every print it has and with its candle, unless the row that REST had of it trailed.
\* A print whose time went back behind the fence is missed only where the candle is not the sum
\* of the prints, or with such a row.
LogIsTheTape ==
    LET before(n, kind) == {k \in OfKind(log, kind) : k < n}
        open(n) == Start + Cardinality(before(n, "time"))
    IN  /\ \A n \in OfKind(log, "tick") :
               /\ log[n][2] = predecessor + 1 + Cardinality(before(n, "tick"))
               /\ MinuteOf(log[n][2]) = open(n)
               /\ \A k \in before(n, "tick") : Ts(log[k][2]) <= Ts(log[n][2])
        /\ \A n \in OfKind(log, "time") :
               /\ log[n][2] = open(n)
               /\ \/ mode = "bars"
                  \/ ~ Chronological /\ (mode = "aggregate" \/ open(n) \in trailed)
                  \/ Candle(open(n)) \subseteq {log[k][2] : k \in before(n, "tick")}
        /\ \A m \in Start..Cut - 1 : proofs[m] = Candle(m) \/ m \in trailed

\* A venue that revises nothing is accused of it only if a REST row trailed when a minute was
\* judged by it (in the overlap after the re-reads, and behind a later confirmed minute at
\* once): otherwise the stream stops with a conflict or a broken chain only if matched time
\* went back, and for an ambiguous minute only if one has no prints.
AlarmsAreTrue ==
    /\ stop \in {"conflict", "prefix"} => ~ Chronological \/ trailed # {}
    /\ stop = "regressed" => ~ Chronological
    /\ stop = "ambiguous" => ~ Chronological \/ \E m \in Start..LastMinute : Candle(m) = {}

\* No message of a connection is handled before the overlap was verified on that connection.
EachConnectionIsVerified ==
    \A n \in DOMAIN queue :
        LET markers == {k \in 1..n : queue[k].connected}
        IN  queue[n].source = IF markers = {} THEN mem.verified ELSE queue[Max(markers)].source

\* A venue that never answers ends the stream: the budget of reconnects does not come back by
\* itself, and the reader does not wait for the session for ever.
SilenceEndsTheStream == []<>heard \/ []<>(mem.pc = "stopped")
=============================================================================
