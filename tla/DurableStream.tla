---------------------------- MODULE DurableStream ----------------------------
(***************************************************************************)
(* What the native feed promises to one consumer of its output, with the   *)
(* files, the processes and their crashes left out.  There is one log; it  *)
(* only grows, its oldest part expires, and the consumer receives it in    *)
(* order, each message once, as long as the message is retained.           *)
(***************************************************************************)
EXTENDS Integers, Sequences

VARIABLES
  log,    \* the committed messages, from index 0
  first,  \* the first retained index
  seen    \* what the consumer has

stream == <<log, first, seen>>

Init == log = <<>> /\ first = 0 /\ seen = <<>>

\* A group commit: one or more messages become durable together.
Commit ==
  /\ Len(log') > Len(log)
  /\ SubSeq(log', 1, Len(log)) = log
  /\ UNCHANGED <<first, seen>>

Expire ==
  /\ first' > first /\ first' <= Len(log)
  /\ UNCHANGED <<log, seen>>

\* Only a retained message is delivered, and none is skipped.
Deliver ==
  /\ Len(seen) >= first /\ Len(seen) < Len(log)
  /\ seen' = Append(seen, log[Len(seen) + 1])
  /\ UNCHANGED <<log, first>>

\* A consumer that expiry has left behind starts over from a warmup that ends
\* in the retained part; no other consumer ever has to.
Rebuild ==
  /\ Len(seen) < first
  /\ \E n \in first..Len(log) : seen' = SubSeq(log, 1, n)
  /\ UNCHANGED <<log, first>>

Next == Commit \/ Expire \/ Deliver \/ Rebuild

Spec == Init /\ [][Next]_stream
=============================================================================
