------------------------ MODULE ClientServerProperties ------------------------
(***************************************************************************)
(* What serve promises to its clients.                                     *)
(***************************************************************************)
EXTENDS ClientServer

Places == {"off", "admitted", "check", "list", "relist", "open", "reopen", "read", "eof",
           "missing", "live", "send", "closed"}
Reasons == {"none", "stopping", "unknown", "expired", "full", "goodbye", "unavailable",
            "slow", "dead", "error", "large", "answered"}

\* The type of every variable; no queue is longer than its limit.
TypeOK ==
  /\ lines \in Nat /\ durable \in Nat /\ bases \in SUBSET Nat /\ sealed \in SUBSET Nat
  /\ bases # {} /\ bases \subseteq sealed
  /\ producer \in {"idle", "commit", "rotate", "retain", "publish", "stopping", "down"}
  /\ published \in Nat /\ first \in Nat /\ starts \in Nat
  /\ pc \in [Client -> Places] /\ kind \in [Client -> {"stream", "snapshot"}]
  /\ next \in [Client -> Nat] /\ head \in [Client -> Nat] /\ line \in [Client -> Nat]
  /\ reader \in [Client -> [descriptor : Nat \cup {-1}, index : Nat]]
  /\ live \in [Client -> BOOLEAN] /\ slow \in [Client -> BOOLEAN]
  /\ queue \in [Client -> Seq(Nat)] /\ \A c \in Client : Len(queue[c]) <= QueueLimit
  /\ reason \in [Client -> Reasons] /\ start \in [Client -> Nat]
  /\ ledger \in [Client -> Seq(Nat)] /\ visits \in [Client -> Nat]
-----------------------------------------------------------------------------
\* Every consumer has a contiguous piece of the stream, from files and queue,
\* over segments that are sealed and expire, through its own reconnects and the
\* producer's restarts; and only what was committed.
LedgersAreContiguous ==
  \A c \in Client :
    /\ ledger[c] = [i \in 1..Len(ledger[c]) |-> start[c] + i - 1]
    /\ start[c] + Len(ledger[c]) <= durable \/ ledger[c] = <<>>

\* A live client is owed exactly what was published since: what is in flight
\* and queued follows what it has, and ends at the head unless it was cut off.
QueueIsTheRest ==
  \A c \in Clients :
    live[c] /\ pc[c] # "closed" =>
      LET owed == (IF pc[c] = "send" THEN <<line[c]>> ELSE <<>>) \o queue[c]
      IN  /\ owed = [i \in 1..Len(owed) |-> next[c] + i - 1]
          /\ next[c] + Len(owed) = published \/ slow[c]

\* Nobody is told that a cursor has expired while the journal still has it.
ExpiryIsHonest == \A c \in Client : reason[c] = "expired" => next[c] < Min(bases)

\* A live client is let go with the producer's goodbye only when it has all.
GoodbyeIsComplete ==
  [][\A c \in Client : live[c] /\ reason'[c] = "goodbye" /\ reason[c] # "goodbye" =>
       next[c] = published]_vars

\* A snapshot is everything that was published when it was asked for.
SnapshotIsComplete ==
  \A c \in Client :
    reason[c] = "answered" => start[c] = 0 /\ (pc[c] = "closed" => Len(ledger[c]) = head[c])

\* A connected client reaches the head, or is told why not.
EveryClientIsServed ==
  \A c \in Client : pc[c] = "admitted" ~> pc[c] \in {"closed", "off"} \/ (live[c] /\ next[c] = published)
=============================================================================
