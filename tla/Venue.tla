-------------------------------- MODULE Venue --------------------------------
(***************************************************************************)
(* An exchange as the sessions of the feed see it: a chain of prints with  *)
(* consecutive ids, a candle for every closed minute, and REST answers     *)
(* that may trail what the WebSocket has sent by any amount, a different   *)
(* amount at every read: they lack prints, rows, or prints of a row.  Ids  *)
(* are positions on the tape; a print before the start is its first.  A    *)
(* candle stands for the set of its prints.                                *)
(***************************************************************************)
EXTENDS Integers, Sequences, FiniteSets, FiniteSetsExt

CONSTANTS
    Tapes,        \* the sequences of matched times that are explored
    Minute,       \* the length of a minute
    Start,        \* the minute of --start
    LastMinute,   \* the last minute that closes: a bound
    PageLimit     \* the prints of a REST page

ASSUME VenueAssumption ==
    /\ Tapes \subseteq Seq(Nat)
    /\ Minute \in Nat \ {0} /\ Start \in Nat
    /\ LastMinute \in Nat /\ Start <= LastMinute
    /\ PageLimit \in Nat \ {0}

VARIABLE tape

Ids == DOMAIN tape
Ts(i) == tape[i]
MinuteOf(i) == tape[i] \div Minute
Candle(m) == {i \in Ids : MinuteOf(i) = m}
Minutes == Start - 1 .. LastMinute

\* Matched time never goes back along the chain.
Chronological == \A i, j \in Ids : i < j => Ts(i) <= Ts(j)

\* The pages history() may answer with, each a run of ids from `from' on.
History(from) == {from..to : to \in from - 1 .. Min({from + PageLimit - 1, Len(tape)})}

\* The answers of klines() about some minutes, each with the prints up to one that was seen ...
Answers(minutes) == {[m \in minutes |-> {i \in Candle(m) : i <= seen}] : seen \in 0..Len(tape)}

\* ... or with the first of the minutes from `from' to before `end' only.
Rows(from, end) == UNION {Answers(from..m) : m \in from .. Min({end - 1, LastMinute})}

\* The minutes whose row is not their candle yet.
Trailing(rows) == {m \in DOMAIN rows : rows[m] # Candle(m)}

\* The prints that REST shows as the last one before the start, with the next at or after it.
Predecessors == {p \in Ids : p + 1 \in Ids /\ MinuteOf(p) < Start /\ MinuteOf(p + 1) >= Start}
=============================================================================
