------------------------------ MODULE MCSession ------------------------------
(***************************************************************************)
(* Small tapes for SessionProperties, and its fairness.                    *)
(***************************************************************************)
EXTENDS SessionProperties

\* Minutes of length two: minute 1 is 2..3, minute 2 is 4..5, and 1 is before the start.
Tape(a, b, c) == <<1, a, b, c>>

\* Every tape of three prints in three minutes, not all in the same, and some whose matched time
\* goes back within a minute, behind a fence and behind the start.
SmallTapes ==
    LET times == {2, 4, 6}
        all == {Tape(a, b, c) : a, b, c \in times}
    IN  {t \in all : t[2] # t[4] /\ \A i, j \in 1..4 : i < j => t[i] <= t[j]}
        \cup {Tape(3, 2, 4), Tape(2, 4, 3), Tape(2, 1, 4)}
=============================================================================
