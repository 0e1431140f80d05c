------------------------- MODULE HarnessProperties -------------------------
(***************************************************************************)
(* What the harness hands to the engine and what the stream of trades      *)
(* delivers, whatever the exchange does between two requests.              *)
(***************************************************************************)
EXTENDS Harness

\* The bars of a backtest increase, and all of them had closed when they were asked for,
\* however long the paging took. The warmup is every such candle of the exchange in the
\* frames before the start, and takes none of the limit. The requested ones are all there
\* are from the start on or, with a limit, exactly the first that many, and beyond it
\* exactly as many more as gaps have left of the warmup's capacity.
BarsAreExact ==
    LET closed == {c \in candles : c + Frame <= fetch.observed /\ c < args.end}
        requested == {c \in closed : c >= args.start}
        warmup == {c \in closed \ requested : c + args.warmup * Frame >= args.start}
        missing == args.warmup - Cardinality(warmup)
        given == Range(bars)
    IN  bars # <<>> =>
        /\ \A i, j \in DOMAIN bars : i < j => bars[i] < bars[j]
        /\ given \ requested = warmup /\ missing >= 0
        /\ \A c \in requested : (\E d \in given : c < d) => c \in given
        /\ args.limit = 0 => requested \subseteq given
        /\ args.limit # 0 =>
               Cardinality(given \cap requested) = Min({Cardinality(requested), args.limit + missing})

\* A container only runs with its inputs mounted and the provider closed, and none runs on
\* when the harness has ended, by a timeout at any step or otherwise.
NoStrayContainer ==
    /\ container = "running" => workspace /\ ~ open
    /\ pc \in Ended => container # "running" /\ ~ workspace /\ ~ open

\* No trade is delivered twice, and times never decrease, although every poll starts at the
\* newest time and the window of identities forgets.
StreamIsExact ==
    \A i, j \in DOMAIN emitted : i < j =>
        /\ Ts(emitted[i]) <= Ts(emitted[j])
        /\ Key(emitted[i]) # Key(emitted[j])

Delivered(i) == \E j \in Range(emitted) : Key(j) = Key(i)

\* What was listed on time is never passed over: it is delivered, in the page, or still
\* at or above the next poll.
NothingIsPassedOver ==
    \A i \in DOMAIN trades :
        ~ trades[i].late => Ts(i) >= since \/ i \in Range(page) \/ Delivered(i)

\* A page of trades with one time: the poll cannot get past it.
Crowded == \E ts \in 0..MaxNow : Cardinality({i \in DOMAIN trades : Ts(i) = ts}) >= PageLimit

\* What was listed on time is delivered in the end, unless a page of trades has one time.
EveryTradeArrives ==
    \A i \in 1..MaxTrades :
        (i \in DOMAIN trades /\ ~ trades[i].late) ~> (i \in DOMAIN trades /\ (Delivered(i) \/ Crowded))
=============================================================================
