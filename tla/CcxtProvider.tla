---------------------------- MODULE CcxtProvider ----------------------------
(***************************************************************************)
(* providers/ccxt.py: the bars of a request, fetched page by page, and the *)
(* trades of a subscription, polled.  The exchange goes on between any two *)
(* requests: its clock moves, candles close, trades are listed, some of    *)
(* them after younger ones.                                                *)
(*                                                                         *)
(* A candle is its opening time.  A trade is its place in the order of     *)
(* listing; two trades without an id that agree in time, price, quantity   *)
(* and side have one key.                                                  *)
(***************************************************************************)
EXTENDS Ordering, Sequences, FiniteSetsExt, SequencesExt

CONSTANTS
    Frame,         \* the length of a candle
    PageLimit,     \* page_limit
    DedupWindow,   \* dedup_window
    Lateness,      \* how old a trade can be when it is listed
    MaxNow,        \* bound: the exchange's clock
    MaxTrades      \* bound: the trades it lists

\* The window of retained identities holds a page; the constructor's defaults do.
ASSUME CcxtAssumption ==
    /\ Frame \in Nat \ {0} /\ PageLimit \in Nat \ {0}
    /\ DedupWindow \in Nat /\ PageLimit <= DedupWindow
    /\ Lateness \in Nat /\ MaxNow \in Nat /\ MaxTrades \in Nat

VARIABLES
    now,       \* the exchange's clock
    candles,   \* the candles of its history: quiet times have none
    trades,    \* the trades in the order of their listing: ts, key, late
    fetch,     \* fetch_bars: the request, observed_at_ms, cursor, by_timestamp
    since,     \* stream_trades: since,
    pollSince, \*     poll_since,
    page,      \*     what is left of the polled page,
    seen,      \*     seen_order,
    emitted    \*     the ticks, whose numbers are their sequence

streamVars == <<trades, since, pollSince, page, seen, emitted>>

Ts(i) == trades[i].ts
Key(i) == trades[i].key

----------------------------------------------------------------------------
(* The exchange.                                                           *)

\* A trade is late that is listed below what was polled.
Late(ts) == ts < since \/ \E i \in Range(page) : ts < Ts(i)

\* An identity: a number of its own, or that of a trade with the same values.
KeysAt(ts) == {Len(trades) + 1} \cup {Key(i) : i \in {j \in DOMAIN trades : Ts(j) = ts}}

Lists(ts, key) ==
    /\ Len(trades) < MaxTrades
    /\ ts \in 0..now /\ ts + Lateness >= now
    /\ key \in KeysAt(ts)
    /\ trades' = Append(trades, [ts |-> ts, key |-> key, late |-> Late(ts)])
    /\ UNCHANGED <<now, candles, fetch, since, pollSince, page, seen, emitted>>

Ticks ==
    /\ now < MaxNow
    /\ now' = now + 1
    /\ UNCHANGED <<candles, fetch, streamVars>>

\* fetch_ohlcv() answers with the oldest candles from a time on, the one that is
\* still open too, and possibly fewer than it was asked for.
Candles(from) == {c \in candles : from <= c /\ c <= now}

IsOhlcvPage(bars, from, limit) ==
    /\ Cardinality(bars) <= limit
    /\ bars = {} <=> Candles(from) = {}
    /\ \A b \in bars : \A c \in Candles(from) : c < b => c \in bars

\* fetch_trades() answers with the first listed of the oldest trades from a time on.
Listed(from) == {i \in DOMAIN trades : Ts(i) >= from}

IsTradesPage(rows, from) ==
    /\ rows \subseteq Listed(from)
    /\ Cardinality(rows) <= PageLimit
    /\ Cardinality(rows) < PageLimit => rows = Listed(from)
    /\ \A i \in rows : \A j \in Listed(from) \ rows :
           Ts(i) < Ts(j) \/ (Ts(i) = Ts(j) /\ i < j)

----------------------------------------------------------------------------
(* fetch_bars().                                                           *)

NoRequest == [pc |-> "idle", start |-> 0, end |-> 0, limit |-> 0, observed |-> 0,
              cursor |-> 0, bars |-> {}]

\* A limit of 0 stands for none.  The observation time is read before the first page.
BeginsFetch(start, end, limit) ==
    fetch' = [pc |-> "page", start |-> start, end |-> end, limit |-> limit,
              observed |-> Min({end, now}), cursor |-> start, bars |-> {}]

\* Only candles that had closed when the request came are bars.
Confirmed(ts) == ts + Frame <= fetch.observed

NextCursor(rows) == Max(rows) + 1

Remaining == fetch.limit - Cardinality(fetch.bars)

Done == fetch' = [fetch EXCEPT !.pc = "done"]

FetchesPage ==
    /\ fetch.pc = "page"
    /\ IF fetch.cursor >= fetch.end \/ (fetch.limit # 0 /\ Remaining <= 0)
       THEN Done
       ELSE \E rows \in SUBSET Candles(fetch.cursor) :
            /\ IsOhlcvPage(rows, fetch.cursor,
                           IF fetch.limit = 0 THEN PageLimit ELSE Min({PageLimit, Remaining}))
            /\ IF rows = {} \/ NextCursor(rows) <= fetch.cursor
               THEN Done
               ELSE fetch' = [fetch EXCEPT
                        !.bars = @ \cup {ts \in rows : /\ fetch.start <= ts /\ ts < fetch.end
                                                       /\ Confirmed(ts)},
                        !.cursor = NextCursor(rows)]
    /\ UNCHANGED <<now, candles, streamVars>>

\* The answer: sorted, and cut to the limit.
Fetched ==
    LET bars == Ordered(fetch.bars)
    IN  IF fetch.limit = 0 THEN bars ELSE SubSeq(bars, 1, Min({fetch.limit, Len(bars)}))

----------------------------------------------------------------------------
(* stream_trades().                                                        *)

\* A poll, and its rows sorted by time; equal times stay in any order.
Polls ==
    /\ page = <<>>
    /\ \E rows \in SUBSET Listed(since) :
           /\ IsTradesPage(rows, since)
           /\ \E order \in [1..Cardinality(rows) -> rows] :
                  /\ Range(order) = rows
                  /\ \A i, j \in DOMAIN order : i < j => Ts(order[i]) <= Ts(order[j])
                  /\ page' = order
    /\ pollSince' = since
    /\ UNCHANGED <<now, candles, trades, fetch, since, seen, emitted>>

\* Wrong: the next poll starts after the newest trade.
AdvancesPast(ts) == since' = Max({since, ts + 1})

\* Wrong: every poll starts where the first one did.
StaysAt(ts) == UNCHANGED since

Advances(ts) == since' = Max({since, ts})

\* Wrong: the window is one short.
RemembersFewer(key) ==
    LET all == Append(seen, key)
    IN  seen' = IF Len(all) >= DedupWindow THEN Tail(all) ELSE all

Remembers(key) ==
    LET all == Append(seen, key)
    IN  seen' = IF Len(all) > DedupWindow THEN Tail(all) ELSE all

\* One row of the page.
Takes ==
    /\ page # <<>>
    /\ LET i == Head(page) IN
       \/ Ts(i) < pollSince /\ UNCHANGED <<since, seen, emitted>>
       \/ /\ Ts(i) >= pollSince
          /\ Advances(Ts(i))
          /\ IF Key(i) \in Range(seen)
             THEN UNCHANGED <<seen, emitted>>
             ELSE Remembers(Key(i)) /\ emitted' = Append(emitted, i)
    /\ page' = Tail(page)
    /\ UNCHANGED <<now, candles, trades, fetch, pollSince>>

Streams == Polls \/ Takes
=============================================================================
