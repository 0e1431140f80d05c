------------------------------- MODULE Session -------------------------------
(***************************************************************************)
(* The sessions of the feed (session.cpp) behind the reader thread.        *)
(* FeedSession proves a minute by the range of ids that its closed candle  *)
(* names, or emits bars; FenceSession by the first print of a later        *)
(* minute.  The WebSocket may repeat, reorder and lose prints and candles; *)
(* REST heals by id.  The log is what was staged: a process that ends      *)
(* leaves some beginning of it, and the predecessor (Journal shows which). *)
(***************************************************************************)
EXTENDS Venue, WebSocketPump

CONSTANTS
    Modes,        \* "bars", "range" (Binance spot), "fence" (OKX), "aggregate" (USD-M)
    MaxPending,   \* --max-queue-bytes, in buffered prints
    MaxProofs     \* the closed minutes whose candles are compared with what REST shows

ASSUME SessionAssumption ==
    /\ Modes \subseteq {"bars", "range", "fence", "aggregate"}
    /\ MaxPending \in Nat /\ MaxProofs \in Nat

VARIABLES
    mode,          \* the session that make_session() chose
    log,           \* <<"tick", id>> and <<"time", minute>>, the latter for a bar, too
    predecessor,   \* the id before the first print, 0 while not anchored
    proofs,        \* the candle that each closed minute was closed with: a bar, or its proof
    mem,           \* what the process keeps in memory
    stop,          \* why the last process ended
    trailed        \* no state of the code: the minutes that were judged by a row that trailed

vars == <<tape, mode, pumpVars, log, predecessor, proofs, mem, stop, trailed>>

----------------------------------------------------------------------------
(* What the cursor says of the log.                                        *)

OfKind(lines, kind) == {n \in DOMAIN lines : lines[n][1] = kind}
Ticks(lines) == {lines[n][2] : n \in OfKind(lines, "tick")}
Cut == Start + Cardinality(OfKind(log, "time"))
LastId == Max({0} \cup Ticks(log))
NextId == 1 + IF LastId # 0 THEN LastId ELSE predecessor
Emitted(m) == Ticks(log) \cap Candle(m)
Proven == Max({Start, Cut - MaxProofs}) .. Cut - 1

----------------------------------------------------------------------------
(* The process: how a step changes it, how it ends and starts again.       *)

\* aggregate: the prints of the open minute; pending: those that wait for the ones before
\* them or for a fence; candles: by minute, those in hand of open ones; watermark: the end of the
\* newest confirmed minute; forward: the watermark of the last look ahead; closing: the minute
\* whose candle is handled; verified: the connection whose overlap was, 2 for none.
NoRows == [m \in {} |-> {}]

NewMem(prints) ==
    [pc |-> "take", aggregate |-> prints, pending |-> {}, candles |-> NoRows, watermark |-> 0,
     forward |-> 0, closing |-> 0, verified |-> 2]

Becomes(new, lines, p) ==
    /\ mem' = new /\ log' = lines /\ predecessor' = p
    /\ UNCHANGED <<tape, mode, proofs, stop, trailed>>

Works(new, lines) == Becomes(new, lines, predecessor) /\ UNCHANGED pumpVars

\* std::map::emplace(): what is there stays.
Emplaced(held, rows) ==
    [m \in DOMAIN held \cup DOMAIN rows |-> IF m \in DOMAIN held THEN held[m] ELSE rows[m]]

\* Lines end minutes, whose candles are kept, after some rows were judged by.
Ends(new, lines, candles, judged) ==
    /\ mem' = new /\ log' = lines
    /\ proofs' = [m \in Minutes |-> IF m \in DOMAIN candles THEN candles[m] ELSE proofs[m]]
    /\ trailed' = trailed \cup Trailing(judged)
    /\ UNCHANGED <<tape, mode, pumpVars, predecessor, stop>>

\* The cursor goes back with the log.
StopsBy(why, lines, judged) ==
    /\ mem' = [NewMem({}) EXCEPT !.pc = "stopped"]
    /\ log' \in {SubSeq(lines, 1, n) : n \in 0..Len(lines)}
    /\ proofs' = [m \in Minutes |-> IF m < Cut' THEN proofs[m] ELSE {}]
    /\ stop' = why
    /\ trailed' = trailed \cup Trailing(judged)
    /\ PumpReset
    /\ UNCHANGED <<tape, mode, predecessor>>

StopsWith(why, lines) == StopsBy(why, lines, NoRows)
Stops(why) == StopsWith(why, log)

\* A kill, a REST request that fails, or retries that end while prints or rows are missing.
Dies == mem.pc # "stopped" /\ Stops("died")

\* Wrong: the prints of the open minute are forgotten.
RestartsEmpty ==
    /\ mem.pc = "stopped"
    /\ stop' = "none" /\ mem' = NewMem({})
    /\ UNCHANGED <<tape, mode, pumpVars, log, predecessor, proofs, trailed>>

\* The constructors add up the open minute from the journal.
Restarts ==
    /\ mem.pc = "stopped"
    /\ stop' = "none" /\ mem' = NewMem(Emitted(Cut))
    /\ UNCHANGED <<tape, mode, pumpVars, log, predecessor, proofs, trailed>>

----------------------------------------------------------------------------
(* put(), emit_trade() and the closing of a minute.                        *)

\* What is known already is not buffered again.
Buffered(ids) == mem.pending \cup {i \in ids : i > LastId}
Overrun(ids) == Cardinality(Buffered(ids)) > MaxPending

Rises(i) == (LastId = 0 /\ i = NextId) \/ Ts(i - 1) <= Ts(i)
Fits(i) == Rises(i) /\ MinuteOf(i) = Cut
Lines(ids) == [n \in 1..Cardinality(ids) |-> <<"tick", Min(ids) + n - 1>>]

\* Of a run of ids that begins with the next: those before the first that does not fit.
Fitting(ids) == {i \in ids : \A j \in ids : j <= i => Fits(j)}
Misfit(ids) == IF Rises(Min(ids \ Fitting(ids))) THEN "prefix" ELSE "regressed"

Emits(ids) ==
    IF Fitting(ids) = ids
    THEN Works([mem EXCEPT !.aggregate = @ \cup ids, !.pending = @ \ ids], log \o Lines(ids))
    ELSE StopsWith(Misfit(ids), log \o Lines(Fitting(ids)))

\* Pages of history that have the next id: one that has not is read again, or the process Dies.
Pages == History(NextId) \ {{}}
UpTo(ids, last) == {i \in ids : i <= last}

Closed(new) ==
    [new EXCEPT !.aggregate = {}, !.candles = [m \in {n \in DOMAIN @ : n > Cut} |-> @[m]]]

\* The candle of the open minute as it ends.
EndsWith(row) == [m \in {Cut} |-> row]

\* A confirmed candle of a closed minute: it is compared with the proof, while there is one,
\* and with the prints, where it is their sum.
Agrees(m) ==
    /\ m \in Proven \/ mode = "bars" => proofs[m] = Candle(m)
    /\ \/ mode \in {"bars", "aggregate"}
       \/ mode = "fence" /\ m \in Proven
       \/ Emitted(m) = Candle(m)

----------------------------------------------------------------------------
(* stream(): a message is taken, and decoded.                              *)

Takes == mem.pc = "take" /\ link # "failed" /\ queue # <<>>
TakesData == Takes /\ ~ Head(queue).connected
Handles(new, p) ==
    /\ Becomes(new, log, p)
    /\ queue' = Tail(queue)
    /\ UNCHANGED <<link, failures, heard, source>>

\* A failure of the reader comes before what it has queued.
SourceFails == mem.pc = "take" /\ link = "failed" /\ Stops("source")

\* connected(): the overlap is read again, up to three times more, and the last answer counts.
Connected ==
    /\ Takes /\ Head(queue).connected
    /\ \E rows \in Answers(Proven) :
        IF \A m \in Proven : rows[m] = proofs[m] /\ (mode = "range" => rows[m] = Emitted(m))
        THEN Handles([mem EXCEPT !.verified = Head(queue).source], predecessor)
        ELSE StopsBy("conflict", log, rows)

Raised(m) == [mem EXCEPT !.watermark = Max({@, m + 1})]

----------------------------------------------------------------------------
(* FenceSession.                                                           *)

Fences == {"fence", "aggregate"}
Anchors == IF predecessor = 0 THEN Predecessors ELSE {predecessor}

\* candle_is_print_sum(), and the candle is not what was emitted.
Disagrees(row, prints) == mode # "aggregate" /\ prints # row

FenceTakesPrint ==
    /\ TakesData /\ mode \in Fences
    /\ \E i \in Ids :
       \/ MinuteOf(i) < Start /\ Handles(mem, predecessor)
       \/ /\ MinuteOf(i) >= Start
          /\ \E p \in Anchors :
             \/ i = p /\ Stops("conflict")
             \/ i < p /\ Stops("regressed")
             \/ i > p /\ Overrun({i}) /\ Stops("overrun")
             \/ /\ i > p /\ ~ Overrun({i})
                /\ Handles([mem EXCEPT !.pending = Buffered({i}), !.pc = "advance"], p)

FenceTakesCandle ==
    /\ TakesData /\ mode \in Fences
    /\ \E m \in Minutes :
        IF \/ m \in Start..Cut - 1 /\ ~ Agrees(m)
           \/ m \in DOMAIN mem.candles /\ mem.candles[m] # Candle(m)
        THEN Stops("conflict")
        ELSE Handles([Raised(m) EXCEPT !.pc = "advance",
                          !.candles = IF m < Cut THEN @
                                      ELSE Emplaced(@, [n \in {m} |-> Candle(n)])], predecessor)

\* The loop of advance(), once around: put() buffers nothing behind the next id, so the
\* check of that never refuses.
Advances == mem.pc = "advance" /\ mem.pending # {}
First == Min(mem.pending)
Returns == Works([mem EXCEPT !.pc = "take"], log)

\* put(trade, true): nothing after the predecessor precedes the start.
PutsHealed(new, ids, p) ==
    \/ (\E i \in ids : MinuteOf(i) < Start) /\ Stops("regressed")
    \/ Overrun(ids) /\ Stops("overrun")
    \/ /\ \A i \in ids : MinuteOf(i) >= Start
       /\ ~ Overrun(ids)
       /\ Becomes([new EXCEPT !.pending = Buffered(ids)], log, p)
       /\ UNCHANGED pumpVars

\* forward(): without a print in hand, the next ones are looked for once per watermark.
LooksAhead ==
    /\ mem.pc = "advance" /\ mem.pending = {}
    /\ LET looked == [mem EXCEPT !.forward = mem.watermark]
       IN  IF mem.watermark > Cut + 1 /\ mem.forward < mem.watermark
           THEN \/ Works([looked EXCEPT !.pc = "take"], log)
                \/ \E p \in Anchors :
                    \E ids \in History(IF predecessor = 0 THEN p + 1 ELSE NextId) :
                       IF ids = {}
                       THEN Becomes([looked EXCEPT !.pc = "take"], log, p) /\ UNCHANGED pumpVars
                       ELSE PutsHealed(looked, ids, p)
           ELSE Returns

FenceHeals ==
    /\ Advances /\ First > NextId
    /\ \E ids \in Pages : PutsHealed(mem, UpTo(ids, First - 1), predecessor)

FenceEmits ==
    /\ Advances /\ First = NextId /\ MinuteOf(First) <= Cut
    /\ Emits({First})

\* Wrong: a confirmed candle closes its minute without a print of a later one.
Unfenced == mem.pc = "advance" /\ Cut \in DOMAIN mem.candles /\ predecessor # 0

\* The chain is complete through a print of a later minute.
Fenced == Advances /\ First = NextId /\ MinuteOf(First) > Cut

\* close_minute(): REST candles are used only behind a later confirmed one.
FenceCloses ==
    /\ Fenced
    /\ \E rows \in IF Cut \in DOMAIN mem.candles THEN {NoRows}
                   ELSE IF mem.watermark > Cut + 1 THEN Rows(Cut, mem.watermark) ELSE {} :
        LET candles == Emplaced(mem.candles, rows) IN
        IF Disagrees(candles[Cut], mem.aggregate)
        THEN StopsBy("conflict", log, candles)
        ELSE Ends(Closed([mem EXCEPT !.candles = candles]), Append(log, <<"time", Cut>>),
                  EndsWith(candles[Cut]), candles)

AwaitsCandle ==
    /\ Fenced
    /\ Cut \notin DOMAIN mem.candles /\ mem.watermark <= Cut + 1
    /\ Returns

----------------------------------------------------------------------------
(* FeedSession.                                                            *)

\* anchor(first_trade_id(start)): the start minute itself must have a print.
RangeTakesPrint ==
    /\ TakesData /\ mode = "range"
    /\ \E i \in Ids :
       \/ MinuteOf(i) < Start /\ Handles(mem, predecessor)
       \/ /\ MinuteOf(i) >= Start
          /\ \/ predecessor = 0 /\ Candle(Start) = {} /\ Stops("ambiguous")
             \/ Overrun({i}) /\ Stops("overrun")
             \/ /\ predecessor = 0 => Candle(Start) # {}
                /\ ~ Overrun({i})
                /\ \E p \in Anchors :
                       Handles([mem EXCEPT !.pending = Buffered({i}), !.pc = "drain"], p)

\* closed(): a candle of a minute that is closed must agree; another one is closed.
TakesClosed ==
    /\ TakesData /\ mode \in {"range", "bars"}
    /\ \E m \in Minutes :
       \/ m < Start /\ Handles(Raised(m), predecessor)
       \/ /\ m \in Start..Cut - 1
          /\ IF Agrees(m) THEN Handles(Raised(m), predecessor) ELSE Stops("conflict")
       \/ m >= Cut /\ Handles([Raised(m) EXCEPT !.pc = "close", !.closing = m], predecessor)

Closes == mem.pc = "close"

\* The bars before the candle come from REST.
BarsClose ==
    /\ Closes /\ mode = "bars"
    /\ IF Cut < mem.closing
       THEN \E rows \in Rows(Cut, mem.closing) :
                Ends(mem, log \o [n \in 1..Cardinality(DOMAIN rows) |-> <<"time", Cut + n - 1>>],
                     rows, rows)
       ELSE Ends([mem EXCEPT !.pc = "take", !.closing = 0], Append(log, <<"time", Cut>>),
                 EndsWith(Candle(Cut)), NoRows)

RangeAnchors ==
    /\ Closes /\ mode = "range" /\ predecessor = 0
    /\ IF Candle(Start) = {} THEN Stops("ambiguous")
       ELSE \E p \in IF Cut = mem.closing THEN {Min(Candle(Start)) - 1} ELSE Predecessors :
                Becomes(mem, log, p) /\ UNCHANGED pumpVars

\* historical_minute(): a page is emitted up to the first print of a later minute, and the
\* minute closes if the row that REST has of it, read once, counts the same prints.
ClosesHistorical ==
    /\ Closes /\ mode = "range" /\ predecessor # 0 /\ Cut < mem.closing
    /\ \E ids \in Pages :
        LET later == {i \in ids : MinuteOf(i) > Cut}
            these == IF later = {} THEN ids ELSE UpTo(ids, Min(later) - 1)
            prints == mem.aggregate \cup these
            fence == Buffered({Min(later)}) \ these
        IN  IF later = {} \/ Fitting(these) # these THEN Emits(these)
            ELSE IF prints = {} THEN Stops("ambiguous")
            ELSE IF Cardinality(fence) > MaxPending THEN StopsWith("overrun", log \o Lines(these))
            ELSE \/ StopsWith("died", log \o Lines(these))
                 \/ \E rows \in Answers({Cut}) :
                    IF prints # rows[Cut]
                    THEN StopsBy("prefix", log \o Lines(these), rows)
                    ELSE Ends(Closed([mem EXCEPT !.pending = fence]),
                              log \o Lines(these) \o << <<"time", Cut>> >>, rows, rows)

\* The candle's range of ids is healed, counted and closed.
ClosesRange ==
    /\ Closes /\ mode = "range" /\ predecessor # 0 /\ Cut = mem.closing
    /\ LET prints == Candle(Cut)
           last == Max(prints)
       IN  IF prints = {} \/ last - Min(prints) + 1 # Cardinality(prints) THEN Stops("ambiguous")
           ELSE IF LastId > last THEN Stops("conflict")
           ELSE IF NextId <= last THEN \E ids \in Pages : Emits(UpTo(ids, last))
           ELSE IF mem.aggregate # prints THEN Stops("prefix")
           ELSE Ends(Closed([mem EXCEPT !.pc = "drain", !.closing = 0]),
                     Append(log, <<"time", Cut>>), EndsWith(prints), NoRows)

\* drain(): what is buffered of the open minute, after what is missing before it.
Drains ==
    /\ mem.pc = "drain"
    /\ IF mem.pending = {} THEN Returns
       ELSE IF MinuteOf(First) > Cut THEN Returns
       ELSE IF First < NextId THEN Stops("conflict")
       ELSE IF First > NextId THEN \E ids \in Pages : Emits(UpTo(ids, First - 1))
       ELSE Emits({First})

----------------------------------------------------------------------------

Init ==
    /\ tape \in Tapes /\ mode \in Modes
    /\ PumpInit
    /\ log = <<>> /\ predecessor = 0 /\ proofs = [m \in Minutes |-> {}]
    /\ mem = NewMem({}) /\ stop = "none" /\ trailed = {}

Reads ==
    /\ mem.pc # "stopped"
    /\ PumpStep
    /\ UNCHANGED <<tape, mode, log, predecessor, proofs, mem, stop, trailed>>

\* What the session does by itself.
SessionStep ==
    \/ SourceFails \/ Connected
    \/ FenceTakesPrint \/ FenceTakesCandle \/ LooksAhead \/ FenceHeals
    \/ FenceEmits \/ FenceCloses \/ AwaitsCandle
    \/ RangeTakesPrint \/ TakesClosed \/ BarsClose \/ RangeAnchors \/ ClosesHistorical
    \/ ClosesRange \/ Drains

Next == Reads \/ SessionStep \/ Dies \/ Restarts

Spec == Init /\ [][Next]_vars

\* Retries of REST end, and so does the session's work on a message, or the process.
GivesUp == mem.pc \in {"advance", "drain", "close"} /\ Dies

\* The reader tries again after its pauses, and silence ends a connection.
ReadsOn ==
    /\ mem.pc # "stopped"
    /\ Connects \/ HandshakeFails \/ Marks \/ Drained \/ BreaksUnheard
    /\ UNCHANGED <<tape, mode, log, predecessor, proofs, mem, stop, trailed>>

FairSpec == Spec /\ WF_vars(ReadsOn) /\ WF_vars(SessionStep \/ GivesUp)
=============================================================================
