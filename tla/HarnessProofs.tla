---------------------------- MODULE HarnessProofs ----------------------------
(***************************************************************************)
(* No container outlives the harness; no trade that was listed on time is  *)
(* passed over and none is delivered twice; the bars are those asked for:  *)
(* for every exchange, page, window, lateness and command line.            *)
(***************************************************************************)
EXTENDS HarnessProperties, NatSetLemmas, SequenceTheorems, FiniteSetTheorems, TLAPS

----------------------------------------------------------------------------
(* The container.                                                          *)

\* The provider is open only while bars are fetched, the directory is there only for the
\* docker command, and a container that runs is named in the cid file.
ContainerInv ==
    /\ open \in BOOLEAN /\ workspace \in BOOLEAN
    /\ open => pc = "fetch"
    /\ workspace => pc = "create"
    /\ pc = "create" => workspace
    /\ container = "running" => pc = "create" /\ cid = "written"

\* The invariant holds at the start, and every step keeps it.
LEMMA ContainerInvariance == Spec => []ContainerInv
<1>1. Init => ContainerInv
  BY DEF Init, Backtest, Live, ContainerInv
<1>2. ContainerInv /\ [Next]_vars => ContainerInv'
  <2> SUFFICES ASSUME ContainerInv, [Next]_vars PROVE ContainerInv'
    OBVIOUS
  <2> USE DEF ContainerInv
  <2>1. CASE UNCHANGED harnessVars
    BY <2>1 DEF harnessVars, dockerVars
  <2>2. CASE Resolves
    BY <2>2 DEF Resolves, dockerVars
  <2>3. CASE Selects
    BY <2>3 DEF Selects, Closes, dockerVars
  <2>4. CASE ProviderFails
    BY <2>4 DEF ProviderFails, Closes, dockerVars
  <2>5. CASE ServerAnswers
    BY <2>5 DEF ServerAnswers, dockerVars, Ended
  <2>6. CASE EnsuresImage
    BY <2>6 DEF EnsuresImage, dockerVars
  <2>7. CASE WritesInputs
    BY <2>7 DEF WritesInputs
  <2>8. CASE OpensCid
    BY <2>8 DEF OpensCid
  <2>9. CASE CreatesContainer
    BY <2>9 DEF CreatesContainer
  <2>10. CASE WritesCid
    BY <2>10 DEF WritesCid
  <2>11. CASE StartsContainer
    BY <2>11 DEF StartsContainer
  <2>12. CASE CompletesRun
    BY <2>12 DEF CompletesRun, Ended
  <2>13. CASE TimesOut
    BY <2>13 DEF TimesOut, RemovesTimedOut
  <2>14. CASE UNCHANGED vars
    BY <2>1, <2>14 DEF vars
  <2> QED
    BY <2>1, <2>2, <2>3, <2>4, <2>5, <2>6, <2>7, <2>8, <2>9, <2>10, <2>11, <2>12, <2>13, <2>14
    DEF Next, Listing, Streaming, Requests, DockerRun
<1> QED
  BY <1>1, <1>2, PTL DEF Spec

\* cli/backtest.py and docker_runtime.py: a container only runs with its inputs mounted and
\* the provider closed, and none runs on when the harness has ended, at whatever step the
\* timeout kills the docker command.
THEOREM NoContainerIsLeft == Spec => []NoStrayContainer
<1>1. ContainerInv => NoStrayContainer
  BY DEF ContainerInv, NoStrayContainer, Ended
<1> QED
  BY <1>1, ContainerInvariance, PTL

----------------------------------------------------------------------------
(* The stream of trades.                                                   *)

Trade == [ts : Nat, key : Nat, late : BOOLEAN]

StreamTypes ==
    /\ now \in Nat /\ since \in Nat /\ pollSince \in Nat /\ pollSince <= since
    /\ trades \in Seq(Trade)
    /\ page \in Seq(DOMAIN trades) /\ emitted \in Seq(DOMAIN trades) /\ seen \in Seq(Nat)
    /\ \A i \in Range(page) : Ts(i) >= pollSince

\* What is in the window was delivered.
SeenWasDelivered == \A k \in Range(seen) : \E j \in Range(emitted) : Key(j) = k

\* A trade is still ahead: of the next poll, and of what is left of the page.
IsAhead(k) == Ts(k) >= since /\ \A i \in Range(page) : Ts(i) <= Ts(k)

NoneIsPassed ==
    \A k \in DOMAIN trades :
        ~ trades[k].late => k \in Range(page) \/ Delivered(k) \/ IsAhead(k)

StreamInv == StreamTypes /\ SeenWasDelivered /\ NoneIsPassed

\* The greater of two numbers.
LEMMA MaxOfTwo ==
    ASSUME NEW a \in Nat, NEW b \in Nat
    PROVE  Max({a, b}) \in {a, b} /\ Max({a, b}) >= a /\ Max({a, b}) >= b
<1>1. {a, b} \in SUBSET Nat /\ {a, b} # {} /\ a + b \in Nat /\ \A y \in {a, b} : y <= a + b
  OBVIOUS
<1> QED
  BY <1>1, MaxOfNats

\* The times and the identities of the trades are numbers.
LEMMA TradeTypes ==
    ASSUME StreamTypes
    PROVE  Len(trades) \in Nat /\ \A i \in DOMAIN trades : Ts(i) \in Nat /\ Key(i) \in Nat
<1>1. trades \in Seq(Trade)
  BY DEF StreamTypes
<1>2. Len(trades) \in Nat /\ DOMAIN trades = 1..Len(trades)
  BY <1>1, LenProperties
<1>3. ASSUME NEW i \in DOMAIN trades PROVE Ts(i) \in Nat /\ Key(i) \in Nat
  <2>1. trades[i] \in Trade
    BY <1>1, <1>2, ElementOfSeq
  <2>2. \A r \in Trade : r.ts \in Nat /\ r.key \in Nat
    BY DEF Trade
  <2> QED BY <2>1, <2>2 DEF Ts, Key
<1> QED
  BY <1>2, <1>3

\* What an appended element and a dropped one make of the range.
LEMMA RangeOfAppend ==
    ASSUME NEW S, NEW s \in Seq(S), NEW x \in S
    PROVE  Range(Append(s, x)) = Range(s) \cup {x}
<1> DEFINE t == Append(s, x)
<1>1. /\ Len(s) \in Nat /\ DOMAIN s = 1..Len(s) /\ DOMAIN t = 1..(Len(s) + 1)
      /\ \A j \in 1..Len(s) : t[j] = s[j]
      /\ t[Len(s) + 1] = x
  BY AppendProperties, LenProperties
<1> HIDE DEF t
<1>2. DOMAIN t = DOMAIN s \cup {Len(s) + 1}
  BY <1>1
<1>3. Range(t) = Range(s) \cup {x}
  BY <1>1, <1>2 DEF Range
<1> QED
  BY <1>3 DEF t

LEMMA RangeOfTail ==
    ASSUME NEW S, NEW s \in Seq(S), s # <<>>
    PROVE  Tail(s) \in Seq(S) /\ Range(Tail(s)) \subseteq Range(s)
<1> DEFINE t == Tail(s)
<1>1. /\ Len(s) \in Nat /\ DOMAIN s = 1..Len(s)
      /\ t \in Seq(S) /\ Len(t) = Len(s) - 1 /\ DOMAIN t = 1..Len(t)
      /\ \A j \in 1..Len(t) : t[j] = s[j + 1]
  BY HeadTailProperties, LenProperties
<1> HIDE DEF t
<1>2. \A j \in DOMAIN t : t[j] \in Range(s)
  <2>1. \A j \in DOMAIN t : j + 1 \in DOMAIN s
    BY <1>1
  <2> QED BY <1>1, <2>1 DEF Range
<1>3. t \in Seq(S) /\ Range(t) \subseteq Range(s)
  BY <1>1, <1>2 DEF Range
<1> QED
  BY <1>3 DEF t

\* A trade that is listed changes nothing of those before it, and is ahead unless it is late.
LEMMA ListsKeeps ==
    ASSUME StreamInv, NEW ts \in 0..now, NEW key \in KeysAt(ts), Lists(ts, key)
    PROVE  StreamInv'
<1> USE DEF StreamInv
<1>1. key \in Nat
  <2>1. Len(trades) + 1 \in Nat /\ \A j \in DOMAIN trades : Key(j) \in Nat
    BY TradeTypes
  <2> QED BY <2>1 DEF KeysAt
<1>2. /\ trades' = Append(trades, [ts |-> ts, key |-> key, late |-> Late(ts)])
      /\ UNCHANGED <<now, candles, fetch, since, pollSince, page, seen, emitted>>
      /\ ts \in Nat /\ Late(ts) \in BOOLEAN
  BY DEF Lists, Late, StreamTypes
<1> DEFINE new == [ts |-> ts, key |-> key, late |-> Late(ts)]
<1>3. new \in Trade
  BY <1>1, <1>2 DEF Trade
<1>4. /\ trades' \in Seq(Trade) /\ Len(trades') = Len(trades) + 1
      /\ \A i \in 1..Len(trades) : trades'[i] = trades[i]
      /\ trades'[Len(trades) + 1] = new
      /\ Len(trades) \in Nat /\ DOMAIN trades = 1..Len(trades) /\ DOMAIN trades' = 1..Len(trades')
  <2> HIDE DEF new
  <2> QED BY <1>2, <1>3, AppendProperties, LenProperties DEF StreamTypes, new
<1>5. DOMAIN trades \subseteq DOMAIN trades' /\ DOMAIN trades' = DOMAIN trades \cup {Len(trades) + 1}
  BY <1>4
<1>6. \A i \in DOMAIN trades : Ts(i)' = Ts(i) /\ Key(i)' = Key(i) /\ trades'[i] = trades[i]
  BY <1>4 DEF Ts, Key
<1>7. Range(page) \subseteq DOMAIN trades /\ Range(emitted) \subseteq DOMAIN trades
  BY DEF StreamTypes, Range
<1>8. StreamTypes'
  <2>1. page \in Seq(DOMAIN trades') /\ emitted \in Seq(DOMAIN trades')
    BY <1>5, SeqMonotonic DEF StreamTypes
  <2>2. \A i \in Range(page) : Ts(i)' >= pollSince
    BY <1>6, <1>7 DEF StreamTypes
  <2> QED BY <1>2, <1>4, <2>1, <2>2 DEF StreamTypes
<1>9. SeenWasDelivered'
  BY <1>2, <1>6, <1>7 DEF SeenWasDelivered
<1>10. NoneIsPassed'
  <2> SUFFICES ASSUME NEW k \in DOMAIN trades', ~ trades'[k].late
      PROVE  k \in Range(page) \/ Delivered(k)' \/ IsAhead(k)'
    BY <1>2 DEF NoneIsPassed
  <2>1. CASE k \in DOMAIN trades
    <3>1. k \in Range(page) \/ Delivered(k) \/ IsAhead(k)
      BY <1>6, <2>1 DEF NoneIsPassed
    <3>2. Delivered(k) => Delivered(k)'
      BY <1>2, <1>6, <1>7, <2>1 DEF Delivered
    <3>3. IsAhead(k) => IsAhead(k)'
      BY <1>2, <1>6, <1>7, <2>1 DEF IsAhead
    <3> QED BY <3>1, <3>2, <3>3
  <2>2. CASE k = Len(trades) + 1
    <3>1. ~ Late(ts) /\ Ts(k)' = ts
      BY <1>4, <2>2 DEF Ts
    <3>2. ts >= since /\ \A i \in Range(page) : Ts(i) <= ts
      <4>1. \A i \in Range(page) : Ts(i) \in Nat
        BY <1>7, TradeTypes
      <4>2. ~ (ts < since) /\ \A i \in Range(page) : ~ (ts < Ts(i))
        BY <3>1 DEF Late
      <4>3. since \in Nat
        BY DEF StreamTypes
      <4> QED BY <1>2, <4>1, <4>2, <4>3
    <3>3. IsAhead(k)'
      BY <1>2, <1>6, <1>7, <3>1, <3>2 DEF IsAhead
    <3> QED BY <3>3
  <2> QED BY <1>5, <2>1, <2>2
<1> QED
  BY <1>8, <1>9, <1>10

\* A poll reads the oldest trades from since on: the others are not older.
LEMMA PollsKeeps ==
    ASSUME StreamInv, Polls
    PROVE  StreamInv'
<1> USE DEF StreamInv
<1>1. /\ page = <<>> /\ pollSince' = since
      /\ UNCHANGED <<now, candles, trades, fetch, since, seen, emitted>>
  BY DEF Polls
<1>2. PICK rows \in SUBSET Listed(since) :
          /\ IsTradesPage(rows, since)
          /\ page' \in [1..Cardinality(rows) -> rows]
          /\ Range(page') = rows
  BY DEF Polls
<1>3. rows \subseteq DOMAIN trades /\ \A i \in rows : Ts(i) >= since
  BY DEF Listed
<1>4. page' \in Seq(DOMAIN trades)
  <2>1. IsFiniteSet(DOMAIN trades)
    BY FS_Interval, LenProperties DEF StreamTypes
  <2>2. Cardinality(rows) \in Nat
    BY <1>3, <2>1, FS_Subset, FS_CardinalityType
  <2>3. page' \in [1..Cardinality(rows) -> DOMAIN trades]
    BY <1>2, <1>3
  <2> QED BY <2>2, <2>3
<1>5. StreamTypes'
  <2>1. \A i \in Range(page') : Ts(i)' >= since
    BY <1>1, <1>2, <1>3 DEF Ts
  <2>2. since <= since
    BY DEF StreamTypes
  <2> QED BY <1>1, <1>4, <2>1, <2>2 DEF StreamTypes
<1>6. SeenWasDelivered'
  BY <1>1 DEF SeenWasDelivered, Key
<1>7. NoneIsPassed'
  <2> SUFFICES ASSUME NEW k \in DOMAIN trades, ~ trades[k].late
      PROVE  k \in Range(page') \/ Delivered(k)' \/ IsAhead(k)'
    BY <1>1 DEF NoneIsPassed
  <2>1. Delivered(k) \/ Ts(k) >= since
    <3>1. Range(page) = {}
      BY <1>1 DEF Range
    <3> QED BY <3>1 DEF NoneIsPassed, IsAhead
  <2>2. CASE Delivered(k)
    BY <1>1, <2>2 DEF Delivered, Key
  <2>3. CASE Ts(k) >= since /\ k \notin rows
    <3>1. k \in Listed(since) \ rows
      BY <2>3 DEF Listed
    <3>2. \A i \in rows : Ts(i) \in Nat
      BY <1>3, TradeTypes
    <3>3. \A i \in rows : Ts(i) < Ts(k) \/ Ts(i) = Ts(k)
      BY <1>2, <3>1 DEF IsTradesPage
    <3>4. Ts(k) \in Nat
      BY TradeTypes
    <3>5. \A i \in rows : Ts(i) <= Ts(k)
      BY <3>2, <3>3, <3>4
    <3> QED BY <1>1, <1>2, <2>3, <3>5 DEF IsAhead, Ts
  <2> QED BY <1>2, <2>1, <2>2, <2>3
<1> QED
  BY <1>5, <1>6, <1>7

\* What a row leaves: the rest of the page, and a window of what was delivered.
LEMMA TakesKeeps ==
    ASSUME StreamInv, Takes
    PROVE  StreamInv'
<1> USE DEF StreamInv
<1> DEFINE i == Head(page)
<1>1. /\ page # <<>> /\ page' = Tail(page) /\ page \in Seq(DOMAIN trades)
      /\ UNCHANGED <<now, candles, trades, fetch, pollSince>>
  BY DEF Takes, StreamTypes
<1>2. /\ i \in Range(page) /\ Tail(page) \in Seq(DOMAIN trades)
      /\ Range(page) = {i} \cup Range(Tail(page))
  <2>1. Len(page) \in Nat /\ Len(page) # 0 /\ DOMAIN page = 1..Len(page)
    BY <1>1, LenProperties, EmptySeq
  <2>2. /\ i = page[1] /\ Tail(page) \in Seq(DOMAIN trades)
        /\ Len(Tail(page)) = Len(page) - 1
        /\ \A j \in 1..Len(Tail(page)) : Tail(page)[j] = page[j + 1]
    BY <1>1, HeadTailProperties
  <2>3. DOMAIN Tail(page) = 1..Len(Tail(page))
    BY <2>2, LenProperties
  <2>4. i \in Range(page)
    BY <2>1, <2>2 DEF Range
  <2>5. ASSUME NEW k \in Range(page) PROVE k = i \/ k \in Range(Tail(page))
    <3>1. PICK j \in 1..Len(page) : k = page[j]
      BY <2>1 DEF Range
    <3>2. CASE j = 1
      BY <2>2, <3>1, <3>2
    <3>3. CASE j # 1
      <4>1. j - 1 \in 1..Len(Tail(page)) /\ (j - 1) + 1 = j
        BY <2>1, <2>2, <3>3
      <4>2. k = Tail(page)[j - 1]
        BY <2>2, <3>1, <4>1
      <4> HIDE DEF i
      <4> QED BY <2>3, <4>1, <4>2 DEF Range
    <3> QED BY <3>2, <3>3
  <2>6. ASSUME NEW k \in Range(Tail(page)) PROVE k \in Range(page)
    <3>1. PICK j \in 1..Len(Tail(page)) : k = Tail(page)[j]
      BY <2>3 DEF Range
    <3>2. j + 1 \in 1..Len(page) /\ k = page[j + 1]
      BY <2>1, <2>2, <3>1
    <3> QED BY <2>1, <3>2 DEF Range
  <2> HIDE DEF i
  <2> QED BY <2>2, <2>4, <2>5, <2>6
<1> HIDE DEF i
<1>3. Range(page) \subseteq DOMAIN trades /\ i \in DOMAIN trades
  BY <1>1, <1>2 DEF Range
<1>4. \A k \in DOMAIN trades : Ts(k) \in Nat /\ Key(k) \in Nat
  BY TradeTypes
<1>5. since' = Max({since, Ts(i)}) /\ IF Key(i) \in Range(seen)
                                       THEN UNCHANGED <<seen, emitted>>
                                       ELSE Remembers(Key(i)) /\ emitted' = Append(emitted, i)
  <2>1. ~ (Ts(i) < pollSince)
    BY <1>2, <1>3, <1>4 DEF StreamTypes
  <2> QED BY <2>1 DEF Takes, Advances, i
<1>6. since' \in Nat /\ since' >= since /\ since' \in {since, Ts(i)}
  BY <1>3, <1>4, <1>5, MaxOfTwo DEF StreamTypes
<1>7. /\ emitted' \in Seq(DOMAIN trades)
      /\ Range(emitted) \subseteq Range(emitted')
      /\ Key(i) \in Range(seen) \/ i \in Range(emitted')
  <2>1. CASE Key(i) \in Range(seen)
    BY <1>5, <2>1 DEF StreamTypes
  <2>2. CASE Key(i) \notin Range(seen)
    <3>1. emitted' = Append(emitted, i) /\ emitted \in Seq(DOMAIN trades)
      BY <1>5, <2>2 DEF StreamTypes
    <3>2. emitted' \in Seq(DOMAIN trades)
      BY <1>3, <3>1, AppendProperties
    <3>3. Range(emitted') = Range(emitted) \cup {i}
      BY <1>3, <3>1, RangeOfAppend
    <3> QED BY <3>2, <3>3
  <2> QED BY <2>1, <2>2
<1>8. seen' \in Seq(Nat) /\ Range(seen') \subseteq Range(seen) \cup {Key(i)}
  <2>1. CASE Key(i) \in Range(seen)
    BY <1>5, <2>1 DEF StreamTypes
  <2>2. CASE Key(i) \notin Range(seen)
    <3> DEFINE all == Append(seen, Key(i))
    <3>1. all \in Seq(Nat) /\ all # <<>> /\ Range(all) = Range(seen) \cup {Key(i)}
      <4>1. seen \in Seq(Nat) /\ Key(i) \in Nat
        BY <1>3, <1>4 DEF StreamTypes
      <4> QED BY <4>1, AppendProperties, RangeOfAppend
    <3>2. seen' \in {all, Tail(all)}
      BY <1>5, <2>2 DEF Remembers
    <3> HIDE DEF all
    <3>3. Tail(all) \in Seq(Nat) /\ Range(Tail(all)) \subseteq Range(all)
      BY <3>1, RangeOfTail
    <3> QED BY <3>1, <3>2, <3>3
  <2> QED BY <2>1, <2>2
<1>9. StreamTypes'
  <2>1. \A k \in Range(page') : Ts(k)' >= pollSince
    BY <1>1, <1>2 DEF StreamTypes, Ts
  <2>2. pollSince <= since'
    BY <1>6 DEF StreamTypes
  <2> QED BY <1>1, <1>2, <1>6, <1>7, <1>8, <2>1, <2>2 DEF StreamTypes
<1>10. SeenWasDelivered'
  <2> SUFFICES ASSUME NEW key \in Range(seen') PROVE \E j \in Range(emitted') : Key(j) = key
    BY <1>1 DEF SeenWasDelivered, Key
  <2>1. CASE key \in Range(seen)
    BY <1>7, <2>1 DEF SeenWasDelivered
  <2>2. CASE key = Key(i)
    BY <1>7, <2>2 DEF SeenWasDelivered
  <2> QED BY <1>8, <2>1, <2>2
<1>11. NoneIsPassed'
  <2> SUFFICES ASSUME NEW k \in DOMAIN trades, ~ trades[k].late
      PROVE  k \in Range(page') \/ Delivered(k)' \/ IsAhead(k)'
    BY <1>1 DEF NoneIsPassed
  <2>1. Delivered(k)' <=> \E j \in Range(emitted') : Key(j) = Key(k)
    BY <1>1 DEF Delivered, Key
  <2>2. CASE k \in Range(page)
    <3>1. CASE k \in Range(Tail(page))
      BY <1>1, <3>1
    <3>2. CASE k = i
      BY <1>7, <2>1, <3>2 DEF SeenWasDelivered
    <3> QED BY <1>2, <2>2, <3>1, <3>2
  <2>3. CASE Delivered(k)
    BY <1>7, <2>1, <2>3 DEF Delivered
  <2>4. CASE IsAhead(k)
    <3>1. Ts(k) >= since' /\ \A j \in Range(page') : Ts(j) <= Ts(k)
      BY <1>1, <1>2, <1>6, <2>4 DEF IsAhead
    <3> QED BY <1>1, <3>1 DEF IsAhead, Ts
  <2> QED BY <2>2, <2>3, <2>4 DEF NoneIsPassed
<1> QED
  BY <1>9, <1>10, <1>11

\* The exchange's clock and the backtest leave the stream alone.
LEMMA RestKeeps ==
    ASSUME StreamInv, UNCHANGED streamVars, now' \in Nat
    PROVE  StreamInv'
<1>1. UNCHANGED <<trades, since, pollSince, page, seen, emitted>> /\ now' \in Nat
  BY DEF streamVars
<1>2. StreamTypes'
  BY <1>1 DEF StreamInv, StreamTypes, Ts
<1>3. SeenWasDelivered'
  BY <1>1 DEF StreamInv, SeenWasDelivered, Key
<1>4. NoneIsPassed'
  BY <1>1 DEF StreamInv, NoneIsPassed, Delivered, IsAhead, Ts, Key
<1> QED
  BY <1>2, <1>3, <1>4 DEF StreamInv

\* The invariant holds at the start, and every step keeps it.
LEMMA StreamInvariance == Spec => []StreamInv
<1>1. Init => StreamInv
  <2> SUFFICES ASSUME Init PROVE StreamInv
    OBVIOUS
  <2>1. now \in Nat /\ since \in {0, 1}
    BY CcxtAssumption DEF Init, Backtest, Live
  <2>2. trades = <<>> /\ page = <<>> /\ emitted = <<>> /\ seen = <<>> /\ pollSince = since
    BY DEF Init
  <2>3. Range(<<>>) = {} /\ DOMAIN <<>> = {}
    BY DEF Range
  <2>4. /\ <<>> \in Seq(Trade) /\ <<>> \in Seq(Nat) /\ \A S : <<>> \in Seq(S)
    OBVIOUS
  <2> QED BY <2>1, <2>2, <2>3, <2>4
      DEF StreamInv, StreamTypes, SeenWasDelivered, NoneIsPassed
<1>2. StreamInv /\ [Next]_vars => StreamInv'
  <2> SUFFICES ASSUME StreamInv, [Next]_vars PROVE StreamInv'
    OBVIOUS
  <2>0. now \in Nat
    BY DEF StreamInv, StreamTypes
  <2>1. CASE Listing
    BY <2>1, ListsKeeps DEF Listing
  <2>2. CASE Streaming
    BY <2>2, PollsKeeps, TakesKeeps DEF Streaming, Streams
  <2>3. CASE Goes
    <3>1. UNCHANGED streamVars /\ now' \in Nat
      BY <2>0, <2>3 DEF Goes, Ticks
    <3> QED BY <3>1, RestKeeps
  <2>4. CASE Resolves \/ Requests \/ Selects \/ ProviderFails \/ ServerAnswers
    <3>1. UNCHANGED <<streamVars, now>>
      BY <2>4 DEF Resolves, Requests, FetchesPage, Selects, ProviderFails, ServerAnswers
    <3> QED BY <2>0, <3>1, RestKeeps
  <2>5. CASE EnsuresImage \/ WritesInputs \/ DockerRun \/ TimesOut
    <3>1. UNCHANGED <<streamVars, now>>
      BY <2>5 DEF EnsuresImage, WritesInputs, DockerRun, OpensCid, CreatesContainer, WritesCid,
                  StartsContainer, CompletesRun, TimesOut
    <3> QED BY <2>0, <3>1, RestKeeps
  <2>6. CASE UNCHANGED vars
    BY <2>0, <2>6, RestKeeps DEF vars
  <2> QED BY <2>1, <2>2, <2>3, <2>4, <2>5, <2>6 DEF Next
<1> QED
  BY <1>1, <1>2, PTL DEF Spec

\* providers/ccxt.py: a trade that is listed on time is delivered, in the page that is read,
\* or listed again by the next poll, although a page is cut to its limit and the window of
\* identities forgets.
THEOREM NothingOnTimeIsPassedOver == Spec => []NothingIsPassedOver
<1>1. StreamInv => NothingIsPassedOver
  BY DEF StreamInv, NoneIsPassed, NothingIsPassedOver, IsAhead
<1> QED
  BY <1>1, StreamInvariance, PTL
----------------------------------------------------------------------------
(* The window of identities.                                               *)

\* The trades that were listed before a trade of its time.
Earlier(i) == {j \in 1..(i - 1) : Ts(j) = Ts(i)}

\* Trades of one identity have one time, and an identity is not from the future.
Identities ==
    \A i, j \in DOMAIN trades : /\ Key(i) <= i
                                /\ Key(i) = Key(j) => Ts(i) = Ts(j)

\* No page goes past the first trades of a time, whichever poll they came with.
Foremost == \A i \in Range(page) \cup Range(emitted) : Cardinality(Earlier(i)) < PageLimit

\* What was delivered is not younger than since, what is left of the page not older, and sorted.
PageIsAhead ==
    /\ \A a, b \in DOMAIN page : a < b => Ts(page[a]) <= Ts(page[b])
    /\ \A i \in Range(page) : Ts(i) >= since
    /\ \A i \in Range(emitted) : Ts(i) <= since

\* The window has the identities of the newest ticks, as many as it holds.
Window ==
    /\ Len(seen) <= Len(emitted) /\ Len(seen) <= DedupWindow
    /\ Len(seen) < DedupWindow => Len(seen) = Len(emitted)
    /\ \A k \in 1..Len(seen) : seen[k] = Key(emitted[Len(emitted) - Len(seen) + k])

ExactInv == Identities /\ Foremost /\ PageIsAhead /\ Window /\ StreamIsExact

\* The lengths and the elements of what the stream holds.
LEMMA StreamShapes ==
    ASSUME StreamTypes
    PROVE  /\ Len(trades) \in Nat /\ DOMAIN trades = 1..Len(trades) /\ IsFiniteSet(DOMAIN trades)
           /\ Len(page) \in Nat /\ DOMAIN page = 1..Len(page)
           /\ Len(emitted) \in Nat /\ DOMAIN emitted = 1..Len(emitted)
           /\ Len(seen) \in Nat /\ DOMAIN seen = 1..Len(seen)
           /\ \A k \in 1..Len(page) : page[k] \in DOMAIN trades /\ page[k] \in Range(page)
           /\ \A k \in 1..Len(emitted) :
                  emitted[k] \in DOMAIN trades /\ emitted[k] \in Range(emitted)
           /\ Range(page) \subseteq DOMAIN trades /\ Range(emitted) \subseteq DOMAIN trades
<1>1. /\ trades \in Seq(Trade) /\ page \in Seq(DOMAIN trades)
      /\ emitted \in Seq(DOMAIN trades) /\ seen \in Seq(Nat)
  BY DEF StreamTypes
<1>2. /\ Len(trades) \in Nat /\ DOMAIN trades = 1..Len(trades)
      /\ Len(page) \in Nat /\ DOMAIN page = 1..Len(page)
      /\ Len(emitted) \in Nat /\ DOMAIN emitted = 1..Len(emitted)
      /\ Len(seen) \in Nat /\ DOMAIN seen = 1..Len(seen)
  BY <1>1, LenProperties
<1>3. IsFiniteSet(DOMAIN trades)
  BY <1>2, FS_Interval
<1>4. /\ \A k \in 1..Len(page) : page[k] \in DOMAIN trades
      /\ \A k \in 1..Len(emitted) : emitted[k] \in DOMAIN trades
  BY <1>1, <1>2, ElementOfSeq
<1> QED
  BY <1>2, <1>3, <1>4 DEF Range

\* There are at most PageLimit trades of a time that are foremost.
LEMMA FewAreForemost ==
    ASSUME StreamTypes, NEW S \in SUBSET DOMAIN trades, NEW t,
           \A i \in S : Ts(i) = t /\ Cardinality(Earlier(i)) < PageLimit
    PROVE  IsFiniteSet(S) /\ Cardinality(S) <= PageLimit
<1>0. PageLimit \in Nat /\ DOMAIN trades = 1..Len(trades) /\ Len(trades) \in Nat
      /\ IsFiniteSet(DOMAIN trades)
  BY CcxtAssumption, StreamShapes
<1>1. IsFiniteSet(S) /\ Cardinality(S) \in Nat
  BY <1>0, FS_Subset, FS_CardinalityType
<1>2. CASE S = {}
  BY <1>0, <1>2, FS_EmptySet
<1>3. CASE S # {}
  <2>1. S \in SUBSET Nat /\ \A y \in S : y <= Len(trades)
    BY <1>0
  <2>2. PICK m : m = Max(S)
    OBVIOUS
  <2>3. m \in S /\ \A y \in S : m >= y
    BY <1>0, <1>3, <2>1, <2>2, MaxOfNats
  <2>4. S \ {m} \subseteq Earlier(m)
    <3> SUFFICES ASSUME NEW x \in S, x # m PROVE x \in 1..(m - 1) /\ Ts(x) = Ts(m)
      BY DEF Earlier
    <3>1. x \in 1..Len(trades) /\ m \in 1..Len(trades) /\ m >= x
      BY <1>0, <2>3
    <3>2. x \in 1..(m - 1)
      BY <1>0, <3>1
    <3> QED BY <2>3, <3>2
  <2>5. IsFiniteSet(Earlier(m)) /\ Cardinality(Earlier(m)) \in Nat
    <3>1. PICK b \in Int : b = m - 1
      BY <2>1, <2>3
    <3>2. IsFiniteSet(1..b)
      BY FS_Interval
    <3>3. Earlier(m) \subseteq 1..b
      BY <3>1 DEF Earlier
    <3> QED BY <3>2, <3>3, FS_Subset, FS_CardinalityType
  <2>6. Cardinality(S \ {m}) <= Cardinality(Earlier(m))
    BY <2>4, <2>5, FS_Subset
  <2>7. Cardinality(S \ {m}) = Cardinality(S) - 1
    BY <1>1, <2>3, FS_RemoveElement
  <2>8. Cardinality(Earlier(m)) < PageLimit
    BY <2>3
  <2> QED BY <1>0, <1>1, <2>5, <2>6, <2>7, <2>8
<1> QED BY <1>2, <1>3

\* A row of the page that was delivered before is in the window.
LEMMA WindowRemembers ==
    ASSUME StreamTypes, ExactInv, NEW i \in Range(page), NEW j \in DOMAIN emitted,
           Key(emitted[j]) = Key(i)
    PROVE  Key(i) \in Range(seen)
<1> DEFINE n == Len(emitted)
           t == Ts(i)
           S == {emitted[m] : m \in j..n}
<1>0. /\ n \in Nat /\ DOMAIN emitted = 1..n /\ j \in 1..n
      /\ Len(seen) \in Nat /\ DOMAIN seen = 1..Len(seen)
      /\ \A m \in 1..n : emitted[m] \in DOMAIN trades /\ emitted[m] \in Range(emitted)
      /\ i \in DOMAIN trades /\ since \in Nat
      /\ PageLimit \in Nat /\ DedupWindow \in Nat /\ PageLimit <= DedupWindow
  BY StreamShapes, CcxtAssumption DEF StreamTypes
<1>1. \A k \in DOMAIN trades : Ts(k) \in Nat
  BY TradeTypes
<1>2. Ts(emitted[j]) = t
  BY <1>0 DEF ExactInv, Identities
<1>3. t >= since /\ \A m \in 1..n : Ts(emitted[m]) <= since
  BY <1>0 DEF ExactInv, PageIsAhead
<1>4. \A m \in j..n : Ts(emitted[m]) = t
  <2> SUFFICES ASSUME NEW m \in j..n PROVE Ts(emitted[m]) = t
    OBVIOUS
  <2>1. m \in 1..n /\ (m = j \/ j < m)
    BY <1>0
  <2>2. m = j \/ Ts(emitted[j]) <= Ts(emitted[m])
    BY <1>0, <2>1 DEF ExactInv, StreamIsExact
  <2>3. Ts(emitted[m]) \in Nat /\ t \in Nat
    BY <1>0, <1>1, <2>1
  <2>4. Ts(emitted[m]) <= since
    BY <1>3, <2>1
  <2> HIDE DEF t
  <2> QED BY <1>0, <1>2, <1>3, <2>2, <2>3, <2>4
<1>5. IsFiniteSet(S) /\ Cardinality(S) <= PageLimit
  <2>1. \A x \in S : x \in DOMAIN trades /\ Ts(x) = t /\ Cardinality(Earlier(x)) < PageLimit
    <3> SUFFICES ASSUME NEW m \in j..n
                 PROVE  /\ emitted[m] \in DOMAIN trades /\ Ts(emitted[m]) = t
                        /\ Cardinality(Earlier(emitted[m])) < PageLimit
      OBVIOUS
    <3>1. m \in 1..n
      BY <1>0
    <3> QED BY <1>0, <1>4, <3>1 DEF ExactInv, Foremost
  <2>2. PICK T : T = S
    OBVIOUS
  <2>3. T \in SUBSET DOMAIN trades /\ \A x \in T : Ts(x) = t /\ Cardinality(Earlier(x)) < PageLimit
    BY <2>1, <2>2
  <2> HIDE DEF S, t
  <2> QED BY <2>2, <2>3, FewAreForemost
<1>6. n - j + 1 <= Cardinality(S)
  <2> DEFINE f == [m \in j..n |-> emitted[m]]
  <2>1. f \in [j..n -> S]
    OBVIOUS
  <2>2. ASSUME NEW a \in j..n, NEW b \in j..n, a # b PROVE f[a] # f[b]
    <3>1. a \in 1..n /\ b \in 1..n /\ (a < b \/ b < a)
      BY <1>0, <2>2
    <3>2. Key(emitted[a]) # Key(emitted[b])
      BY <1>0, <3>1 DEF ExactInv, StreamIsExact
    <3> QED BY <3>2
  <2>3. f \in Injection(j..n, S)
    <3> HIDE DEF f, S
    <3> QED BY <2>1, <2>2 DEF Injection, IsInjective
  <2>4. Cardinality(j..n) <= Cardinality(S)
    <3> HIDE DEF f, S
    <3> QED BY <1>5, <2>3, FS_Injection
  <2>5. Cardinality(j..n) = n - j + 1
    <3>1. j \in Int /\ n \in Int /\ j <= n
      BY <1>0
    <3> HIDE DEF n
    <3>2. Cardinality(j..n) = IF j > n THEN 0 ELSE n - j + 1
      BY <3>1, FS_Interval
    <3> QED BY <3>1, <3>2
  <2> QED BY <2>4, <2>5
<1>7. Cardinality(S) \in Nat
  BY <1>5, FS_CardinalityType
<1>8. n - j + 1 <= DedupWindow
  <2> HIDE DEF S, n
  <2> QED BY <1>0, <1>5, <1>6, <1>7
<1>9. /\ Len(seen) <= n /\ (Len(seen) < DedupWindow => Len(seen) = n)
      /\ Len(seen) <= DedupWindow
      /\ \A k \in 1..Len(seen) : seen[k] = Key(emitted[n - Len(seen) + k])
  BY DEF ExactInv, Window
<1> DEFINE k == j - (n - Len(seen))
<1>10. k \in 1..Len(seen) /\ n - Len(seen) + k = j
  <2>1. PICK l \in Nat : l = Len(seen)
    BY <1>0
  <2>2. n \in Nat /\ j \in 1..n /\ DedupWindow \in Nat
    BY <1>0
  <2>3. l <= n /\ (l < DedupWindow => l = n) /\ l <= DedupWindow
    BY <1>9, <2>1
  <2> HIDE DEF n
  <2>4. j - (n - l) \in 1..l /\ n - l + (j - (n - l)) = j
    BY <1>8, <2>2, <2>3
  <2> QED BY <2>1, <2>4
<1>11. seen[k] = Key(i)
  <2> HIDE DEF k, n
  <2> QED BY <1>9, <1>10
<1> QED
  <2> HIDE DEF k
  <2> QED BY <1>0, <1>10, <1>11 DEF Range

\* A listed trade changes nothing of those before it.
LEMMA ListsIsExact ==
    ASSUME StreamTypes, ExactInv, NEW ts \in 0..now, NEW key \in KeysAt(ts), Lists(ts, key)
    PROVE  ExactInv'
<1> DEFINE new == [ts |-> ts, key |-> key, late |-> Late(ts)]
<1>0. PICK n \in Nat : n = Len(trades)
  BY StreamShapes
<1>1. /\ trades' = Append(trades, new)
      /\ UNCHANGED <<since, page, seen, emitted>>
  BY DEF Lists
<1>2. /\ n \in Nat /\ DOMAIN trades = 1..n
      /\ Range(page) \subseteq DOMAIN trades /\ Range(emitted) \subseteq DOMAIN trades
      /\ Len(page) \in Nat /\ DOMAIN page = 1..Len(page)
      /\ Len(emitted) \in Nat /\ DOMAIN emitted = 1..Len(emitted)
      /\ Len(seen) \in Nat
      /\ \A k \in 1..Len(page) : page[k] \in DOMAIN trades
      /\ \A k \in 1..Len(emitted) : emitted[k] \in DOMAIN trades
  BY <1>0, StreamShapes
<1>3. \A i \in DOMAIN trades : Ts(i) \in Nat /\ Key(i) \in Nat
  BY TradeTypes
<1>4. key \in Nat
  BY <1>0, <1>2, <1>3 DEF KeysAt
<1>5. new \in Trade
  BY <1>4 DEF Late, Trade, StreamTypes
<1>6. /\ DOMAIN trades' = 1..(n + 1)
      /\ \A i \in 1..n : trades'[i] = trades[i]
      /\ trades'[n + 1] = new
  <2> HIDE DEF new
  <2>1. trades \in Seq(Trade)
    BY DEF StreamTypes
  <2> QED BY <1>0, <1>1, <1>5, <2>1, AppendProperties, LenProperties
<1>7. /\ \A i \in 1..n : Ts(i)' = Ts(i) /\ Key(i)' = Key(i)
      /\ Ts(n + 1)' = ts /\ Key(n + 1)' = key
  BY <1>6 DEF Ts, Key, new
<1> HIDE DEF new
<1>8. key <= n + 1 /\ \A i \in 1..n : Key(i) = key => Ts(i) = ts
  <2>1. \A i \in 1..n : Key(i) <= i /\ Key(i) \in Nat
    BY <1>2, <1>3 DEF ExactInv, Identities
  <2>2. CASE key = n + 1
    BY <1>2, <2>1, <2>2
  <2>3. CASE key # n + 1
    <3>1. PICK j \in 1..n : Ts(j) = ts /\ key = Key(j)
      BY <1>0, <1>2, <2>3 DEF KeysAt
    <3>2. \A i \in 1..n : Key(i) = key => Ts(i) = ts
      BY <1>2, <3>1 DEF ExactInv, Identities
    <3>3. key <= j /\ j <= n
      BY <1>2, <2>1, <3>1
    <3> QED BY <1>2, <1>4, <3>2, <3>3
  <2> QED BY <2>2, <2>3
<1>9. Identities'
  <2>1. \A i \in 1..n : Key(i)' <= i
    BY <1>2, <1>7 DEF ExactInv, Identities
  <2>2. \A i, j \in 1..n : Key(i)' = Key(j)' => Ts(i)' = Ts(j)'
    BY <1>2, <1>7 DEF ExactInv, Identities
  <2>3. \A i \in 1..n : Key(i)' = Key(n + 1)' => Ts(i)' = Ts(n + 1)'
    BY <1>7, <1>8
  <2>4. \A i \in 1..(n + 1) : i \in 1..n \/ i = n + 1
    BY <1>2
  <2> QED BY <1>6, <1>7, <1>8, <2>1, <2>2, <2>3, <2>4 DEF Identities
<1>10. \A i \in 1..n : Earlier(i)' = Earlier(i)
  <2> SUFFICES ASSUME NEW i \in 1..n PROVE Earlier(i)' = Earlier(i)
    OBVIOUS
  <2>1. \A j \in 1..(i - 1) : j \in 1..n
    BY <1>2
  <2> QED BY <1>7, <2>1 DEF Earlier
<1>11. Foremost'
  BY <1>1, <1>2, <1>10 DEF ExactInv, Foremost
<1>12. PageIsAhead'
  <2>1. \A i \in Range(page) \cup Range(emitted) : Ts(i)' = Ts(i)
    BY <1>2, <1>7
  <2>2. \A a \in DOMAIN page : Ts(page[a])' = Ts(page[a])
    BY <1>1, <1>2, <1>7 DEF Ts
  <2> QED BY <1>1, <2>1, <2>2 DEF ExactInv, PageIsAhead
<1>13. \A a \in DOMAIN emitted : Ts(emitted[a])' = Ts(emitted[a]) /\ Key(emitted[a])' = Key(emitted[a])
  BY <1>1, <1>2, <1>6 DEF Ts, Key
<1>14. Window'
  <2>1. ASSUME NEW k \in 1..Len(seen)
        PROVE  seen[k] = Key(emitted[Len(emitted) - Len(seen) + k])'
    <3>1. Len(seen) <= Len(emitted) /\ seen[k] = Key(emitted[Len(emitted) - Len(seen) + k])
      BY DEF ExactInv, Window
    <3>2. Len(emitted) - Len(seen) + k \in DOMAIN emitted
      BY <1>2, <3>1
    <3>3. PICK m \in DOMAIN emitted : m = Len(emitted) - Len(seen) + k
      BY <3>2
    <3>4. seen[k] = Key(emitted[m])'
      BY <1>13, <3>1, <3>3
    <3>5. m = (Len(emitted) - Len(seen) + k)'
      BY <1>1, <3>3
    <3> QED BY <3>4, <3>5
  <2> QED BY <1>1, <2>1 DEF ExactInv, Window
<1>15. StreamIsExact'
  BY <1>1, <1>13 DEF ExactInv, StreamIsExact
<1> QED BY <1>9, <1>11, <1>12, <1>14, <1>15 DEF ExactInv

\* A page holds the trades of a time from the first on.
LEMMA PollsIsExact ==
    ASSUME StreamTypes, ExactInv, Polls
    PROVE  ExactInv'
<1>1. /\ page = <<>> /\ UNCHANGED <<trades, since, seen, emitted>>
  BY DEF Polls
<1>2. PICK rows \in SUBSET Listed(since) :
          /\ IsTradesPage(rows, since)
          /\ \E order \in [1..Cardinality(rows) -> rows] :
                  /\ Range(order) = rows
                  /\ \A i, j \in DOMAIN order : i < j => Ts(order[i]) <= Ts(order[j])
                  /\ page' = order
  BY DEF Polls
<1>3. /\ DOMAIN trades = 1..Len(trades) /\ Len(trades) \in Nat /\ IsFiniteSet(DOMAIN trades)
      /\ \A i \in DOMAIN trades : Ts(i) \in Nat
  BY StreamShapes, TradeTypes
<1>4. /\ rows \subseteq DOMAIN trades /\ \A i \in rows : Ts(i) >= since
      /\ IsFiniteSet(rows) /\ Cardinality(rows) \in Nat
  <2>1. rows \subseteq DOMAIN trades /\ \A i \in rows : Ts(i) >= since
    BY DEF Listed
  <2> QED BY <1>3, <2>1, FS_Subset, FS_CardinalityType
<1>5. \A i \in DOMAIN trades : Ts(i)' = Ts(i) /\ Key(i)' = Key(i) /\ Earlier(i)' = Earlier(i)
  BY <1>1 DEF Ts, Key, Earlier
<1>6. ASSUME NEW i \in rows PROVE Cardinality(Earlier(i)) < PageLimit
  <2>1. Earlier(i) \subseteq rows \ {i}
    <3> SUFFICES ASSUME NEW j \in 1..(i - 1), Ts(j) = Ts(i) PROVE j \in rows \ {i}
      BY DEF Earlier
    <3>1. j \in DOMAIN trades /\ j < i /\ i \in DOMAIN trades /\ Ts(j) >= since
      BY <1>3, <1>4
    <3>2. ASSUME j \notin rows PROVE FALSE
      <4>1. j \in Listed(since) \ rows
        BY <3>1, <3>2 DEF Listed
      <4>2. Ts(i) < Ts(j) \/ (Ts(i) = Ts(j) /\ i < j)
        BY <1>2, <4>1 DEF IsTradesPage
      <4>3. Ts(i) \in Nat /\ i \in Nat
        BY <1>3, <3>1
      <4> QED BY <3>1, <4>2, <4>3
    <3> QED BY <3>1, <3>2
  <2>2. IsFiniteSet(rows \ {i}) /\ Cardinality(rows \ {i}) = Cardinality(rows) - 1
    BY <1>4, FS_RemoveElement
  <2>3. Cardinality(Earlier(i)) \in Nat /\ Cardinality(Earlier(i)) <= Cardinality(rows \ {i})
    BY <2>1, <2>2, FS_Subset, FS_CardinalityType
  <2>4. Cardinality(rows) <= PageLimit /\ PageLimit \in Nat
    BY <1>2, CcxtAssumption DEF IsTradesPage
  <2> QED BY <1>4, <2>2, <2>3, <2>4
<1>7. /\ Range(page') = rows
      /\ \A a, b \in DOMAIN page' : a < b => Ts(page'[a]) <= Ts(page'[b])
      /\ \A a \in DOMAIN page' : page'[a] \in rows
  BY <1>2
<1>8. Range(emitted) \subseteq DOMAIN trades
  BY StreamShapes
<1>9. Foremost'
  BY <1>1, <1>4, <1>5, <1>6, <1>7, <1>8 DEF ExactInv, Foremost
<1>10. PageIsAhead'
  BY <1>1, <1>4, <1>7 DEF ExactInv, PageIsAhead, Ts
<1>11. Identities' /\ Window' /\ StreamIsExact'
  BY <1>1 DEF ExactInv, Identities, Window, StreamIsExact, Ts, Key
<1> QED BY <1>9, <1>10, <1>11 DEF ExactInv

\* A row that is delivered is the newest, and its identity is new.
LEMMA TakesIsExact ==
    ASSUME StreamTypes, ExactInv, Takes
    PROVE  ExactInv'
<1>1. /\ page # <<>> /\ page' = Tail(page) /\ page \in Seq(DOMAIN trades)
      /\ UNCHANGED <<trades, pollSince>>
  BY DEF Takes, StreamTypes
<1>2. /\ Len(page) \in Nat /\ DOMAIN page = 1..Len(page)
      /\ \A k \in 1..Len(page) : page[k] \in DOMAIN trades /\ page[k] \in Range(page)
      /\ Range(page) \subseteq DOMAIN trades /\ Range(emitted) \subseteq DOMAIN trades
      /\ \A k \in DOMAIN trades : Ts(k) \in Nat /\ Key(k) \in Nat
      /\ since \in Nat /\ pollSince <= since /\ pollSince \in Nat
  BY StreamShapes, TradeTypes DEF StreamTypes
<1>3. /\ Len(page) # 0 /\ Head(page) = page[1]
      /\ DOMAIN page' = 1..(Len(page) - 1)
      /\ \A k \in 1..(Len(page) - 1) : page'[k] = page[k + 1]
  <2>1. /\ Head(page) = page[1] /\ Tail(page) \in Seq(DOMAIN trades)
        /\ Len(Tail(page)) = Len(page) - 1
        /\ \A k \in 1..Len(Tail(page)) : Tail(page)[k] = page[k + 1]
    BY <1>1, HeadTailProperties
  <2>2. DOMAIN Tail(page) = 1..Len(Tail(page))
    BY <2>1, LenProperties
  <2> QED BY <1>1, <1>2, <2>1, <2>2, EmptySeq
<1>4. PICK i : i = Head(page)
  OBVIOUS
<1>5. i = page[1] /\ i \in Range(page) /\ i \in DOMAIN trades /\ Ts(i) >= since
  BY <1>2, <1>3, <1>4 DEF ExactInv, PageIsAhead
<1>6. /\ since' = Ts(i)
      /\ IF Key(i) \in Range(seen) THEN UNCHANGED <<seen, emitted>>
                                   ELSE Remembers(Key(i)) /\ emitted' = Append(emitted, i)
  <2>1. ~ (Ts(i) < pollSince)
    BY <1>2, <1>5
  <2>2. /\ since' = Max({since, Ts(i)})
        /\ IF Key(i) \in Range(seen) THEN UNCHANGED <<seen, emitted>>
                                     ELSE Remembers(Key(i)) /\ emitted' = Append(emitted, i)
    BY <1>4, <2>1 DEF Takes, Advances
  <2>3. Max({since, Ts(i)}) = Ts(i)
    BY <1>2, <1>5, MaxOfTwo
  <2> QED BY <2>2, <2>3
<1>7. \A k \in DOMAIN trades : Ts(k)' = Ts(k) /\ Key(k)' = Key(k) /\ Earlier(k)' = Earlier(k)
  BY <1>1 DEF Ts, Key, Earlier
<1>8. Identities'
  BY <1>1 DEF ExactInv, Identities, Ts, Key
<1>9. /\ Range(page') \subseteq Range(page)
      /\ \A k \in Range(page') : Ts(k) >= Ts(i)
      /\ \A a, b \in DOMAIN page' : a < b => Ts(page'[a]) <= Ts(page'[b])
  <2>1. \A k \in DOMAIN page' : k + 1 \in 1..Len(page) /\ page'[k] = page[k + 1] /\ 1 < k + 1
    BY <1>2, <1>3
  <2>2. \A k \in DOMAIN page' : page'[k] \in Range(page) /\ Ts(page[1]) <= Ts(page'[k])
    BY <1>2, <1>3, <2>1 DEF ExactInv, PageIsAhead
  <2>3. \A k \in DOMAIN page' : page'[k] \in Range(page) /\ Ts(page'[k]) >= Ts(i)
    BY <1>2, <1>5, <2>2
  <2>4. \A a, b \in DOMAIN page' : a < b => a + 1 < b + 1
    BY <1>2, <1>3
  <2>5. \A a, b \in DOMAIN page' : a < b => Ts(page'[a]) <= Ts(page'[b])
    BY <1>2, <2>1, <2>4 DEF ExactInv, PageIsAhead
  <2> QED BY <2>3, <2>5 DEF Range
<1>10. CASE Key(i) \in Range(seen)
  <2>1. UNCHANGED <<seen, emitted>>
    BY <1>6, <1>10
  <2>2. Foremost'
    BY <1>2, <1>7, <1>9, <2>1 DEF ExactInv, Foremost
  <2>3. PageIsAhead'
    <3>1. \A k \in Range(emitted) : Ts(k) <= Ts(i)
      BY <1>2, <1>5 DEF ExactInv, PageIsAhead
    <3> QED BY <1>1, <1>6, <1>9, <2>1, <3>1 DEF PageIsAhead, Ts
  <2>4. Window' /\ StreamIsExact'
    BY <1>1, <2>1 DEF ExactInv, Window, StreamIsExact, Ts, Key
  <2> QED BY <1>8, <2>2, <2>3, <2>4 DEF ExactInv
<1>11. CASE Key(i) \notin Range(seen)
  <2>1. PICK n \in Nat, l \in Nat : n = Len(emitted) /\ l = Len(seen)
    BY StreamShapes
  <2>2. /\ DOMAIN emitted = 1..n /\ DOMAIN seen = 1..l
        /\ \A k \in 1..n : emitted[k] \in DOMAIN trades /\ emitted[k] \in Range(emitted)
        /\ seen \in Seq(Nat) /\ emitted \in Seq(DOMAIN trades)
        /\ DedupWindow \in Nat
    BY <2>1, StreamShapes, CcxtAssumption DEF StreamTypes
  <2>3. emitted' = Append(emitted, i) /\ Remembers(Key(i))
    BY <1>6, <1>11
  <2>4. /\ Len(emitted') = n + 1 /\ DOMAIN emitted' = 1..(n + 1)
        /\ \A k \in 1..n : emitted'[k] = emitted[k]
        /\ emitted'[n + 1] = i
        /\ Range(emitted') = Range(emitted) \cup {i}
    BY <1>5, <2>1, <2>2, <2>3, AppendProperties, RangeOfAppend, LenProperties
  <2>5. Foremost'
    BY <1>2, <1>5, <1>7, <1>9, <2>4 DEF ExactInv, Foremost
  <2>6. PageIsAhead'
    <3>1. \A k \in Range(emitted') : Ts(k) <= Ts(i)
      BY <1>2, <1>5, <2>4 DEF ExactInv, PageIsAhead
    <3> QED BY <1>1, <1>6, <1>9, <3>1 DEF PageIsAhead, Ts
  <2>7. Window'
    <3> DEFINE all == Append(seen, Key(i))
    <3>1. /\ all \in Seq(Nat) /\ Len(all) = l + 1 /\ all # <<>>
          /\ \A k \in 1..l : all[k] = seen[k]
          /\ all[l + 1] = Key(i)
      <4>1. Key(i) \in Nat /\ seen \in Seq(Nat) /\ Len(seen) = l
        BY <1>2, <1>5, <2>1, <2>2
      <4>2. PICK key \in Nat : key = Key(i)
        BY <4>1
      <4>3. /\ Append(seen, key) \in Seq(Nat) /\ Len(Append(seen, key)) = l + 1
            /\ \A k \in 1..l : Append(seen, key)[k] = seen[k]
            /\ Append(seen, key)[l + 1] = key
        BY <4>1, AppendProperties
      <4>4. Append(seen, key) # <<>>
        BY <2>1, <4>3, EmptySeq
      <4>5. all = Append(seen, key)
        BY <4>2
      <4> HIDE DEF all
      <4> QED BY <4>2, <4>3, <4>4, <4>5
    <3>2. seen' = IF Len(all) > DedupWindow THEN Tail(all) ELSE all
      BY <2>3 DEF Remembers
    <3>3. /\ l <= n /\ l <= DedupWindow /\ (l < DedupWindow => l = n)
          /\ \A k \in 1..l : seen[k] = Key(emitted[n - l + k])
      BY <2>1 DEF ExactInv, Window
    <3> HIDE DEF all
    <3>4. CASE l = DedupWindow
      <4>1. seen' = Tail(all)
        BY <3>1, <3>2, <3>4
      <4>2. Len(seen') = l /\ \A k \in 1..l : seen'[k] = all[k + 1]
        BY <3>1, <4>1, HeadTailProperties
      <4>3. ASSUME NEW k \in 1..l PROVE seen'[k] = Key(emitted'[n + 1 - l + k])
        <5>1. CASE k = l
          <6>1. seen'[k] = Key(i) /\ n + 1 - l + k = n + 1
            BY <3>1, <4>2, <5>1
          <6> QED BY <2>4, <6>1
        <5>2. CASE k # l
          <6>1. k + 1 \in 1..l /\ n - l + (k + 1) = n + 1 - l + k /\ n + 1 - l + k \in 1..n
            BY <3>3, <5>2
          <6>2. PICK m \in 1..n : m = n + 1 - l + k
            BY <6>1
          <6>3. seen'[k] = Key(emitted[m]) /\ emitted[m] \in DOMAIN trades
            BY <2>2, <3>1, <3>3, <4>2, <6>1, <6>2
          <6> QED BY <2>4, <6>2, <6>3
        <5> QED BY <5>1, <5>2
      <4> QED BY <1>1, <2>4, <3>3, <3>4, <4>2, <4>3 DEF Window, Key
    <3>5. CASE l # DedupWindow
      <4>1. l = n /\ l < DedupWindow /\ seen' = all /\ Len(seen') = n + 1
        BY <2>2, <3>1, <3>2, <3>3, <3>5
      <4>2. ASSUME NEW k \in 1..(n + 1) PROVE seen'[k] = Key(emitted'[k])
        <5>1. CASE k = n + 1
          BY <2>4, <3>1, <4>1, <5>1
        <5>2. CASE k # n + 1
          <6>1. k \in 1..n /\ n - l + k = k
            BY <4>1, <5>2
          <6> QED BY <2>4, <3>1, <3>3, <4>1, <6>1
        <5> QED BY <5>1, <5>2
      <4>3. \A k \in 1..(n + 1) : n + 1 - (n + 1) + k = k
        OBVIOUS
      <4> QED BY <1>1, <2>2, <2>4, <4>1, <4>2, <4>3 DEF Window, Key
    <3> QED BY <3>4, <3>5
  <2>8. StreamIsExact'
    <3> SUFFICES ASSUME NEW a \in 1..(n + 1), NEW b \in 1..(n + 1), a < b
                 PROVE  /\ Ts(emitted'[a]) <= Ts(emitted'[b])
                        /\ Key(emitted'[a]) # Key(emitted'[b])
      BY <1>1, <2>4 DEF StreamIsExact, Ts, Key
    <3>1. a \in 1..n
      OBVIOUS
    <3>2. CASE b \in 1..n
      BY <2>2, <2>4, <3>1, <3>2 DEF ExactInv, StreamIsExact
    <3>3. CASE b = n + 1
      <4>1. Ts(emitted[a]) <= since
        BY <2>2, <3>1 DEF ExactInv, PageIsAhead
      <4>2. Ts(emitted[a]) <= Ts(i)
        BY <1>2, <1>5, <2>2, <3>1, <4>1
      <4>3. Key(emitted[a]) # Key(i)
        BY <1>5, <1>11, <2>2, <3>1, WindowRemembers
      <4> QED BY <2>4, <3>1, <3>3, <4>2, <4>3
    <3> QED BY <3>2, <3>3
  <2> QED BY <1>8, <2>5, <2>6, <2>7, <2>8 DEF ExactInv
<1> QED BY <1>10, <1>11

\* The invariant holds at the start, and every step keeps it.
LEMMA ExactInvariance == Spec => []ExactInv
<1>1. Init => ExactInv
  <2> SUFFICES ASSUME Init PROVE ExactInv
    OBVIOUS
  <2>1. trades = <<>> /\ page = <<>> /\ emitted = <<>> /\ seen = <<>> /\ DedupWindow \in Nat
    BY CcxtAssumption DEF Init
  <2>2. Range(<<>>) = {} /\ DOMAIN <<>> = {} /\ Len(<<>>) = 0
    BY DEF Range
  <2> QED BY <2>1, <2>2
      DEF ExactInv, Identities, Foremost, PageIsAhead, Window, StreamIsExact
<1>2. StreamTypes /\ ExactInv /\ [Next]_vars => ExactInv'
  <2> SUFFICES ASSUME StreamTypes, ExactInv, [Next]_vars PROVE ExactInv'
    OBVIOUS
  <2>1. CASE Listing
    BY <2>1, ListsIsExact DEF Listing
  <2>2. CASE Streaming
    BY <2>2, PollsIsExact, TakesIsExact DEF Streaming, Streams
  <2>3. CASE UNCHANGED streamVars
    BY <2>3 DEF streamVars, ExactInv, Identities, Foremost, Earlier, PageIsAhead, Window,
                StreamIsExact, Ts, Key
  <2>4. CASE Goes \/ Resolves \/ Requests \/ Selects \/ ProviderFails \/ ServerAnswers
    BY <2>3, <2>4 DEF Goes, Ticks, Resolves, Requests, FetchesPage, Selects, ProviderFails,
                      ServerAnswers
  <2>5. CASE EnsuresImage \/ WritesInputs \/ DockerRun \/ TimesOut
    BY <2>3, <2>5 DEF EnsuresImage, WritesInputs, DockerRun, OpensCid, CreatesContainer,
                      WritesCid, StartsContainer, CompletesRun, TimesOut
  <2>6. CASE UNCHANGED vars
    BY <2>3, <2>6 DEF vars
  <2> QED BY <2>1, <2>2, <2>4, <2>5, <2>6 DEF Next
<1>3. StreamInv => StreamTypes
  BY DEF StreamInv
<1> QED
  BY <1>1, <1>2, <1>3, StreamInvariance, PTL DEF Spec

\* providers/ccxt.py: no trade is delivered twice and times never decrease, although every
\* poll starts at the newest time and the window forgets: it holds a page, and no page goes
\* past the first page of a time.
THEOREM NoTickTwice == Spec => []StreamIsExact
<1>1. ExactInv => StreamIsExact
  BY DEF ExactInv
<1> QED
  BY <1>1, ExactInvariance, PTL

----------------------------------------------------------------------------
(* Elements of a sequence.                                                 *)

\* The elements at some places of an increasing sequence increase.
LEMMA ElementsIncrease ==
    ASSUME NEW m \in Nat, NEW s \in [1..m -> Nat], Increases(s), NEW P \in SUBSET (1..m),
           NEW t, t = Elements(s, P)
    PROVE  /\ t \in Seq(Nat) /\ Increases(t)
           /\ \A x : x \in Range(t) <=> \E i \in P : s[i] = x
<1>1. P \in SUBSET Nat /\ IsFiniteSet(P)
  <2>1. IsFiniteSet(1..m)
    BY FS_Interval
  <2>2. PICK N : N = 1..m
    OBVIOUS
  <2>3. P \in SUBSET N /\ IsFiniteSet(N)
    BY <2>1, <2>2
  <2>4. IsFiniteSet(P)
    BY <2>3, FS_Subset
  <2>5. \A x \in P : x \in Nat
    OBVIOUS
  <2> QED BY <2>4, <2>5
<1>2. PICK o : o = Ordered(P)
  OBVIOUS
<1>3. PICK n \in Nat : n = Cardinality(P)
  BY <1>1, FS_CardinalityType
<1>4. /\ o \in [1..n -> P] /\ Increases(o)
      /\ \A x \in P : \E i \in 1..n : o[i] = x
  BY <1>1, <1>2, <1>3, OrderedSorts
<1>5. t = [k \in 1..n |-> s[o[k]]]
  BY <1>2, <1>3 DEF Elements
<1>6. t \in [1..n -> Nat]
  BY <1>4, <1>5
<1>7. \A i, j \in 1..n : i < j => t[i] < t[j]
  <2> SUFFICES ASSUME NEW i \in 1..n, NEW j \in 1..n, i < j PROVE t[i] < t[j]
    OBVIOUS
  <2>1. DOMAIN o = 1..n /\ DOMAIN s = 1..m
    BY <1>4
  <2>2. o[i] < o[j] /\ o[i] \in 1..m /\ o[j] \in 1..m
    BY <1>4, <2>1 DEF Increases
  <2>3. s[o[i]] < s[o[j]]
    BY <2>1, <2>2 DEF Increases
  <2> QED BY <1>5, <2>3
<1>8. ASSUME NEW x PROVE x \in Range(t) <=> \E i \in P : s[i] = x
  <2>1. DOMAIN t = 1..n
    BY <1>5
  <2>2. x \in Range(t) => \E i \in P : s[i] = x
    <3> SUFFICES ASSUME NEW k \in 1..n, x = t[k] PROVE \E i \in P : s[i] = x
      BY <2>1 DEF Range
    <3>1. o[k] \in P /\ s[o[k]] = x
      BY <1>4, <1>5
    <3> QED BY <3>1
  <2>3. ASSUME NEW i \in P, s[i] = x PROVE x \in Range(t)
    <3>1. PICK k \in 1..n : o[k] = i
      BY <1>4
    <3>2. t[k] = x
      BY <1>5, <2>3, <3>1
    <3> QED BY <2>1, <3>2 DEF Range
  <2> QED BY <2>2, <2>3
<1> QED
  BY <1>6, <1>7, <1>8 DEF Increases

----------------------------------------------------------------------------
(* The bars of a backtest.                                                 *)

\* A bar of the request: closed when it was asked for, and before the end.
Closed(c) == c + Frame <= fetch.observed /\ c < args.end

\* Why the fetch ended.
Exhausted ==
    \/ fetch.cursor >= fetch.end
    \/ fetch.limit # 0 /\ Cardinality(fetch.bars) >= fetch.limit
    \/ \A c \in candles : Closed(c) => c < fetch.cursor

\* The fetch has every bar from its start to the cursor.
Asked ==
    /\ fetch.pc \in {"page", "done"}
    /\ fetch.start = WarmupStart /\ fetch.end = args.end /\ fetch.limit = RequestLimit
    /\ fetch.observed <= now
    /\ fetch.bars = {c \in candles : Closed(c) /\ fetch.start <= c /\ c < fetch.cursor}
    /\ fetch.pc = "done" => Exhausted

BarTypes ==
    /\ now \in Nat /\ candles \in SUBSET Opens
    /\ fetch \in [pc : {"idle", "page", "done"}, start : Nat, end : Nat, limit : Nat,
                   observed : Nat, cursor : Nat, bars : SUBSET Nat]
    /\ args.start \in Nat /\ args.end \in Nat /\ args.limit \in Nat /\ args.warmup \in Nat

BarsInv ==
    /\ BarTypes
    /\ pc \in {"resolve", "fetch", "live"} => bars = <<>>
    /\ pc \notin {"resolve", "live"} => Asked
    /\ bars # <<>> => fetch.pc = "done" /\ bars = Selected

\* The greater of zero and a number that may be negative.
LEMMA MaxOfZero ==
    ASSUME NEW x \in Int
    PROVE  Max({0, x}) \in {0, x} /\ Max({0, x}) >= 0 /\ Max({0, x}) >= x
<1>1. \E y \in {0, x} : \A z \in {0, x} : y >= z
  <2>1. CASE x >= 0
    BY <2>1
  <2>2. CASE ~ (x >= 0)
    BY <2>2
  <2> QED BY <2>1, <2>2
<1> QED
  BY <1>1 DEF Max

\* So the lesser of two.
LEMMA MinOfTwo ==
    ASSUME NEW a \in Nat, NEW b \in Nat
    PROVE  Min({a, b}) \in {a, b} /\ Min({a, b}) <= a /\ Min({a, b}) <= b
<1>1. {a, b} \in SUBSET Nat /\ {a, b} # {}
  OBVIOUS
<1> QED
  BY <1>1, MinOfNats

\* The start of the request is not negative, and not after the start of the backtest.
LEMMA WarmupStarts ==
    ASSUME BarTypes
    PROVE  /\ WarmupStart \in Nat /\ WarmupStart <= args.start
           /\ WarmupStart >= args.start - Frame * args.warmup
           /\ \A c \in Nat : c >= args.start - Frame * args.warmup => c >= WarmupStart
           /\ RequestLimit \in Nat
<1>1. args.start \in Nat /\ args.warmup \in Nat /\ args.limit \in Nat /\ Frame \in Nat
  BY CcxtAssumption DEF BarTypes
<1>2. PICK p \in Nat : p = Frame * args.warmup
  BY <1>1
<1>3. PICK x \in Int : x = args.start - Frame * args.warmup /\ x <= args.start
  BY <1>1, <1>2
<1>4. Max({0, x}) \in {0, x} /\ Max({0, x}) >= 0 /\ Max({0, x}) >= x
  BY MaxOfZero
<1>5. WarmupStart = Max({0, x})
  BY <1>3 DEF WarmupStart
<1>6. RequestLimit \in Nat
  BY <1>1 DEF RequestLimit
<1> QED
  <2>1. PICK w : w = WarmupStart
    OBVIOUS
  <2>2. w \in {0, x} /\ w >= 0 /\ w >= x
    BY <1>4, <1>5, <2>1
  <2>3. w \in Nat /\ w <= args.start /\ \A c \in Nat : c >= x => c >= w
    BY <1>1, <1>3, <2>2
  <2> QED BY <1>3, <1>6, <2>1, <2>2, <2>3

\* The candles are finitely many numbers.
LEMMA CandleTypes ==
    ASSUME BarTypes
    PROVE  /\ candles \in SUBSET Nat /\ \A c \in candles : c <= MaxNow /\ c % Frame = 0
           /\ IsFiniteSet(candles)
           /\ Frame \in Nat /\ Frame > 0 /\ MaxNow \in Nat
<1>1. Frame \in Nat /\ Frame > 0 /\ MaxNow \in Nat
  BY CcxtAssumption
<1>2. \A c \in candles : c \in 0..MaxNow /\ c % Frame = 0
  BY DEF BarTypes, Opens
<1>3. IsFiniteSet(0..MaxNow) /\ candles \subseteq 0..MaxNow
  BY <1>1, <1>2, FS_Interval
<1>4. IsFiniteSet(candles)
  BY <1>3, FS_Subset
<1> QED
  BY <1>1, <1>2, <1>4

\* A page has the oldest candles from the cursor on, so none is missing below the next one.
LEMMA PageIsTaken ==
    ASSUME BarTypes, Asked, Requests
    PROVE  BarTypes' /\ Asked'
<1>1. /\ fetch.pc = "page" /\ UNCHANGED <<now, candles, args>>
  BY DEF Requests, FetchesPage, harnessVars
<1>2. /\ candles \in SUBSET Nat /\ \A c \in candles : c <= MaxNow
      /\ Frame \in Nat /\ Frame > 0 /\ MaxNow \in Nat
  BY CandleTypes
<1>3. /\ fetch.cursor \in Nat /\ fetch.start \in Nat /\ fetch.end \in Nat /\ fetch.limit \in Nat
      /\ fetch.observed \in Nat /\ fetch.bars \in SUBSET Nat /\ now \in Nat
      /\ args.end \in Nat
  BY DEF BarTypes
<1>4. UNCHANGED <<WarmupStart, RequestLimit>> /\ \A c : Closed(c) <=> c + Frame <= fetch.observed /\ c < args.end
  BY <1>1 DEF WarmupStart, RequestLimit, Closed
<1>5. ASSUME Done, Exhausted PROVE BarTypes' /\ Asked'
  <2>1. fetch' = [fetch EXCEPT !.pc = "done"]
    BY <1>5 DEF Done
  <2>2. BarTypes'
    BY <1>1, <2>1 DEF BarTypes
  <2>3. /\ fetch'.pc = "done" /\ fetch'.start = fetch.start /\ fetch'.end = fetch.end
        /\ fetch'.limit = fetch.limit /\ fetch'.observed = fetch.observed
        /\ fetch'.cursor = fetch.cursor /\ fetch'.bars = fetch.bars
    BY <2>1 DEF BarTypes
  <2>4. Asked'
    BY <1>1, <1>4, <1>5, <2>3 DEF Asked, Exhausted, Closed
  <2> QED BY <2>2, <2>4
<1>6. CASE fetch.cursor >= fetch.end \/ (fetch.limit # 0 /\ Remaining <= 0)
  <2>1. Done
    BY <1>6 DEF Requests, FetchesPage
  <2>2. Cardinality(fetch.bars) \in Nat
    <3>1. fetch.bars \subseteq candles
      BY DEF Asked
    <3> QED BY <3>1, CandleTypes, FS_Subset, FS_CardinalityType
  <2>3. Exhausted
    BY <1>3, <1>6, <2>2 DEF Exhausted, Remaining
  <2> QED BY <1>5, <2>1, <2>3
<1>7. CASE ~ (fetch.cursor >= fetch.end \/ (fetch.limit # 0 /\ Remaining <= 0))
  <2>1. PICK rows \in SUBSET Candles(fetch.cursor) :
            /\ IsOhlcvPage(rows, fetch.cursor,
                           IF fetch.limit = 0 THEN PageLimit ELSE Min({PageLimit, Remaining}))
            /\ IF rows = {} \/ NextCursor(rows) <= fetch.cursor
               THEN Done
               ELSE fetch' = [fetch EXCEPT
                        !.bars = @ \cup {ts \in rows : /\ fetch.start <= ts /\ ts < fetch.end
                                                       /\ Confirmed(ts)},
                        !.cursor = NextCursor(rows)]
    BY <1>7 DEF Requests, FetchesPage
  <2>2. /\ \A b \in rows : b \in candles /\ b \in Nat /\ fetch.cursor <= b /\ b <= MaxNow
        /\ rows = {} <=> Candles(fetch.cursor) = {}
        /\ \A b \in rows : \A c \in Candles(fetch.cursor) : c < b => c \in rows
    BY <1>2, <2>1 DEF Candles, IsOhlcvPage
  <2>3. CASE rows = {}
    <3>1. \A c \in candles : Closed(c) => c < fetch.cursor
      <4> SUFFICES ASSUME NEW c \in candles, c + Frame <= fetch.observed, ~ (c < fetch.cursor)
                   PROVE  FALSE
        BY DEF Closed
      <4>1. c \in Nat /\ fetch.observed <= now
        BY <1>2 DEF Asked
      <4>2. fetch.cursor <= c /\ c <= now
        BY <1>2, <1>3, <4>1
      <4>3. c \in Candles(fetch.cursor)
        BY <4>2 DEF Candles
      <4> QED BY <2>2, <2>3, <4>3
    <3> QED BY <1>5, <2>1, <2>3, <3>1 DEF Exhausted
  <2>4. CASE rows # {}
    <3>1. PICK last \in rows : last = Max(rows) /\ \A b \in rows : b <= last
      <4>1. rows \in SUBSET Nat /\ \A b \in rows : b <= MaxNow
        BY <2>2
      <4>2. Max(rows) \in rows /\ \A b \in rows : Max(rows) >= b
        BY <1>2, <2>4, <4>1, MaxOfNats
      <4>3. PICK l : l = Max(rows)
        OBVIOUS
      <4>4. l \in rows /\ \A b \in rows : l >= b
        BY <4>2, <4>3
      <4>5. \A b \in rows : b <= l
        BY <4>1, <4>4
      <4> QED BY <4>3, <4>4, <4>5
    <3>2. last \in Nat /\ fetch.cursor <= last /\ NextCursor(rows) = last + 1
      BY <2>2, <3>1 DEF NextCursor
    <3>3. PICK new : new = {ts \in rows : fetch.start <= ts /\ ts < fetch.end /\ Confirmed(ts)}
      OBVIOUS
    <3>4. fetch' = [fetch EXCEPT !.bars = @ \cup new, !.cursor = last + 1]
      BY <1>3, <2>1, <2>4, <3>2, <3>3
    <3>5. new \in SUBSET Nat
      BY <2>2, <3>3
    <3>6. BarTypes'
      <4>1. fetch.bars \cup new \in SUBSET Nat /\ last + 1 \in Nat
        <5>1. fetch.bars \in SUBSET Nat /\ new \in SUBSET Nat
          BY <1>3, <3>5
        <5>2. PICK old \in SUBSET Nat : old = fetch.bars
          BY <5>1
        <5>3. old \cup new \in SUBSET Nat
          BY <5>1
        <5> QED BY <3>2, <5>2, <5>3
      <4>2. PICK all \in SUBSET Nat, next \in Nat : all = fetch.bars \cup new /\ next = last + 1
        BY <4>1
      <4>3. fetch' = [fetch EXCEPT !.bars = all, !.cursor = next]
        BY <3>4, <4>2
      <4> QED BY <1>1, <4>3 DEF BarTypes
    <3>7. /\ fetch'.pc = "page" /\ fetch'.start = fetch.start /\ fetch'.end = fetch.end
          /\ fetch'.limit = fetch.limit /\ fetch'.observed = fetch.observed
          /\ fetch'.cursor = last + 1 /\ fetch'.bars = fetch.bars \cup new
      BY <1>1, <3>4 DEF BarTypes
    <3>8. ASSUME NEW c \in candles, Closed(c), fetch.start <= c, c < last + 1
          PROVE  c \in fetch.bars \cup new
      <4>1. CASE c < fetch.cursor
        BY <3>8, <4>1 DEF Asked
      <4>2. CASE ~ (c < fetch.cursor)
        <5>1. c \in Nat /\ c + Frame <= fetch.observed /\ c < args.end /\ fetch.observed <= now
          BY <1>2, <3>8 DEF Closed, Asked
        <5>2. fetch.cursor <= c /\ c <= now /\ (c = last \/ c < last)
          BY <1>2, <1>3, <3>2, <3>8, <4>2, <5>1
        <5>3. c \in rows
          BY <2>2, <3>1, <5>2 DEF Candles
        <5> QED BY <3>3, <3>8, <5>1, <5>3 DEF Confirmed, Asked
      <4> QED BY <4>1, <4>2
    <3>9. ASSUME NEW c \in fetch.bars \cup new
          PROVE  c \in candles /\ Closed(c) /\ fetch.start <= c /\ c < last + 1
      <4>1. CASE c \in fetch.bars
        <5>1. c \in candles /\ Closed(c) /\ fetch.start <= c /\ c < fetch.cursor /\ c \in Nat
          BY <1>2, <4>1 DEF Asked
        <5> QED BY <1>3, <3>2, <5>1
      <4>2. CASE c \in new
        <5>1. c \in rows /\ fetch.start <= c /\ c < args.end /\ Confirmed(c)
          BY <3>3, <4>2 DEF Asked
        <5>2. c <= last /\ c \in Nat /\ c \in candles
          BY <2>2, <3>1, <5>1
        <5> QED BY <3>2, <5>1, <5>2 DEF Confirmed, Closed
      <4> QED BY <4>1, <4>2
    <3>10. fetch.bars \cup new = {c \in candles : Closed(c) /\ fetch.start <= c /\ c < last + 1}
      BY <3>8, <3>9
    <3>11. Asked'
      BY <1>1, <1>4, <3>7, <3>10 DEF Asked, Closed
    <3> QED BY <3>6, <3>11
  <2> QED BY <2>3, <2>4
<1> QED BY <1>6, <1>7

\* A request has what it needs, and no bar yet.
LEMMA RequestBegins ==
    ASSUME BarTypes, Resolves
    PROVE  BarTypes' /\ Asked'
<1>1. /\ fetch' = [pc |-> "page", start |-> WarmupStart, end |-> args.end, limit |-> RequestLimit,
                   observed |-> Min({args.end, now}), cursor |-> WarmupStart, bars |-> {}]
      /\ UNCHANGED <<now, candles, args>>
  BY DEF Resolves, BeginsFetch
<1>2. WarmupStart \in Nat /\ RequestLimit \in Nat
  BY WarmupStarts
<1>3. Min({args.end, now}) \in Nat /\ Min({args.end, now}) <= now
  BY MinOfTwo DEF BarTypes
<1>4. BarTypes'
  BY <1>1, <1>2, <1>3 DEF BarTypes
<1>5. WarmupStart' = WarmupStart /\ RequestLimit' = RequestLimit
  BY <1>1 DEF WarmupStart, RequestLimit
<1>6. {} = {c \in candles : Closed(c)' /\ WarmupStart <= c /\ c < WarmupStart}
  BY <1>2, CandleTypes
<1>7. Asked'
  BY <1>1, <1>3, <1>5, <1>6 DEF Asked
<1> QED BY <1>4, <1>7

\* The provider's answer: the oldest bars, all of them or as many as asked for.
LEMMA FetchedIsFirst ==
    ASSUME BarTypes, Asked, NEW s, s = Fetched
    PROVE  \E m \in Nat :
               /\ s \in [1..m -> fetch.bars] /\ Increases(s)
               /\ \A x \in fetch.bars : \A i \in 1..m :
                      x < s[i] => \E j \in 1..m : s[j] = x
               /\ \/ m = Cardinality(fetch.bars) /\ \A x \in fetch.bars : \E j \in 1..m : s[j] = x
                  \/ fetch.limit # 0 /\ m = fetch.limit
               /\ fetch.limit # 0 /\ Cardinality(fetch.bars) >= fetch.limit => m = fetch.limit
<1>1. PICK B : B = fetch.bars
  OBVIOUS
<1>2. B \in SUBSET Nat /\ IsFiniteSet(B) /\ fetch.limit \in Nat
  <2>1. fetch.bars \subseteq candles
    BY DEF Asked
  <2>2. IsFiniteSet(fetch.bars)
    BY <2>1, CandleTypes, FS_Subset
  <2> QED BY <1>1, <2>2 DEF BarTypes
<1>3. PICK b : b = Ordered(B)
  OBVIOUS
<1>4. PICK n \in Nat : n = Cardinality(B)
  BY <1>2, FS_CardinalityType
<1>5. /\ b \in [1..n -> B] /\ Increases(b)
      /\ \A x \in B : \E i \in 1..n : b[i] = x
  BY <1>2, <1>3, <1>4, OrderedSorts
<1>6. b \in Seq(B) /\ Len(b) = n
  BY <1>5
<1>7. s = IF fetch.limit = 0 THEN b ELSE SubSeq(b, 1, Min({fetch.limit, Len(b)}))
  BY <1>1, <1>3 DEF Fetched
<1>8. PICK m \in Nat : /\ m <= n
                       /\ s = IF fetch.limit = 0 THEN b ELSE SubSeq(b, 1, m)
                       /\ fetch.limit = 0 => m = n
                       /\ fetch.limit # 0 => m \in {fetch.limit, n} /\ m <= fetch.limit
  <2>1. CASE fetch.limit = 0
    BY <1>7, <2>1
  <2>2. CASE fetch.limit # 0
    <3>1. /\ Min({fetch.limit, n}) \in {fetch.limit, n}
          /\ Min({fetch.limit, n}) <= fetch.limit /\ Min({fetch.limit, n}) <= n
      BY <1>2, MinOfTwo
    <3>2. PICK m : m = Min({fetch.limit, n})
      OBVIOUS
    <3>3. m \in Nat
      BY <1>2, <3>1, <3>2
    <3> QED BY <1>6, <1>7, <2>2, <3>1, <3>2, <3>3
  <2> QED BY <2>1, <2>2
<1>9. s \in [1..m -> B] /\ \A i \in 1..m : s[i] = b[i]
  <2>1. CASE fetch.limit = 0
    BY <1>5, <1>8, <2>1
  <2>2. CASE fetch.limit # 0
    <3>1. s = SubSeq(b, 1, m)
      BY <1>8, <2>2
    <3>2. \A i \in 1..m : b[i] \in B
      BY <1>5, <1>8
    <3>3. /\ SubSeq(b, 1, m) \in Seq(B)
          /\ Len(SubSeq(b, 1, m)) = IF 1 <= m THEN m - 1 + 1 ELSE 0
          /\ \A i \in 1..(m - 1 + 1) : SubSeq(b, 1, m)[i] = b[1 + i - 1]
      BY <3>2, SubSeqProperties
    <3>4. Len(SubSeq(b, 1, m)) = m /\ m - 1 + 1 = m /\ \A i \in 1..m : 1 + i - 1 = i
      BY <3>3
    <3>5. \A i \in 1..m : SubSeq(b, 1, m)[i] = b[i]
      BY <3>3, <3>4
    <3> QED BY <3>1, <3>3, <3>4, <3>5, LenProperties
  <2> QED BY <2>1, <2>2
<1>10. Increases(s)
  <2> SUFFICES ASSUME NEW i \in 1..m, NEW j \in 1..m, i < j PROVE s[i] < s[j]
    BY <1>9 DEF Increases
  <2>1. i \in DOMAIN b /\ j \in DOMAIN b
    BY <1>5, <1>8
  <2> QED BY <1>5, <1>9, <2>1 DEF Increases
<1>11. ASSUME NEW x \in B, NEW i \in 1..m, x < s[i] PROVE \E j \in 1..m : s[j] = x
  <2>1. PICK k \in 1..n : b[k] = x
    BY <1>5
  <2>2. i \in DOMAIN b /\ k \in DOMAIN b /\ b[i] \in Nat /\ b[k] \in Nat
    <3>1. i \in 1..n /\ DOMAIN b = 1..n
      BY <1>5, <1>8
    <3>2. b[i] \in B /\ b[k] \in B
      BY <1>5, <3>1
    <3> QED BY <1>2, <3>1, <3>2
  <2>3. ~ (i < k) /\ i # k
    <3>1. b[k] < b[i]
      BY <1>9, <1>11, <2>1
    <3>2. i < k => b[i] < b[k]
      BY <1>5, <2>2 DEF Increases
    <3> QED BY <2>2, <3>1, <3>2
  <2>4. k \in 1..m
    BY <2>3
  <2> QED BY <1>9, <2>1, <2>4
<1>12. m = n => \A x \in B : \E j \in 1..m : s[j] = x
  BY <1>5, <1>9
<1>13. fetch.limit # 0 /\ n >= fetch.limit => m = fetch.limit
  BY <1>2, <1>8
<1>14. m = n \/ (fetch.limit # 0 /\ m = fetch.limit)
  BY <1>8
<1> QED BY <1>1, <1>4, <1>9, <1>10, <1>11, <1>12, <1>13, <1>14

\* Between the start of the request and that of the backtest are no more bars than the warmup
\* asks for: their times are multiples of the frame.
LEMMA WarmupIsBounded ==
    ASSUME BarTypes, NEW W \in SUBSET candles, \A c \in W : WarmupStart <= c /\ c < args.start
    PROVE  IsFiniteSet(W) /\ Cardinality(W) \in Nat /\ Cardinality(W) <= args.warmup
<1>1. /\ Frame \in Nat /\ Frame > 0 /\ args.start \in Nat /\ args.warmup \in Nat
      /\ W \in SUBSET Nat /\ IsFiniteSet(W) /\ Cardinality(W) \in Nat
  BY CandleTypes, FS_Subset, FS_CardinalityType DEF BarTypes
<1>2. PICK w \in Nat, first \in Nat : w = args.warmup /\ first = args.start
  BY <1>1
<1>3. \A c \in W : c \in Nat /\ c % Frame = 0 /\ c < first /\ c >= first - Frame * w
  <2> SUFFICES ASSUME NEW c \in W
               PROVE  c \in Nat /\ c % Frame = 0 /\ c < first /\ c >= first - Frame * w
    OBVIOUS
  <2>1. c \in candles /\ c \in Nat /\ c % Frame = 0 /\ WarmupStart <= c /\ c < first
    BY <1>2, CandleTypes
  <2>2. WarmupStart \in Nat /\ WarmupStart >= first - Frame * w
    BY <1>2, WarmupStarts
  <2>3. PICK p \in Nat, ws \in Nat : p = Frame * w /\ ws = WarmupStart
    BY <1>1, <2>2
  <2>4. c >= first - p
    BY <2>1, <2>2, <2>3
  <2> QED BY <2>1, <2>3, <2>4
<1>4. PICK f : f = [c \in W |-> c \div Frame]
  OBVIOUS
<1>5. \A c \in W : f[c] \in Nat /\ c = Frame * f[c]
  <2> SUFFICES ASSUME NEW c \in W PROVE f[c] \in Nat /\ c = Frame * f[c]
    OBVIOUS
  <2>1. c \in Nat /\ c % Frame = 0
    BY <1>3
  <2>2. c \div Frame \in Nat /\ c = Frame * (c \div Frame)
    BY <1>1, <2>1
  <2> QED BY <1>4, <2>2
<1>6. PICK k \in Nat : Frame * k >= first /\ \A q \in Nat : Frame * q >= first => k <= q
  <2>1. PICK Q : Q = {q \in Nat : Frame * q >= first}
    OBVIOUS
  <2>2. Frame * first >= first
    BY <1>1
  <2>3. Q \in SUBSET Nat /\ Q # {}
    BY <2>1, <2>2
  <2>4. Min(Q) \in Q /\ \A y \in Q : Min(Q) <= y
    BY <2>3, MinOfNats
  <2> QED BY <2>1, <2>4
<1>7. \A a \in Nat, b \in Nat : Frame * (a + b) = Frame * a + Frame * b /\ Frame * a \in Nat
  BY <1>1
<1>8. \A a \in Nat, b \in Nat : a <= b => Frame * a <= Frame * b
  <2> SUFFICES ASSUME NEW a \in Nat, NEW b \in Nat, a <= b PROVE Frame * a <= Frame * b
    OBVIOUS
  <2>1. PICK d \in Nat : b = a + d
    <3>1. b - a \in Nat /\ b = a + (b - a)
      OBVIOUS
    <3> QED BY <3>1
  <2>2. Frame * b = Frame * a + Frame * d /\ Frame * a \in Nat /\ Frame * d \in Nat
    BY <1>7, <2>1
  <2> QED BY <2>2
<1>9. ASSUME NEW c \in W PROVE f[c] \in (k - w)..(k - 1)
  <2>1. PICK q \in Nat : q = f[c]
    BY <1>5
  <2>2. c = Frame * q /\ c < first /\ c >= first - Frame * w /\ c \in Nat
    BY <1>3, <1>5, <2>1
  <2>3. q < k
    <3>1. ASSUME k <= q PROVE FALSE
      <4>1. Frame * k <= Frame * q /\ Frame * k \in Nat
        BY <1>7, <1>8, <3>1
      <4> QED BY <1>6, <2>2, <4>1
    <3> QED BY <3>1
  <2>4. q + w >= k
    <3>1. Frame * (q + w) = c + Frame * w /\ Frame * w \in Nat
      BY <1>7, <2>2
    <3>2. Frame * (q + w) >= first
      BY <2>2, <3>1
    <3>3. q + w \in Nat
      OBVIOUS
    <3> QED BY <1>6, <3>2, <3>3
  <2> QED BY <2>1, <2>3, <2>4
<1>10. PICK lo \in Int, hi \in Int : lo = k - w /\ hi = k - 1
  OBVIOUS
<1>11. f \in Injection(W, lo..hi)
  <2>1. f \in [W -> lo..hi]
    BY <1>4, <1>9, <1>10
  <2>2. \A c, d \in W : f[c] = f[d] => c = d
    BY <1>5
  <2> QED BY <2>1, <2>2 DEF Injection, IsInjective
<1>12. IsFiniteSet(lo..hi) /\ Cardinality(lo..hi) = IF lo > hi THEN 0 ELSE hi - lo + 1
  BY FS_Interval
<1>13. Cardinality(W) <= Cardinality(lo..hi)
  BY <1>11, <1>12, FS_Injection
<1>14. Cardinality(lo..hi) <= w /\ Cardinality(lo..hi) \in Nat
  BY <1>10, <1>12
<1> QED BY <1>1, <1>2, <1>13, <1>14

\* What is handed to the engine: the answer, of which no bar before the start is surplus.
LEMMA SelectedIsFetched ==
    ASSUME BarTypes, Asked, Selected # <<>>, NEW t, t = Selected
    PROVE  /\ t \in Seq(Nat) /\ Increases(t) /\ Range(t) = Range(Fetched)
           /\ \E x \in Range(t) : x >= args.start
<1>1. PICK s : s = Fetched
  OBVIOUS
<1>2. PICK m \in Nat : s \in [1..m -> fetch.bars] /\ Increases(s)
  BY <1>1, FetchedIsFirst
<1>3. PICK start \in Nat, warmup \in Nat : start = args.start /\ warmup = args.warmup
  BY DEF BarTypes
<1>4. s \in [1..m -> Nat] /\ DOMAIN s = 1..m /\ Range(s) \subseteq fetch.bars
  <2>1. fetch.bars \in SUBSET Nat
    BY DEF BarTypes
  <2> QED BY <1>2, <2>1 DEF Range
<1>5. PICK P, Q : P = {i \in DOMAIN s : s[i] < start} /\ Q = {i \in DOMAIN s : s[i] >= start}
  OBVIOUS
<1>6. PICK before, requested : before = Elements(s, P) /\ requested = Elements(s, Q)
  OBVIOUS
<1>7. P \in SUBSET (1..m) /\ Q \in SUBSET (1..m)
  BY <1>4, <1>5
<1>8. /\ before \in Seq(Nat) /\ Increases(before)
      /\ \A x : x \in Range(before) <=> \E i \in P : s[i] = x
  BY <1>2, <1>4, <1>6, <1>7, ElementsIncrease
<1>9. /\ requested \in Seq(Nat) /\ Increases(requested)
      /\ \A x : x \in Range(requested) <=> \E i \in Q : s[i] = x
  BY <1>2, <1>4, <1>6, <1>7, ElementsIncrease
<1>10. PICK n \in Nat, l \in Nat : n = Len(before) /\ l = Len(requested)
  BY <1>8, <1>9, LenProperties
<1>11. /\ before \in [1..n -> Nat] /\ DOMAIN before = 1..n
       /\ requested \in [1..l -> Nat] /\ DOMAIN requested = 1..l
  BY <1>8, <1>9, <1>10, LenProperties
<1>12. n <= warmup
  <2>1. PICK W : W = Range(before)
    OBVIOUS
  <2>2. \A c \in W : c \in candles /\ WarmupStart <= c /\ c < start
    <3> SUFFICES ASSUME NEW i \in P PROVE s[i] \in candles /\ WarmupStart <= s[i] /\ s[i] < start
      BY <1>8, <2>1
    <3>1. s[i] \in fetch.bars /\ s[i] < start
      BY <1>2, <1>5, <1>7
    <3> QED BY <3>1 DEF Asked
  <2>3. W \in SUBSET candles /\ \A c \in W : WarmupStart <= c /\ c < args.start
    BY <1>3, <2>2
  <2>4. IsFiniteSet(W) /\ Cardinality(W) \in Nat /\ Cardinality(W) <= warmup
    BY <1>3, <2>3, WarmupIsBounded
  <2>5. before \in Injection(1..n, W)
    <3>1. before \in [1..n -> W]
      BY <1>11, <2>1 DEF Range
    <3>2. ASSUME NEW i \in 1..n, NEW j \in 1..n, i # j PROVE before[i] # before[j]
      <4>1. before[i] \in Nat /\ before[j] \in Nat /\ (i < j \/ j < i)
        BY <1>11, <3>2
      <4>2. before[i] < before[j] \/ before[j] < before[i]
        BY <1>8, <1>11, <4>1 DEF Increases
      <4> QED BY <4>1, <4>2
    <3> QED BY <3>1, <3>2 DEF Injection, IsInjective
  <2>6. Cardinality(1..n) = n
    BY FS_Interval
  <2>7. Cardinality(1..n) <= Cardinality(W)
    BY <2>4, <2>5, FS_Injection
  <2> QED BY <2>4, <2>6, <2>7
<1>13. Min({warmup, n}) = n
  <2>1. PICK k : k = Min({warmup, n})
    OBVIOUS
  <2>2. k \in {warmup, n} /\ k <= n /\ k <= warmup
    BY <2>1, MinOfTwo
  <2>3. k = n
    BY <1>12, <2>2
  <2> QED BY <2>1, <2>3
<1>14. t = IF requested = <<>> THEN <<>>
           ELSE SubSeq(before, n - Min({warmup, n}) + 1, n) \o requested
  BY <1>1, <1>3, <1>5, <1>6, <1>10 DEF Selected
<1>15. SubSeq(before, n - n + 1, n) = before
  <2>1. SubSeq(before, 1, Len(before)) = before
    BY <1>8, SubSeqFull
  <2>2. n - n + 1 = 1
    OBVIOUS
  <2> QED BY <1>10, <2>1, <2>2
<1>16. requested # <<>> /\ t = before \o requested
  BY <1>13, <1>14, <1>15
<1>17. /\ t \in Seq(Nat) /\ Len(t) = n + l
       /\ \A i \in 1..(n + l) : t[i] = IF i <= n THEN before[i] ELSE requested[i - n]
  BY <1>8, <1>9, <1>10, <1>16, ConcatProperties
<1>18. DOMAIN t = 1..(n + l)
  BY <1>17, LenProperties
<1>19. /\ \A i \in 1..n : before[i] < start /\ before[i] \in Range(before)
       /\ \A i \in 1..l : requested[i] >= start /\ requested[i] \in Range(requested)
  <2>1. /\ \A i \in 1..n : before[i] \in Range(before)
        /\ \A i \in 1..l : requested[i] \in Range(requested)
    BY <1>11 DEF Range
  <2>2. /\ \A x \in Range(before) : x < start
        /\ \A x \in Range(requested) : x >= start
    BY <1>5, <1>8, <1>9
  <2> QED BY <2>1, <2>2
<1>20. Increases(t)
  <2> SUFFICES ASSUME NEW i \in 1..(n + l), NEW j \in 1..(n + l), i < j PROVE t[i] < t[j]
    BY <1>18 DEF Increases
  <2>1. CASE j <= n
    BY <1>8, <1>11, <1>17, <2>1 DEF Increases
  <2>2. CASE i <= n /\ ~ (j <= n)
    <3>1. i \in 1..n /\ j - n \in 1..l /\ t[i] = before[i] /\ t[j] = requested[j - n]
      BY <1>17, <2>2
    <3>2. before[i] < start /\ requested[j - n] >= start
      BY <1>19, <3>1
    <3>3. before[i] \in Nat /\ requested[j - n] \in Nat
      BY <1>11, <3>1
    <3> QED BY <3>1, <3>2, <3>3
  <2>3. CASE ~ (i <= n)
    <3>1. /\ i - n \in 1..l /\ j - n \in 1..l /\ i - n < j - n
          /\ t[i] = requested[i - n] /\ t[j] = requested[j - n]
      BY <1>17, <2>3
    <3> QED BY <1>9, <1>11, <3>1 DEF Increases
  <2> QED BY <2>1, <2>2, <2>3
<1>21. \A x : x \in Range(t) <=> x \in Range(before) \/ x \in Range(requested)
  <2>1. ASSUME NEW i \in 1..(n + l) PROVE t[i] \in Range(before) \/ t[i] \in Range(requested)
    <3>1. CASE i <= n
      BY <1>17, <1>19, <3>1
    <3>2. CASE ~ (i <= n)
      <4>1. i - n \in 1..l /\ t[i] = requested[i - n]
        BY <1>17, <3>2
      <4> QED BY <1>19, <4>1
    <3> QED BY <3>1, <3>2
  <2>2. ASSUME NEW i \in 1..n PROVE before[i] \in Range(t)
    <3>1. i \in 1..(n + l) /\ t[i] = before[i]
      BY <1>17
    <3> QED BY <1>18, <3>1 DEF Range
  <2>3. ASSUME NEW i \in 1..l PROVE requested[i] \in Range(t)
    <3>1. PICK j \in 1..(n + l) : j = i + n /\ ~ (j <= n) /\ j - n = i
      OBVIOUS
    <3>2. t[j] = requested[i]
      BY <1>17, <3>1
    <3> QED BY <1>18, <3>2 DEF Range
  <2> QED BY <1>11, <1>18, <2>1, <2>2, <2>3 DEF Range
<1>22. Range(t) = Range(s)
  <2>1. \A i \in 1..m : i \in P \/ i \in Q
    BY <1>4, <1>5
  <2>2. \A x : x \in Range(s) <=> (\E i \in P : s[i] = x) \/ (\E i \in Q : s[i] = x)
    BY <1>4, <1>5, <2>1 DEF Range
  <2> QED BY <1>8, <1>9, <1>21, <2>2
<1>23. \E x \in Range(t) : x >= start
  <2>1. l # 0
    BY <1>9, <1>10, <1>16, EmptySeq
  <2>2. requested[1] \in Range(requested) /\ requested[1] >= start
    BY <1>19, <2>1
  <2> QED BY <1>21, <2>2
<1> QED BY <1>1, <1>3, <1>17, <1>20, <1>22, <1>23

\* What the run checks of the bars, as it follows from the fetch.
LEMMA BarsFollow ==
    ASSUME BarsInv
    PROVE  BarsAreExact
<1> SUFFICES ASSUME bars # <<>> PROVE BarsAreExact
  BY DEF BarsAreExact
<1>1. BarTypes /\ Asked /\ Exhausted /\ bars = Selected /\ Selected # <<>>
  BY DEF BarsInv, Asked
<1>2. PICK given : given = Range(bars)
  OBVIOUS
<1>3. /\ bars \in Seq(Nat) /\ Increases(bars) /\ given = Range(Fetched)
      /\ \E x \in given : x >= args.start
  BY <1>1, <1>2, SelectedIsFetched
<1>4. PICK s : s = Fetched
  OBVIOUS
<1>5. PICK B : B = fetch.bars
  OBVIOUS
<1>6. PICK m \in Nat :
          /\ s \in [1..m -> B] /\ Increases(s)
          /\ \A x \in B : \A i \in 1..m : x < s[i] => \E j \in 1..m : s[j] = x
          /\ \/ m = Cardinality(B) /\ \A x \in B : \E j \in 1..m : s[j] = x
             \/ fetch.limit # 0 /\ m = fetch.limit
          /\ fetch.limit # 0 /\ Cardinality(B) >= fetch.limit => m = fetch.limit
  BY <1>1, <1>4, <1>5, FetchedIsFirst
<1>7. DOMAIN s = 1..m /\ given = Range(s)
  BY <1>3, <1>4, <1>6
<1>8. /\ given \subseteq B /\ \A x : x \in given <=> \E j \in 1..m : s[j] = x
      /\ \A x \in B : \A y \in given : x < y => x \in given
  BY <1>6, <1>7 DEF Range
<1>9. PICK closed, requested, warmup :
          /\ closed = {c \in candles : c + Frame <= fetch.observed /\ c < args.end}
          /\ requested = {c \in closed : c >= args.start}
          /\ warmup = {c \in closed \ requested : c + args.warmup * Frame >= args.start}
  OBVIOUS
<1>10. /\ \A c : c \in closed <=> c \in candles /\ Closed(c)
       /\ B = {c \in closed : WarmupStart <= c /\ c < fetch.cursor}
       /\ \A c \in closed : c \in Nat
  BY <1>1, <1>5, <1>9, CandleTypes DEF Asked, Closed
<1>11. /\ WarmupStart \in Nat /\ WarmupStart <= args.start
       /\ \A c \in Nat : c >= args.start - Frame * args.warmup => c >= WarmupStart
  BY <1>1, WarmupStarts
<1>12. /\ args.start \in Nat /\ args.end \in Nat /\ args.limit \in Nat /\ args.warmup \in Nat
       /\ Frame \in Nat /\ fetch.cursor \in Nat
  BY <1>1, CcxtAssumption DEF BarTypes
<1>13. IsFiniteSet(given) /\ Cardinality(given) \in Nat /\ Cardinality(given) = m
       /\ given \in SUBSET Nat
  <2>1. IsFiniteSet(candles) /\ given \subseteq candles
    BY <1>1, <1>8, <1>10, CandleTypes
  <2>2. s \in [1..m -> given]
    BY <1>6, <1>7 DEF Range
  <2>3. given \in SUBSET Nat
    BY <1>8, <1>10
  <2>4. ASSUME NEW i \in 1..m, NEW j \in 1..m, i # j PROVE s[i] # s[j]
    <3>1. s[i] \in Nat /\ s[j] \in Nat /\ (i < j \/ j < i)
      <4>1. s[i] \in given /\ s[j] \in given
        BY <2>2
      <4>2. i < j \/ j < i
        BY <2>4
      <4> QED BY <2>3, <4>1, <4>2
    <3>2. s[i] < s[j] \/ s[j] < s[i]
      BY <1>6, <1>7, <3>1 DEF Increases
    <3> QED BY <3>1, <3>2
  <2>5. s \in Injection(1..m, given) /\ s \in Surjection(1..m, given)
    BY <1>8, <2>2, <2>4 DEF Injection, IsInjective, Surjection
  <2>6. IsFiniteSet(given) /\ Cardinality(given) \in Nat
    BY <2>1, FS_Subset, FS_CardinalityType
  <2>7. IsFiniteSet(1..m) /\ Cardinality(1..m) = m
    BY FS_Interval
  <2>8. Cardinality(1..m) <= Cardinality(given)
    BY <2>5, <2>6, FS_Injection
  <2>9. Cardinality(given) <= Cardinality(1..m)
    BY <2>5, <2>7, FS_Surjection
  <2> QED BY <2>3, <2>6, <2>7, <2>8, <2>9
\* The bars before the start, and those from it on.
<1>14. PICK early, late : early = given \ requested /\ late = given \cap requested
  OBVIOUS
<1>15. \A c \in early : c \in candles /\ WarmupStart <= c /\ c < args.start
  <2> SUFFICES ASSUME NEW c \in early PROVE c \in candles /\ WarmupStart <= c /\ c < args.start
    OBVIOUS
  <2>1. c \in closed /\ c \in Nat /\ WarmupStart <= c /\ c \in candles /\ ~ (c >= args.start)
    BY <1>8, <1>9, <1>10, <1>14
  <2> QED BY <1>12, <2>1
<1>16. IsFiniteSet(early) /\ Cardinality(early) \in Nat /\ Cardinality(early) <= args.warmup
  <2>1. early \in SUBSET candles
    BY <1>15
  <2> QED BY <1>1, <1>15, <2>1, WarmupIsBounded
<1>17. Cardinality(late) \in Nat /\ m = Cardinality(early) + Cardinality(late)
  <2>1. late \subseteq given /\ IsFiniteSet(late) /\ Cardinality(late) \in Nat
    BY <1>13, <1>14, FS_Subset, FS_CardinalityType
  <2>2. early \cap late = {} /\ early \cup late = given
    BY <1>14
  <2>3. Cardinality(early \cup late) =
            Cardinality(early) + Cardinality(late) - Cardinality(early \cap late)
    BY <1>16, <2>1, FS_Union
  <2>4. Cardinality(early \cap late) = 0
    BY <2>2, FS_EmptySet
  <2>5. Cardinality(given) = Cardinality(early) + Cardinality(late) - 0
    BY <2>2, <2>3, <2>4
  <2> QED BY <1>13, <1>16, <2>1, <2>5
\* The clauses.
<1>18. \A i, j \in DOMAIN bars : i < j => bars[i] < bars[j]
  BY <1>3 DEF Increases
<1>19. given \subseteq closed
  BY <1>8, <1>10
<1>20. \A c \in closed \ requested : c + args.warmup * Frame >= args.start => c \in given
  <2> SUFFICES ASSUME NEW c \in closed, c \notin requested, c + args.warmup * Frame >= args.start
               PROVE  c \in given
    OBVIOUS
  <2>1. PICK y \in given : y >= args.start
    BY <1>3
  <2>2. c \in Nat /\ y \in Nat /\ c < args.start /\ y < fetch.cursor
    <3>1. c \in Nat /\ ~ (c >= args.start)
      BY <1>9, <1>10
    <3>2. y \in Nat /\ y < fetch.cursor
      BY <1>8, <1>10
    <3> QED BY <1>12, <3>1, <3>2
  <2>3. args.warmup * Frame = Frame * args.warmup /\ Frame * args.warmup \in Nat
    BY <1>12
  <2>4. PICK p \in Nat : p = Frame * args.warmup
    BY <2>3
  <2>5. c >= args.start - p
    BY <1>12, <2>2, <2>3, <2>4
  <2>6. WarmupStart <= c
    BY <1>11, <2>2, <2>4, <2>5
  <2>7. c < fetch.cursor /\ c < y
    BY <1>12, <2>1, <2>2
  <2>8. c \in B
    BY <1>10, <2>6, <2>7
  <2> QED BY <1>8, <2>7, <2>8
<1>21. early = warmup
  <2>1. warmup \subseteq early
    BY <1>9, <1>14, <1>20
  <2>2. ASSUME NEW c \in early PROVE c + args.warmup * Frame >= args.start
    <3>1. args.warmup * Frame = Frame * args.warmup /\ Frame * args.warmup \in Nat
      BY <1>12
    <3>2. WarmupStart >= args.start - Frame * args.warmup /\ c \in Nat /\ WarmupStart <= c
      BY <1>1, <1>8, <1>10, <1>14, <1>15, WarmupStarts
    <3>3. PICK p \in Nat : p = Frame * args.warmup
      BY <3>1
    <3> QED BY <1>11, <1>12, <3>1, <3>2, <3>3
  <2>3. early \subseteq warmup
    BY <1>9, <1>14, <1>19, <2>2
  <2> QED BY <2>1, <2>3
<1>22. \A c \in requested : (\E d \in given : c < d) => c \in given
  <2> SUFFICES ASSUME NEW c \in requested, NEW d \in given, c < d PROVE c \in given
    OBVIOUS
  <2>1. /\ c \in Nat /\ d \in Nat /\ c >= args.start /\ d < fetch.cursor /\ c \in closed
    BY <1>8, <1>9, <1>10
  <2>2. WarmupStart <= c /\ c < fetch.cursor
    BY <1>11, <1>12, <2>1
  <2>3. c \in B
    BY <1>10, <2>1, <2>2
  <2> QED BY <1>8, <2>3
<1>23. requested \subseteq given \/ (args.limit # 0 /\ m = args.limit + args.warmup)
  <2>1. fetch.limit = IF args.limit = 0 THEN 0 ELSE args.limit + args.warmup
    BY <1>1 DEF Asked, RequestLimit
  <2>2. CASE fetch.limit # 0 /\ m = fetch.limit
    BY <1>12, <2>1, <2>2
  <2>3. CASE ~ (fetch.limit # 0 /\ m = fetch.limit)
    <3>1. \A x \in B : x \in given
      BY <1>6, <1>8, <2>3
    <3>2. fetch.cursor >= args.end \/ \A c \in candles : Closed(c) => c < fetch.cursor
      BY <1>1, <1>5, <1>6, <2>3 DEF Exhausted, Asked
    <3>3. ASSUME NEW c \in requested PROVE c \in given
      <4>1. c \in closed /\ c \in Nat /\ c >= args.start /\ c < args.end
        BY <1>9, <1>10
      <4>2. c < fetch.cursor
        BY <1>10, <1>12, <3>2, <4>1
      <4>3. WarmupStart <= c
        BY <1>11, <1>12, <4>1
      <4> QED BY <1>10, <3>1, <4>1, <4>2, <4>3
    <3> QED BY <3>3
  <2> QED BY <2>2, <2>3
<1>24. args.limit # 0 => m <= args.limit + args.warmup
  <2> SUFFICES ASSUME args.limit # 0 PROVE m <= args.limit + args.warmup
    OBVIOUS
  <2>1. fetch.limit = args.limit + args.warmup /\ fetch.limit \in Nat /\ fetch.limit # 0
    BY <1>1, <1>12 DEF Asked, RequestLimit
  <2>2. CASE m = fetch.limit
    BY <2>1, <2>2
  <2>3. CASE m # fetch.limit
    <3>1. m = Cardinality(B) /\ ~ (Cardinality(B) >= fetch.limit)
      BY <1>6, <2>1, <2>3
    <3> QED BY <2>1, <3>1
  <2> QED BY <2>2, <2>3
<1>25. args.limit # 0 =>
           Cardinality(late) = Min({Cardinality(requested), args.limit + (args.warmup - Cardinality(early))})
  <2> SUFFICES ASSUME args.limit # 0
               PROVE  Cardinality(late) = Min({Cardinality(requested), args.limit + (args.warmup - Cardinality(early))})
    OBVIOUS
  <2>1. IsFiniteSet(requested) /\ Cardinality(requested) \in Nat
    <3>1. IsFiniteSet(candles) /\ requested \subseteq candles
      BY <1>1, <1>9, CandleTypes
    <3> QED BY <3>1, FS_Subset, FS_CardinalityType
  <2>2. PICK l, q, n : l = Cardinality(late) /\ q = Cardinality(requested)
                       /\ n = args.limit + (args.warmup - Cardinality(early))
    OBVIOUS
  <2>3. l \in Nat /\ q \in Nat /\ n \in Nat /\ l <= n
    <3>1. PICK e, a, w : e = Cardinality(early) /\ a = args.limit /\ w = args.warmup
      OBVIOUS
    <3>2. e \in Nat /\ a \in Nat /\ w \in Nat /\ e <= w
      BY <1>12, <1>16, <3>1
    <3>3. l \in Nat /\ q \in Nat /\ m = e + l /\ m <= a + w /\ n = a + (w - e)
      BY <1>17, <1>24, <2>1, <2>2, <3>1
    <3> QED BY <3>2, <3>3
  <2>4. l <= q
    <3>1. late \subseteq requested
      BY <1>14
    <3> QED BY <2>1, <2>2, <3>1, FS_Subset
  <2>5. l = q \/ l = n
    <3>1. CASE requested \subseteq given
      <4>1. late = requested
        BY <1>14, <3>1
      <4> QED BY <2>2, <4>1
    <3>2. CASE m = args.limit + args.warmup
      BY <1>12, <1>16, <1>17, <2>2, <3>2
    <3> QED BY <1>23, <3>1, <3>2
  <2>6. Min({q, n}) \in {q, n} /\ Min({q, n}) <= q /\ Min({q, n}) <= n
    BY <2>3, MinOfTwo
  <2>7. l = Min({q, n})
    BY <2>3, <2>4, <2>5, <2>6
  <2> QED BY <2>2, <2>7
<1>26. args.warmup - Cardinality(early) >= 0 /\ (args.limit = 0 => requested \subseteq given)
  BY <1>12, <1>16, <1>23
<1> QED
  BY <1>2, <1>9, <1>14, <1>18, <1>21, <1>22, <1>25, <1>26 DEF BarsAreExact

\* The invariant holds at the start, and every step keeps it.
LEMMA BarsInvariance == Spec => []BarsInv
<1>1. Init => BarsInv
  <2> SUFFICES ASSUME Init PROVE BarsInv
    OBVIOUS
  <2>1. MaxNow \in Nat /\ Warmups \subseteq Nat /\ Limits \subseteq Nat
    BY CcxtAssumption, HarnessAssumption
  <2>2. now \in Nat /\ candles \in SUBSET Opens
    BY <2>1 DEF Init, Backtest, Live
  <2>3. args.start \in Nat /\ args.end \in Nat /\ args.limit \in Nat /\ args.warmup \in Nat
    <3>1. CASE Backtest
      <4>1. /\ args.start \in 0..MaxNow /\ args.end \in 1..MaxNow
            /\ args.limit \in Limits /\ args.warmup \in Warmups
        BY <3>1 DEF Backtest
      <4>2. args.start \in Nat /\ args.end \in Nat
        BY <4>1
      <4>3. args.limit \in Nat /\ args.warmup \in Nat
        BY <2>1, <4>1
      <4> QED BY <4>2, <4>3
    <3>2. CASE Live
      BY <3>2 DEF Live, NoArgs
    <3> QED BY <3>1, <3>2 DEF Init
  <2>4. bars = <<>> /\ pc \in {"resolve", "live"} /\ fetch = NoRequest
    BY DEF Init, Backtest, Live
  <2> QED BY <2>2, <2>3, <2>4 DEF BarsInv, BarTypes, NoRequest
<1>2. BarsInv /\ [Next]_vars => BarsInv'
  <2> SUFFICES ASSUME BarsInv, [Next]_vars PROVE BarsInv'
    OBVIOUS
  <2>1. ASSUME UNCHANGED <<candles, fetch, args>>, now' \in Nat, now' >= now
        PROVE  BarTypes' /\ (Asked => Asked') /\ Selected' = Selected
    <3>1. BarTypes'
      BY <2>1 DEF BarsInv, BarTypes
    <3>2. Asked => Asked'
      <4>1. fetch.observed \in Nat /\ now \in Nat
        BY DEF BarsInv, BarTypes
      <4> QED BY <2>1, <4>1 DEF Asked, Exhausted, Closed, WarmupStart, RequestLimit
    <3>3. Selected' = Selected
      BY <2>1 DEF Selected, Fetched
    <3> QED BY <3>1, <3>2, <3>3
  <2>2. now \in Nat /\ now >= now
    BY DEF BarsInv, BarTypes
  <2>3. CASE Resolves
    <3>1. BarTypes' /\ Asked'
      BY <2>3, RequestBegins DEF BarsInv
    <3>2. bars' = <<>>
      BY <2>3 DEF Resolves, BarsInv
    <3> QED BY <3>1, <3>2 DEF BarsInv
  <2>4. CASE Requests
    <3>1. pc = "fetch" /\ pc' = pc /\ bars' = bars
      BY <2>4 DEF Requests, harnessVars
    <3>2. BarTypes' /\ Asked' /\ bars' = <<>>
      BY <2>4, <3>1, PageIsTaken DEF BarsInv
    <3> QED BY <3>1, <3>2 DEF BarsInv
  <2>5. CASE Selects
    <3>1. /\ pc = "fetch" /\ fetch.pc = "done" /\ bars' = Selected
          /\ pc' \in {"failed", "server", "image"}
          /\ UNCHANGED <<now, candles, fetch, args>>
      BY <2>5 DEF Selects
    <3>2. BarTypes' /\ Asked' /\ Selected' = Selected
      BY <2>1, <2>2, <3>1 DEF BarsInv
    <3> QED BY <3>1, <3>2 DEF BarsInv
  <2>6. CASE Goes /\ UNCHANGED harnessVars
    <3>1. UNCHANGED <<candles, fetch, args, pc, bars>> /\ now' = now + 1
      BY <2>6 DEF Goes, Ticks, harnessVars
    <3>2. BarTypes' /\ (Asked => Asked') /\ Selected' = Selected
      BY <2>1, <2>2, <3>1
    <3> QED BY <3>1, <3>2 DEF BarsInv
  <2>7. CASE Listing \/ Streaming \/ UNCHANGED vars
    <3>1. UNCHANGED <<now, candles, fetch, args, pc, bars>>
      BY <2>7 DEF Listing, Streaming, Lists, Streams, Polls, Takes, harnessVars, vars
    <3>2. BarTypes' /\ (Asked => Asked') /\ Selected' = Selected
      BY <2>1, <2>2, <3>1
    <3> QED BY <3>1, <3>2 DEF BarsInv
  <2>8. CASE ProviderFails \/ ServerAnswers \/ EnsuresImage \/ WritesInputs \/ DockerRun \/ TimesOut
    <3>1. /\ UNCHANGED <<now, candles, fetch, args, bars>>
          /\ pc \notin {"resolve", "live"}
          /\ pc' = pc \/ pc' \notin {"resolve", "live", "fetch"}
      BY <2>8 DEF ProviderFails, ServerAnswers, EnsuresImage, WritesInputs, DockerRun, OpensCid,
                  CreatesContainer, WritesCid, StartsContainer, CompletesRun, TimesOut, Ended
    <3>2. BarTypes' /\ Asked' /\ Selected' = Selected
      BY <2>1, <2>2, <3>1 DEF BarsInv
    <3> QED BY <3>1, <3>2 DEF BarsInv
  <2> QED BY <2>3, <2>4, <2>5, <2>6, <2>7, <2>8 DEF Next
<1> QED
  BY <1>1, <1>2, PTL DEF Spec

\* cli/backtest.py and providers/ccxt.py, however the paging cuts the bars and the exchange
\* goes on: a backtest has every bar that the frames of its warmup had, and of the requested
\* ones all there are or exactly the first of them, as many as the limit and what gaps have
\* left of the warmup's capacity.
THEOREM BarsAreAsAsked == Spec => []BarsAreExact
<1> QED
  BY BarsInvariance, BarsFollow, PTL
=============================================================================
