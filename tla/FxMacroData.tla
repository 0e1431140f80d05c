---------------------------- MODULE FxMacroData ----------------------------
(***************************************************************************)
(* providers/fxmacrodata.py: the vintages of the periods of a request,     *)
(* fetched page by page.  Between two pages the publisher releases and     *)
(* revises, and the service lists records and collects revisions; older    *)
(* periods may be listed after younger ones, which moves the pages.        *)
(*                                                                         *)
(* A period is the time it ends at.  No two values of a period have one    *)
(* time.  The provider leaves records with assumed release times out.      *)
(***************************************************************************)
EXTENDS Ordering, Sequences, FiniteSetsExt, SequencesExt

CONSTANTS
    Periods,       \* the times that periods end at
    Starts, Ends,  \* start_ms and end_ms of requests
    Values,        \* the values of the indicator
    PageLimit,     \* _PAGE_LIMIT
    MaxRetries,    \* max_retries
    MaxPages,      \* the values of max_pages
    MaxNow,        \* bound: the clock
    MaxReleases,   \* bound: the releases and revisions that are published
    MaxEntries     \* bound: the entries of revisions that are collected

ASSUME MacroAssumption ==
    /\ Periods \subseteq Nat /\ PageLimit \in Nat \ {0}
    /\ MaxRetries \in Nat /\ MaxPages \subseteq Nat \ {0}
    /\ Starts \subseteq Nat /\ Ends \subseteq Nat /\ Values \subseteq Int

VARIABLES
    now,       \* the clock
    truth,     \* what was published of a period: at, value, in this order
    records,   \* what the service lists: released, own, revisions
    fetch,     \* fetch_observations: pages, offset, attempt, observations
    known      \* history variable: what the service could tell as the fetch began

vars == <<now, truth, records, fetch, known>>

Unknown == -1

Ended == {"done", "failed"}

----------------------------------------------------------------------------
(* The publisher and the service.                                          *)

Ticks ==
    /\ now < MaxNow
    /\ now' = now + 1
    /\ UNCHANGED <<truth, records, fetch, known>>

\* The value that is public at a time.
AsOf(p, t) == (CHOOSE r \in Range(truth[p]) :
                   r.at <= t /\ \A s \in Range(truth[p]) : s.at <= t => s.at <= r.at).value

Collected(p) == IF p \in DOMAIN records THEN records[p].revisions \cup {records[p].own} ELSE {}

\* A first release may come before the period ends: a flash estimate.
Publishes(p, v) ==
    /\ MapThenSumSet(LAMBDA q : Len(truth[q]), Periods) < MaxReleases
    /\ \A r \in Range(truth[p]) : r.at < now
    /\ truth[p] # <<>> => Last(truth[p]).value # v
    /\ \A e \in Collected(p) : e.epoch < now /\ e.observed < now
    /\ truth' = [truth EXCEPT ![p] = Append(@, [at |-> now, value |-> v])]
    /\ UNCHANGED <<now, records, fetch, known>>

\* A vintage is dated by its publication, or by the time it was collected at.  The epoch of a
\* snapshot is the first release, and the time it was taken at may be missing.
Entry(value, snapshot, epoch, observed) ==
    [value |-> value, snapshot |-> snapshot, epoch |-> epoch, observed |-> observed]

Entries(p) ==
    LET value == Last(truth[p]).value
    IN  {Entry(value, FALSE, at, Unknown) : at \in {Last(truth[p]).at, now}}
        \cup {Entry(value, TRUE, Head(truth[p]).at, at) : at \in {Unknown, now}}

\* A record is listed with its first release, whose time may be missing, or a snapshot of it.
ListsRecord(p) ==
    /\ p \notin DOMAIN records /\ Len(truth[p]) = 1
    /\ \E own \in Entries(p), at \in {Head(truth[p]).at, Unknown} :
           /\ own.snapshot \/ own.epoch = Head(truth[p]).at
           /\ at = Unknown => ~ own.snapshot
           /\ records' = [q \in DOMAIN records \cup {p} |->
                  IF q = p THEN [released |-> at, own |-> own, revisions |-> {}] ELSE records[q]]
    /\ UNCHANGED <<now, truth, fetch, known>>

\* The first revision has the first release listed with it.
Collects(p) ==
    /\ p \in DOMAIN records /\ records[p].released # Unknown
    /\ MapThenSumSet(LAMBDA q : Cardinality(records[q].revisions), DOMAIN records) < MaxEntries
    /\ \E e \in Entries(p) \ Collected(p) :
           records' = [records EXCEPT ![p].revisions = @ \cup {records[p].own, e}]
    /\ UNCHANGED <<now, truth, fetch, known>>

----------------------------------------------------------------------------
(* The vintages of a record.                                               *)

\* Wrong: a snapshot is dated by its epoch.
EpochOf(e) == e.epoch

\* _available_at_ms().
AvailableAt(e) == IF e.snapshot THEN e.observed ELSE e.epoch

\* A record without revisions stands for itself; what has no time is left out, and nothing is
\* available before the release.
Candidates(r) ==
    LET entries == IF r.revisions = {} THEN {r.own} ELSE r.revisions
    IN  {[at |-> Max({r.released, AvailableAt(e)}), value |-> e.value] :
            e \in {x \in entries : AvailableAt(x) # Unknown}}

Precedes(b, c) == b.at < c.at \/ (b.at = c.at /\ b.value < c.value)

\* A candidate that repeats the value before it is dropped.
Vintages(r) ==
    {c \in Candidates(r) : \A b \in Candidates(r) :
        /\ Precedes(b, c)
        /\ \A d \in Candidates(r) : ~ (Precedes(b, d) /\ Precedes(d, c))
        => b.value # c.value}

\* _release_ms(), and a release before the end of the period is left out.
Released(p) == records[p].released # Unknown /\ p <= records[p].released

Observed(p) ==
    IF Released(p)
    THEN {[period |-> p, released |-> records[p].released, at |-> v.at, value |-> v.value] :
             v \in Vintages(records[p])}
    ELSE {}

SameKey(o, n) == o.period = n.period /\ o.at = n.at

\* The dictionary of a period and a vintage keeps what comes last.
Merged(old, new) ==
    {o \in old : \A n \in new : ~ SameKey(o, n)}
    \cup {n \in new : \A m \in new : SameKey(m, n) => m.value <= n.value}

----------------------------------------------------------------------------
(* fetch_observations().                                                   *)

NoFetch == [pc |-> "idle", start |-> 0, end |-> 0, maxPages |-> 0, pages |-> 0, offset |-> 0,
            attempt |-> 0, observations |-> {}]

InRange(p) == fetch.start <= p /\ p < fetch.end

Begins(start, end, maxPages) ==
    /\ fetch.pc = "idle"
    /\ fetch' = [NoFetch EXCEPT !.pc = "get", !.start = start, !.end = end,
                                !.maxPages = maxPages, !.pages = 1]
    /\ known' = UNION {Observed(p) : p \in {q \in DOMAIN records : start <= q /\ q < end}}
    /\ UNCHANGED <<now, truth, records>>

\* The service lists the oldest period first, and the days of the request in whole.
Listing == Ordered({p \in DOMAIN records : fetch.start - 1 <= p /\ p < fetch.end})

\* Wrong: the page is taken to be full.
NextByLimit(returned) == fetch.offset + PageLimit

NextOffset(returned) == fetch.offset + returned

Retries == [fetch EXCEPT !.attempt = @ + 1]

\* An error leaves nothing of the fetch.
Fails == fetch' = [NoFetch EXCEPT !.pc = "failed"] /\ known' = {}

\* _get_page(): 429 and 5xx are asked again, anything else that is no success ends the fetch.
Refused ==
    /\ fetch.pc = "get"
    /\ \/ fetch.attempt < MaxRetries /\ fetch' = Retries /\ UNCHANGED known
       \/ Fails
    /\ UNCHANGED <<now, truth, records>>

\* A page, of no more than the limit; whether there are more is the service's word.
Page ==
    /\ fetch.pc = "get"
    /\ LET rest == Len(Listing) - fetch.offset IN
       \E returned \in 0..PageLimit :
           /\ returned <= Max({rest, 0}) /\ (rest > 0 => returned > 0)
           /\ LET page == {Listing[i] : i \in (fetch.offset + 1)..(fetch.offset + returned)}
                  told == UNION {Observed(p) : p \in {q \in page : InRange(q)}}
                  got == [fetch EXCEPT !.observations = Merged(@, told)]
                  more == returned > 0 /\ returned < rest
              IN  \/ ~ more /\ fetch' = [got EXCEPT !.pc = "done"] /\ UNCHANGED known
                  \/ more /\ fetch.pages = fetch.maxPages /\ Fails
                  \/ /\ more /\ fetch.pages < fetch.maxPages
                     /\ fetch' = [got EXCEPT !.pages = @ + 1, !.attempt = 0,
                                             !.offset = NextOffset(returned)]
                     /\ UNCHANGED known
    /\ UNCHANGED <<now, truth, records>>

Init ==
    /\ now = 0
    /\ truth = [p \in Periods |-> <<>>]
    /\ records = [p \in {} |-> NoFetch]
    /\ fetch = NoFetch
    /\ known = {}

Service ==
    \/ Ticks
    \/ \E p \in Periods : ListsRecord(p) \/ Collects(p) \/ \E v \in Values : Publishes(p, v)

Fetching == Refused \/ Page

Next ==
    \/ fetch.pc \notin Ended /\ Service
    \/ \E start \in Starts, end \in Ends, maxPages \in MaxPages :
           start < end /\ Begins(start, end, maxPages)
    \/ Fetching

Spec == Init /\ [][Next]_vars
=============================================================================
