-------------------------- MODULE FxMacroDataProofs --------------------------
(***************************************************************************)
(* No observation is dated back and no change is left out, whatever the    *)
(* publisher revises, the service collects and the pages do meanwhile.     *)
(***************************************************************************)
EXTENDS FxMacroDataProperties, NatSetLemmas, SequenceTheorems, TLAPS

----------------------------------------------------------------------------
(* What was public.                                                        *)

Publication == [at : Nat, value : Values]

\* The publications of a period follow one another, and none is of the future.
Chronicle ==
    /\ now \in Nat
    /\ truth \in [Periods -> Seq(Publication)]
    /\ \A p \in Periods : \A i \in DOMAIN truth[p] :
           /\ truth[p][i].at <= now
           /\ \A j \in DOMAIN truth[p] : i < j => truth[p][i].at < truth[p][j].at

\* A period had this value at this time.
WasPublic(p, t, v) ==
    \E i \in DOMAIN truth[p] :
        /\ truth[p][i].at <= t /\ truth[p][i].value = v
        /\ \A j \in DOMAIN truth[p] : i < j => t < truth[p][j].at

\* A period had one value at a time, and AsOf() is this value.
LEMMA OneIsPublic ==
    ASSUME Chronicle, NEW p \in Periods, NEW t \in Nat, NEW v, WasPublic(p, t, v)
    PROVE  /\ AsOf(p, t) = v
           /\ \A w : WasPublic(p, t, w) => w = v
<1>1. PICK h \in Seq(Publication) : h = truth[p]
  BY DEF Chronicle
<1>2. PICK n \in Nat : n = Len(h)
  BY LenProperties
<1>3. DOMAIN h = 1..n /\ \A k \in 1..n : h[k].at \in Nat
  <2>1. DOMAIN h = 1..n /\ \A k \in 1..n : h[k] \in Publication
    BY <1>1, <1>2, LenProperties, ElementOfSeq
  <2> QED BY <2>1 DEF Publication
<1>4. PICK i \in 1..n : /\ h[i].at <= t /\ h[i].value = v
                        /\ \A j \in 1..n : i < j => t < h[j].at
  BY <1>1, <1>3 DEF WasPublic
<1>5. \A j, k \in 1..n : j < k => h[j].at < h[k].at
  BY <1>1, <1>3 DEF Chronicle
<1>6. ASSUME NEW j \in 1..n, h[j].at <= t, \A k \in 1..n : h[k].at <= t => h[k].at <= h[j].at
      PROVE  j = i
  <2>1. h[i].at <= h[j].at
    BY <1>4, <1>6
  <2>2. ~ (i < j)
    BY <1>3, <1>4, <1>6
  <2>3. ~ (j < i)
    BY <1>3, <1>5, <2>1
  <2> QED BY <2>2, <2>3
<1>7. \A k \in 1..n : h[k].at <= t => h[k].at <= h[i].at
  <2> SUFFICES ASSUME NEW k \in 1..n, h[k].at <= t, ~ (h[k].at <= h[i].at) PROVE FALSE
    OBVIOUS
  <2>1. ~ (k < i) /\ k # i
    BY <1>3, <1>5
  <2>2. i < k
    BY <2>1
  <2> QED BY <1>3, <1>4, <2>2
<1>8. AsOf(p, t) = v
  <2>1. Range(h) = {h[k] : k \in 1..n}
    BY <1>3 DEF Range
  <2>2. PICK r : r = CHOOSE x \in Range(h) :
                         x.at <= t /\ \A s \in Range(h) : s.at <= t => s.at <= x.at
    OBVIOUS
  <2>3. \E x \in Range(h) : x.at <= t /\ \A s \in Range(h) : s.at <= t => s.at <= x.at
    BY <1>4, <1>7, <2>1
  <2>4. r \in Range(h) /\ r.at <= t /\ \A s \in Range(h) : s.at <= t => s.at <= r.at
    BY <2>2, <2>3
  <2>5. PICK j \in 1..n : r = h[j]
    BY <2>1, <2>4
  <2>6. j = i
    BY <1>6, <2>1, <2>4, <2>5
  <2> QED BY <1>1, <1>4, <2>2, <2>5, <2>6 DEF AsOf
<1>9. ASSUME NEW w, WasPublic(p, t, w) PROVE w = v
  <2>1. PICK j \in 1..n : /\ h[j].at <= t /\ h[j].value = w
                          /\ \A k \in 1..n : j < k => t < h[k].at
    BY <1>1, <1>3, <1>9 DEF WasPublic
  <2>2. ~ (i < j) /\ ~ (j < i)
    BY <1>3, <1>4, <2>1
  <2> QED BY <1>4, <2>1, <2>2
<1> QED
  BY <1>8, <1>9

\* What is last is public from its time on.
LEMMA TheLastIsPublic ==
    ASSUME Chronicle, NEW p \in Periods, truth[p] # <<>>, NEW t \in Nat, Last(truth[p]).at <= t
    PROVE  WasPublic(p, t, Last(truth[p]).value)
<1>1. PICK n \in Nat : n = Len(truth[p]) /\ DOMAIN truth[p] = 1..n /\ n > 0
  <2>1. truth[p] \in Seq(Publication)
    BY DEF Chronicle
  <2> QED BY <2>1, LenProperties, EmptySeq
<1>2. Last(truth[p]) = truth[p][n]
  BY <1>1 DEF Last
<1> QED
  BY <1>1, <1>2 DEF WasPublic

\* What was public at a time remains so when the clock moves, and when what comes is younger.
LEMMA PublicRemains ==
    ASSUME Chronicle, Service
    PROVE  /\ Chronicle' /\ now' >= now
           /\ \A p \in Periods : /\ truth[p] # <<>> => truth'[p] # <<>> /\ truth'[p][1] = truth[p][1]
                                 /\ truth'[p] = truth[p] \/ \A e \in Collected(p) : e.epoch < now /\ e.observed < now
           /\ \A p \in Periods, t \in Nat : \A v :
                  (t < now \/ truth'[p] = truth[p]) /\ WasPublic(p, t, v) => WasPublic(p, t, v)'
<1>1. CASE UNCHANGED truth /\ now' \in {now, now + 1}
  <2>1. now \in Nat /\ now' \in Nat /\ now' >= now
    BY <1>1 DEF Chronicle
  <2>2. Chronicle'
    <3>1. \A p \in Periods : \A i \in DOMAIN truth[p] : truth[p][i].at \in Nat
      <4> SUFFICES ASSUME NEW p \in Periods, NEW i \in DOMAIN truth[p] PROVE truth[p][i].at \in Nat
        OBVIOUS
      <4>1. truth[p] \in Seq(Publication)
        BY DEF Chronicle
      <4>2. truth[p][i] \in Publication
        BY <4>1, LenProperties, ElementOfSeq
      <4> QED BY <4>2 DEF Publication
    <3> QED BY <1>1, <2>1, <3>1 DEF Chronicle
  <2> QED BY <1>1, <2>1, <2>2 DEF WasPublic
<1>2. ASSUME NEW p \in Periods, NEW v \in Values, Publishes(p, v)
      PROVE  /\ Chronicle' /\ now' = now
             /\ \A q \in Periods : /\ truth[q] # <<>> => truth'[q] # <<>> /\ truth'[q][1] = truth[q][1]
                                   /\ truth'[q] = truth[q] \/ \A e \in Collected(q) : e.epoch < now /\ e.observed < now
             /\ \A q \in Periods, t \in Nat : \A w :
                    (t < now \/ truth'[q] = truth[q]) /\ WasPublic(q, t, w) => WasPublic(q, t, w)'
  <2>1. PICK h \in Seq(Publication), n \in Nat : h = truth[p] /\ n = Len(h)
    BY LenProperties DEF Chronicle
  <2>2. PICK r : r = [at |-> now, value |-> v]
    OBVIOUS
  <2>3. PICK g : g = Append(h, r)
    OBVIOUS
  <2>4. r \in Publication /\ r.at = now /\ now \in Nat
    BY <2>2 DEF Publication, Chronicle
  <2>5. /\ g \in Seq(Publication) /\ DOMAIN g = 1..(n + 1) /\ DOMAIN h = 1..n
        /\ g[n + 1] = r /\ \A k \in 1..n : g[k] = h[k]
    <3>1. g \in Seq(Publication) /\ Len(g) = n + 1 /\ g[n + 1] = r /\ \A k \in 1..n : g[k] = h[k]
      BY <2>1, <2>3, <2>4, AppendProperties
    <3> QED BY <2>1, <3>1, LenProperties
  <2>6. /\ truth' = [truth EXCEPT ![p] = g] /\ now' = now
        /\ \A e \in Collected(p) : e.epoch < now /\ e.observed < now
        /\ \A s \in Range(h) : s.at < now
    BY <1>2, <2>1, <2>2, <2>3 DEF Publishes
  <2>7. truth'[p] = g /\ \A q \in Periods \ {p} : truth'[q] = truth[q]
    BY <2>6 DEF Chronicle
  <2>8. \A k \in 1..n : h[k].at \in Nat /\ h[k].at < now
    <3>1. \A k \in 1..n : h[k] \in Publication
      BY <2>1, ElementOfSeq
    <3>2. \A k \in 1..n : h[k] \in Range(h)
      BY <2>5 DEF Range
    <3> QED BY <2>6, <3>1, <3>2 DEF Publication
  <2>9. \A j, k \in 1..n : j < k => h[j].at < h[k].at
    BY <2>1, <2>5 DEF Chronicle
  <2>10. Chronicle'
    <3>1. truth' \in [Periods -> Seq(Publication)] /\ now' \in Nat
      BY <2>4, <2>5, <2>6 DEF Chronicle
    <3>2. ASSUME NEW q \in Periods, NEW i \in DOMAIN truth'[q]
          PROVE  /\ truth'[q][i].at <= now'
                 /\ \A j \in DOMAIN truth'[q] : i < j => truth'[q][i].at < truth'[q][j].at
      <4>1. CASE q # p
        BY <2>6, <2>7, <3>2, <4>1 DEF Chronicle
      <4>2. CASE q = p
        <5>1. i \in 1..(n + 1) /\ truth'[q] = g
          BY <2>5, <2>7, <3>2, <4>2
        <5>2. g[i].at <= now
          BY <2>4, <2>5, <2>8, <5>1
        <5>3. ASSUME NEW j \in 1..(n + 1), i < j PROVE g[i].at < g[j].at
          <6>1. i \in 1..n /\ g[i] = h[i]
            BY <2>5, <5>1, <5>3
          <6>2. CASE j = n + 1
            BY <2>4, <2>5, <2>8, <6>1, <6>2
          <6>3. CASE j # n + 1
            BY <2>5, <2>9, <5>3, <6>1, <6>3
          <6> QED BY <6>2, <6>3
        <5> QED BY <2>5, <2>6, <5>1, <5>2, <5>3
      <4> QED BY <4>1, <4>2
    <3> QED BY <3>1, <3>2 DEF Chronicle
  <2>11. \A q \in Periods : truth[q] # <<>> => truth'[q] # <<>> /\ truth'[q][1] = truth[q][1]
    <3>1. g # <<>>
      BY <2>5, EmptySeq
    <3>2. h # <<>> => g[1] = h[1]
      <4>1. h # <<>> => n > 0
        BY <2>1, EmptySeq
      <4> QED BY <2>1, <2>5, <4>1
    <3> QED BY <2>1, <2>7, <3>1, <3>2
  <2>12. ASSUME NEW q \in Periods, NEW t \in Nat, NEW w, t < now \/ truth'[q] = truth[q], WasPublic(q, t, w)
         PROVE  WasPublic(q, t, w)'
    <3>1. CASE truth'[q] = truth[q]
      BY <2>12, <3>1 DEF WasPublic
    <3>2. CASE truth'[q] # truth[q]
      <4>1. q = p /\ t < now
        BY <2>7, <2>12, <3>2
      <4>2. PICK i \in 1..n : /\ h[i].at <= t /\ h[i].value = w
                              /\ \A j \in 1..n : i < j => t < h[j].at
        BY <2>1, <2>5, <2>12, <4>1 DEF WasPublic
      <4>3. \A j \in 1..(n + 1) : i < j => t < g[j].at
        BY <2>4, <2>5, <4>1, <4>2
      <4>4. i \in 1..(n + 1) /\ g[i] = h[i]
        BY <2>5, <4>2
      <4> QED BY <2>5, <2>7, <4>1, <4>2, <4>3, <4>4 DEF WasPublic
    <3> QED BY <3>1, <3>2
  <2> QED BY <2>6, <2>7, <2>10, <2>11, <2>12
<1>3. CASE \E p \in Periods, v \in Values : Publishes(p, v)
  BY <1>2, <1>3 DEF Chronicle
<1>4. CASE ~ \E p \in Periods, v \in Values : Publishes(p, v)
  BY <1>1, <1>4 DEF Service, Ticks, ListsRecord, Collects
<1> QED
  BY <1>3, <1>4

----------------------------------------------------------------------------
(* What the service lists.                                                 *)

Revision == [value : Values, snapshot : BOOLEAN, epoch : Nat, observed : Nat \cup {Unknown}]

\* What an entry dates, was public then, and had been released.
Sound(p, e) ==
    AvailableAt(e) # Unknown =>
        /\ truth[p][1].at <= AvailableAt(e)
        /\ WasPublic(p, AvailableAt(e), e.value)

\* A record is of a period that was released, has the time of it or none, and what was
\* collected includes the first release.
Records ==
    /\ DOMAIN records \subseteq Periods /\ IsFiniteSet(DOMAIN records)
    /\ records \in [DOMAIN records -> [released : Nat \cup {Unknown}, own : Revision,
                                       revisions : SUBSET Revision]]
    /\ \A p \in DOMAIN records :
           /\ truth[p] # <<>> /\ records[p].released \in {truth[p][1].at, Unknown}
           /\ records[p].revisions # {} => records[p].own \in records[p].revisions
           /\ \A e \in Collected(p) : Sound(p, e)

\* The first and the last publication of a period.
LEMMA Publications ==
    ASSUME Chronicle, NEW p \in Periods, truth[p] # <<>>
    PROVE  /\ truth[p][1] = Head(truth[p]) /\ truth[p][1].at \in Nat
           /\ Last(truth[p]).at \in Nat /\ Last(truth[p]).value \in Values
           /\ truth[p][1].at <= Last(truth[p]).at /\ Last(truth[p]).at <= now
<1>1. PICK h \in Seq(Publication) : h = truth[p]
  BY DEF Chronicle
<1>2. PICK n \in Nat : n = Len(h)
  BY LenProperties
<1>3. n > 0 /\ DOMAIN h = 1..n /\ Last(h) = h[n] /\ Head(h) = h[1]
  BY <1>1, <1>2, EmptySeq, LenProperties, HeadTailProperties DEF Last
<1>4. h[1] \in Publication /\ h[n] \in Publication
  BY <1>2, <1>3, ElementOfSeq
<1>5. h[n].at <= now /\ (1 < n => h[1].at < h[n].at)
  BY <1>1, <1>3 DEF Chronicle
<1>6. h[1].at \in Nat /\ h[n].at \in Nat /\ h[n].value \in Values
  BY <1>4 DEF Publication
<1> QED
  BY <1>1, <1>3, <1>5, <1>6

\* What is collected of a period now is sound.
LEMMA EntriesAreSound ==
    ASSUME Chronicle, NEW p \in Periods, truth[p] # <<>>, NEW e \in Entries(p)
    PROVE  e \in Revision /\ Sound(p, e)
<1>1. PICK first \in Nat, last \in Nat, v \in Values :
          /\ first = truth[p][1].at /\ first = Head(truth[p]).at
          /\ last = Last(truth[p]).at /\ v = Last(truth[p]).value
          /\ first <= last /\ last <= now
  BY Publications
<1>2. now \in Nat
  BY DEF Chronicle
<1>3. \A t \in Nat : last <= t => WasPublic(p, t, v)
  BY <1>1, TheLastIsPublic
<1>4. \/ \E at \in {last, now} : e = Entry(v, FALSE, at, Unknown)
      \/ \E at \in {Unknown, now} : e = Entry(v, TRUE, first, at)
  BY <1>1 DEF Entries
<1>5. CASE \E at \in {last, now} : e = Entry(v, FALSE, at, Unknown)
  <2>1. PICK at \in {last, now} : e = Entry(v, FALSE, at, Unknown)
    BY <1>5
  <2>2. at \in Nat /\ last <= at /\ first <= at
    BY <1>1, <1>2
  <2>3. e \in Revision /\ AvailableAt(e) = at /\ e.value = v
    BY <2>1, <2>2 DEF Entry, Revision, AvailableAt
  <2> QED BY <1>1, <1>3, <2>2, <2>3 DEF Sound
<1>6. CASE \E at \in {Unknown, now} : e = Entry(v, TRUE, first, at)
  <2>1. PICK at \in {Unknown, now} : e = Entry(v, TRUE, first, at)
    BY <1>6
  <2>2. e \in Revision /\ AvailableAt(e) = at /\ e.value = v
    BY <1>2, <2>1 DEF Entry, Revision, AvailableAt
  <2>3. at # Unknown => at = now /\ first <= at /\ last <= at
    BY <1>1, <1>2, <2>1
  <2> QED BY <1>1, <1>2, <1>3, <2>2, <2>3 DEF Sound
<1> QED
  BY <1>4, <1>5, <1>6

\* A sound entry remains so.
LEMMA SoundRemains ==
    ASSUME Chronicle, Service, NEW p \in Periods, truth[p] # <<>>, NEW e \in Revision, Sound(p, e),
           truth'[p] = truth[p] \/ (e.epoch < now /\ e.observed < now)
    PROVE  Sound(p, e)'
<1>1. CASE AvailableAt(e) = Unknown
  BY <1>1 DEF Sound, AvailableAt
<1>2. CASE AvailableAt(e) # Unknown
  <2>1. PICK t \in Nat : t = AvailableAt(e) /\ t \in {e.epoch, e.observed}
    BY <1>2 DEF AvailableAt, Revision
  <2>2. truth[p][1].at <= t /\ WasPublic(p, t, e.value)
    BY <1>2, <2>1 DEF Sound
  <2>3. t < now \/ truth'[p] = truth[p]
    BY <2>1
  <2>4. truth'[p][1] = truth[p][1]
    BY PublicRemains
  <2>5. PICK v : v = e.value
    OBVIOUS
  <2>6. WasPublic(p, t, v)'
    BY <2>2, <2>3, <2>5, PublicRemains
  <2> QED BY <2>1, <2>2, <2>4, <2>5, <2>6 DEF Sound, AvailableAt
<1> QED
  BY <1>1, <1>2

\* The service forgets nothing, and what it lists stays sound.
LEMMA RecordsRemain ==
    ASSUME Chronicle, Records, Service
    PROVE  /\ Records' /\ DOMAIN records \subseteq DOMAIN records'
           /\ \A p \in DOMAIN records : /\ records'[p].released = records[p].released
                                        /\ Collected(p) \subseteq Collected(p)'
<1>1. /\ Chronicle' /\ now \in Nat
      /\ \A p \in Periods : /\ truth[p] # <<>> => truth'[p] # <<>> /\ truth'[p][1] = truth[p][1]
                            /\ truth'[p] = truth[p] \/ \A e \in Collected(p) : e.epoch < now /\ e.observed < now
  BY PublicRemains DEF Chronicle
<1>2. ASSUME NEW p \in DOMAIN records
      PROVE  /\ p \in Periods /\ truth'[p] # <<>>
             /\ records[p].released \in {truth'[p][1].at, Unknown}
             /\ \A e \in Collected(p) : e \in Revision /\ Sound(p, e)'
  <2>1. /\ p \in Periods /\ truth[p] # <<>>
        /\ records[p].released \in {truth[p][1].at, Unknown}
        /\ \A e \in Collected(p) : e \in Revision /\ Sound(p, e)
    <3>1. \A e \in Collected(p) : e \in Revision
      BY DEF Records, Collected
    <3> QED BY <3>1 DEF Records
  <2>2. \A e \in Collected(p) : truth'[p] = truth[p] \/ (e.epoch < now /\ e.observed < now)
    BY <1>1, <2>1
  <2>3. \A e \in Collected(p) : Sound(p, e)'
    BY <2>1, <2>2, SoundRemains
  <2> QED BY <1>1, <2>1, <2>3
<1>3. CASE UNCHANGED records
  <2>1. \A p : Collected(p)' = Collected(p)
    BY <1>3 DEF Collected
  <2>2. Records'
    BY <1>2, <1>3, <2>1 DEF Records
  <2> QED BY <1>3, <2>1, <2>2
<1>4. ASSUME NEW p \in Periods, ListsRecord(p)
      PROVE  /\ Records' /\ DOMAIN records \subseteq DOMAIN records'
             /\ \A q \in DOMAIN records : records'[q] = records[q]
  <2>1. PICK own \in Entries(p), at \in {Head(truth[p]).at, Unknown} :
            records' = [q \in DOMAIN records \cup {p} |->
                IF q = p THEN [released |-> at, own |-> own, revisions |-> {}] ELSE records[q]]
    BY <1>4 DEF ListsRecord
  <2>2. p \notin DOMAIN records /\ Len(truth[p]) = 1 /\ truth' = truth
    BY <1>4 DEF ListsRecord
  <2>3. truth[p] # <<>>
    <3>1. truth[p] \in Seq(Publication)
      BY DEF Chronicle
    <3> QED BY <2>2, <3>1, EmptySeq
  <2>4. own \in Revision /\ Sound(p, own)
    BY <2>3, EntriesAreSound
  <2>5. at \in {truth[p][1].at, Unknown} /\ at \in Nat \cup {Unknown}
    BY <2>3, Publications
  <2>6. PICK D : D = DOMAIN records \cup {p}
    OBVIOUS
  <2>7. /\ DOMAIN records' = D /\ D \subseteq Periods /\ IsFiniteSet(D)
        /\ records'[p] = [released |-> at, own |-> own, revisions |-> {}]
        /\ \A q \in DOMAIN records : q \in D /\ records'[q] = records[q]
    <3>1. IsFiniteSet(D)
      BY <2>6, FS_AddElement DEF Records
    <3> QED BY <2>1, <2>2, <2>6, <3>1 DEF Records
  <2>8. ASSUME NEW q \in D
        PROVE  /\ records'[q] \in [released : Nat \cup {Unknown}, own : Revision, revisions : SUBSET Revision]
               /\ truth'[q] # <<>> /\ records'[q].released \in {truth'[q][1].at, Unknown}
               /\ records'[q].revisions # {} => records'[q].own \in records'[q].revisions
               /\ \A e \in Collected(q)' : Sound(q, e)'
    <3>1. CASE q = p
      <4>1. Collected(q)' = {own}
        BY <2>7, <2>8, <3>1 DEF Collected
      <4>2. Sound(q, own)'
        BY <2>2, <2>4, <3>1 DEF Sound, WasPublic, AvailableAt
      <4> QED BY <2>2, <2>3, <2>4, <2>5, <2>7, <3>1, <4>1, <4>2
    <3>2. CASE q # p
      <4>1. q \in DOMAIN records /\ records'[q] = records[q]
        BY <2>6, <2>7, <2>8, <3>2
      <4>2. Collected(q)' = Collected(q)
        BY <2>7, <4>1 DEF Collected
      <4> QED BY <1>2, <4>1, <4>2 DEF Records
    <3> QED BY <3>1, <3>2
  <2>9. records' = [q \in D |-> records'[q]]
    BY <2>1, <2>6
  <2>10. Records'
    BY <2>7, <2>8, <2>9 DEF Records
  <2> QED BY <2>7, <2>10
<1>5. ASSUME NEW p \in Periods, Collects(p)
      PROVE  /\ Records' /\ DOMAIN records' = DOMAIN records
             /\ \A q \in DOMAIN records : /\ records'[q].released = records[q].released
                                          /\ Collected(q) \subseteq Collected(q)'
  <2>1. PICK e \in Entries(p) : records' = [records EXCEPT ![p].revisions = @ \cup {records[p].own, e}]
    BY <1>5 DEF Collects
  <2>2. p \in DOMAIN records /\ truth' = truth
    BY <1>5 DEF Collects
  <2>3. e \in Revision /\ Sound(p, e)
    BY <2>2, EntriesAreSound DEF Records
  <2>4. PICK r \in [released : Nat \cup {Unknown}, own : Revision, revisions : SUBSET Revision] : r = records[p]
    BY <2>2 DEF Records
  <2>5. PICK n : n = [r EXCEPT !.revisions = @ \cup {r.own, e}]
    OBVIOUS
  <2>6. /\ n \in [released : Nat \cup {Unknown}, own : Revision, revisions : SUBSET Revision]
        /\ n.released = r.released /\ n.own = r.own /\ n.revisions = r.revisions \cup {r.own, e}
    BY <2>3, <2>4, <2>5
  <2>7. /\ DOMAIN records' = DOMAIN records /\ records'[p] = n
        /\ \A q \in DOMAIN records \ {p} : records'[q] = records[q]
    BY <2>1, <2>2, <2>4, <2>5 DEF Records
  <2>8. /\ Collected(p)' = Collected(p) \cup {e}
        /\ \A q \in DOMAIN records \ {p} : Collected(q)' = Collected(q)
    BY <2>2, <2>4, <2>6, <2>7 DEF Collected
  <2>9. Sound(p, e)'
    BY <2>2, <2>3 DEF Sound, WasPublic, AvailableAt
  <2>10. records' = [q \in DOMAIN records |-> records'[q]]
    BY <2>1 DEF Records
  <2>11. \A q \in DOMAIN records : records'[q] \in [released : Nat \cup {Unknown}, own : Revision, revisions : SUBSET Revision]
    BY <2>6, <2>7 DEF Records
  <2>12. ASSUME NEW q \in DOMAIN records
         PROVE  /\ truth'[q] # <<>> /\ records'[q].released \in {truth'[q][1].at, Unknown}
                /\ records'[q].revisions # {} => records'[q].own \in records'[q].revisions
                /\ \A x \in Collected(q)' : Sound(q, x)'
    <3>1. CASE q = p
      <4>1. \A x \in Collected(q)' : Sound(q, x)'
        BY <1>2, <2>8, <2>9, <3>1
      <4> QED BY <1>2, <2>4, <2>6, <2>7, <3>1, <4>1
    <3>2. CASE q # p
      <4>1. records'[q] = records[q] /\ Collected(q)' = Collected(q)
        BY <2>7, <2>8, <3>2
      <4> QED BY <1>2, <4>1 DEF Records
    <3> QED BY <3>1, <3>2
  <2>13. Records'
    BY <2>7, <2>10, <2>11, <2>12 DEF Records
  <2> QED BY <2>4, <2>6, <2>7, <2>8, <2>13
<1>6. CASE \E p \in Periods : ListsRecord(p)
  <2>1. \A p : p \in DOMAIN records /\ records'[p] = records[p] /\ p \in DOMAIN records' => Collected(p)' = Collected(p)
    BY DEF Collected
  <2> QED BY <1>4, <1>6, <2>1
<1>7. CASE \E p \in Periods : Collects(p)
  BY <1>5, <1>7
<1> QED
  BY <1>3, <1>6, <1>7 DEF Service, Ticks, Publishes

----------------------------------------------------------------------------
(* The vintages of a record.                                               *)

LEMMA TheLater ==
    ASSUME NEW a \in Int, NEW b \in Int, a <= b
    PROVE  Max({a, b}) = b
BY DEF Max

\* What is collected of a released period is a candidate where it has a time, and nothing else.
LEMMA CandidatesAreSound ==
    ASSUME Chronicle, Records, NEW p \in DOMAIN records, Released(p)
    PROVE  /\ p \in Periods /\ records[p].released = truth[p][1].at /\ records[p].released \in Nat
           /\ \A c \in Candidates(records[p]) :
                  /\ c = [at |-> c.at, value |-> c.value]
                  /\ c.at \in Nat /\ c.value \in Values /\ records[p].released <= c.at
                  /\ WasPublic(p, c.at, c.value)
                  /\ \E e \in Collected(p) : AvailableAt(e) = c.at /\ e.value = c.value
           /\ \A e \in Collected(p) : AvailableAt(e) # Unknown =>
                  [at |-> AvailableAt(e), value |-> e.value] \in Candidates(records[p])
<1>1. PICK r \in [released : Nat \cup {Unknown}, own : Revision, revisions : SUBSET Revision] : r = records[p]
  BY DEF Records
<1>2. /\ p \in Periods /\ truth[p] # <<>> /\ r.released = truth[p][1].at /\ r.released \in Nat
      /\ r.revisions # {} => r.own \in r.revisions
      /\ \A e \in Collected(p) : Sound(p, e)
  <2>1. r.released # Unknown
    BY <1>1 DEF Released
  <2> QED BY <1>1, <2>1 DEF Records
<1>3. PICK entries : entries = IF r.revisions = {} THEN {r.own} ELSE r.revisions
  OBVIOUS
<1>4. entries = Collected(p)
  BY <1>1, <1>2, <1>3 DEF Collected
<1>5. \A e \in entries : e \in Revision
  BY <1>1, <1>3
<1>6. ASSUME NEW e \in entries, AvailableAt(e) # Unknown
      PROVE  /\ AvailableAt(e) \in Nat /\ e.value \in Values /\ r.released <= AvailableAt(e)
             /\ WasPublic(p, AvailableAt(e), e.value)
             /\ Max({r.released, AvailableAt(e)}) = AvailableAt(e)
  <2>1. AvailableAt(e) \in Nat /\ e.value \in Values
    BY <1>5, <1>6 DEF AvailableAt, Revision
  <2>2. r.released <= AvailableAt(e) /\ WasPublic(p, AvailableAt(e), e.value)
    BY <1>2, <1>4, <1>6 DEF Sound
  <2>3. PICK t \in Nat : t = AvailableAt(e)
    BY <2>1
  <2>4. Max({r.released, t}) = t
    BY <1>2, <2>2, <2>3, TheLater
  <2> QED BY <2>1, <2>2, <2>3, <2>4
<1>7. Candidates(r) = {[at |-> Max({r.released, AvailableAt(e)}), value |-> e.value] :
                           e \in {x \in entries : AvailableAt(x) # Unknown}}
  BY <1>3 DEF Candidates
<1>8. ASSUME NEW c \in Candidates(r)
      PROVE  /\ c = [at |-> c.at, value |-> c.value]
             /\ c.at \in Nat /\ c.value \in Values /\ r.released <= c.at
             /\ WasPublic(p, c.at, c.value)
             /\ \E e \in entries : AvailableAt(e) = c.at /\ e.value = c.value
  <2>1. PICK e \in entries : /\ AvailableAt(e) # Unknown
                             /\ c = [at |-> Max({r.released, AvailableAt(e)}), value |-> e.value]
    BY <1>7, <1>8
  <2>2. c = [at |-> AvailableAt(e), value |-> e.value]
    BY <1>6, <2>1
  <2>3. c.at = AvailableAt(e) /\ c.value = e.value
    BY <2>2
  <2> QED BY <1>6, <2>1, <2>2, <2>3
<1>9. ASSUME NEW e \in entries, AvailableAt(e) # Unknown
      PROVE  [at |-> AvailableAt(e), value |-> e.value] \in Candidates(r)
  BY <1>6, <1>7, <1>9
<1> QED
  BY <1>1, <1>2, <1>4, <1>8, <1>9

\* The earliest of the candidates from which on a value stood is a vintage: what is before it
\* is another value.
LEMMA AVintageStands ==
    ASSUME NEW r, NEW C, C = Candidates(r), \A c \in C : c.at \in Nat /\ c.value \in Int,
           \A b, c \in C : b.at = c.at => b = c, NEW k \in C
    PROVE  \E o \in Vintages(r) :
               /\ o \in C /\ o.at <= k.at /\ o.value = k.value
               /\ \A c \in C : o.at < c.at /\ c.at <= k.at => c.value = k.value
<1>1. PICK T : T = {t \in Nat : \E c \in C :
                       /\ c.at = t /\ t <= k.at /\ c.value = k.value
                       /\ \A d \in C : t < d.at /\ d.at <= k.at => d.value = k.value}
  OBVIOUS
<1>2. T \in SUBSET Nat /\ k.at \in T
  BY <1>1
<1>3. PICK t \in T : \A y \in T : t <= y
  <2>1. Min(T) \in T /\ \A y \in T : Min(T) <= y
    BY <1>2, MinOfNats
  <2> QED BY <2>1
<1>4. PICK o \in C : /\ o.at = t /\ o.at <= k.at /\ o.value = k.value
                     /\ \A d \in C : o.at < d.at /\ d.at <= k.at => d.value = k.value
  BY <1>1, <1>3
<1>5. ASSUME NEW b \in C, Precedes(b, o), \A d \in C : ~ (Precedes(b, d) /\ Precedes(d, o)),
             b.value = o.value
      PROVE  FALSE
  <2>1. b.at < o.at
    BY <1>5 DEF Precedes
  <2>2. ASSUME NEW d \in C, b.at < d.at, d.at <= k.at PROVE d.value = k.value
    <3>1. CASE d.at < o.at
      BY <1>5, <2>2, <3>1 DEF Precedes
    <3>2. CASE d.at = o.at
      BY <1>4, <3>2
    <3>3. CASE o.at < d.at
      BY <1>4, <2>2, <3>3
    <3> QED BY <3>1, <3>2, <3>3
  <2>3. b.at \in T
    <3>1. b.at <= k.at /\ b.at \in Nat /\ b.value = k.value
      BY <1>4, <1>5, <2>1
    <3> QED BY <1>1, <2>2, <3>1
  <2> QED BY <1>3, <1>4, <2>1, <2>3
<1>6. o \in Vintages(r)
  <2>1. \A b \in C : ((Precedes(b, o) /\ \A d \in C : ~ (Precedes(b, d) /\ Precedes(d, o)))
                          => b.value # o.value)
    BY <1>5
  <2> QED BY <2>1 DEF Vintages
<1> QED
  BY <1>4, <1>6

----------------------------------------------------------------------------
(* What is told.                                                           *)

Observation == [period : Periods, released : Nat, at : Nat, value : Values]

\* The service has collected what an observation says.
Recorded(o) ==
    /\ o.period \in DOMAIN records /\ Released(o.period)
    /\ o.released = records[o.period].released
    /\ \E e \in Collected(o.period) : AvailableAt(e) = o.at /\ e.value = o.value

\* At the time of a change the observations have its value.
Tells(observations, k) ==
    \E o \in observations :
        /\ o.period = k.period /\ o.at <= k.at /\ o.value = k.value
        /\ \A x \in observations :
               x.period = k.period /\ o.at < x.at /\ x.at <= k.at => x.value = k.value

\* What was collected is a candidate, and true.
LEMMA RecordedIsTrue ==
    ASSUME Chronicle, Records, NEW o \in Observation, Recorded(o)
    PROVE  /\ o.period <= o.released /\ o.released <= o.at
           /\ WasPublic(o.period, o.at, o.value)
           /\ [at |-> o.at, value |-> o.value] \in Candidates(records[o.period])
<1>1. PICK p \in DOMAIN records : p = o.period /\ Released(p) /\ o.released = records[p].released
  BY DEF Recorded
<1>2. PICK e \in Collected(p) : AvailableAt(e) = o.at /\ e.value = o.value
  BY <1>1 DEF Recorded
<1>3. o.at \in Nat /\ o.at # Unknown
  BY DEF Observation, Unknown
<1>4. PICK c : c = [at |-> o.at, value |-> o.value]
  OBVIOUS
<1>5. c \in Candidates(records[p])
  BY <1>1, <1>2, <1>3, <1>4, CandidatesAreSound
<1>6. records[p].released <= c.at /\ WasPublic(p, c.at, c.value)
  BY <1>1, <1>5, CandidatesAreSound
<1>7. c.at = o.at /\ c.value = o.value
  BY <1>4
<1>8. p <= records[p].released
  BY <1>1 DEF Released
<1> QED
  BY <1>1, <1>4, <1>5, <1>6, <1>7, <1>8

\* What the provider observes of a record was collected.
LEMMA ObservedIsRecorded ==
    ASSUME Chronicle, Records, NEW p \in DOMAIN records, NEW o \in Observed(p)
    PROVE  o \in Observation /\ o.period = p /\ Recorded(o)
<1>1. Released(p)
  BY DEF Observed
<1>2. PICK c \in Vintages(records[p]) :
          o = [period |-> p, released |-> records[p].released, at |-> c.at, value |-> c.value]
  BY <1>1 DEF Observed
<1>3. c \in Candidates(records[p])
  BY <1>2 DEF Vintages
<1>4. p \in Periods /\ records[p].released \in Nat
  BY <1>1, CandidatesAreSound
<1>5. /\ c.at \in Nat /\ c.value \in Values
      /\ \E e \in Collected(p) : AvailableAt(e) = c.at /\ e.value = c.value
  BY <1>1, <1>3, CandidatesAreSound
<1>6. o \in Observation /\ o.period = p /\ o.released = records[p].released /\ o.at = c.at /\ o.value = c.value
  BY <1>2, <1>4, <1>5 DEF Observation
<1> QED
  BY <1>1, <1>5, <1>6 DEF Recorded

\* A page tells all changes of its periods, and takes none of the others back.
LEMMA PageTells ==
    ASSUME Chronicle, Records, NEW old, \A o \in old : o \in Observation /\ Recorded(o),
           NEW Q \in SUBSET DOMAIN records, NEW told, told = UNION {Observed(p) : p \in Q},
           NEW new, new = Merged(old, told)
    PROVE  /\ \A o \in new : o \in Observation /\ Recorded(o)
           /\ \A k \in Observation : Recorded(k) /\ (k.period \in Q \/ Tells(old, k)) => Tells(new, k)
<1>1. \A o \in told : o \in Observation /\ Recorded(o) /\ o.period \in Q
  BY ObservedIsRecorded
<1>2. new = {o \in old : \A n \in told : ~ SameKey(o, n)}
            \cup {n \in told : \A m \in told : SameKey(m, n) => m.value <= n.value}
  BY DEF Merged
<1>3. \A o \in new : o \in old \/ o \in told
  BY <1>2
<1>4. \A o \in new : o \in Observation /\ Recorded(o)
  BY <1>1, <1>3
<1>5. ASSUME NEW k \in Observation, Recorded(k), k.period \in Q PROVE Tells(new, k)
  <2>1. PICK p \in DOMAIN records : p = k.period /\ Released(p)
    BY <1>5 DEF Recorded
  <2>2. PICK r : r = records[p]
    OBVIOUS
  <2>3. PICK C : C = Candidates(r)
    OBVIOUS
  <2>4. /\ p \in Periods /\ r.released \in Nat
        /\ \A c \in C : c = [at |-> c.at, value |-> c.value] /\ c.at \in Nat /\ c.value \in Values
                        /\ WasPublic(p, c.at, c.value)
    BY <2>1, <2>2, <2>3, CandidatesAreSound
  <2>5. PICK c \in C : c = [at |-> k.at, value |-> k.value] /\ c.at = k.at /\ c.value = k.value
    <3>1. [at |-> k.at, value |-> k.value] \in C
      BY <1>5, <2>1, <2>2, <2>3, RecordedIsTrue
    <3> QED BY <3>1
  <2>6. \A b, d \in C : b.at = d.at => b = d
    <3> SUFFICES ASSUME NEW b \in C, NEW d \in C, b.at = d.at PROVE b = d
      OBVIOUS
    <3>1. PICK t \in Nat, v \in Values, w \in Values : t = b.at /\ v = b.value /\ w = d.value
      BY <2>4
    <3>2. WasPublic(p, t, v) /\ WasPublic(p, t, w)
      BY <2>4, <3>1
    <3>3. w = v
      BY <2>4, <3>2, OneIsPublic
    <3> QED BY <2>4, <3>1, <3>3
  <2>7. \A d \in C : d.at \in Nat /\ d.value \in Int
    BY <2>4, MacroAssumption
  <2>8. PICK v \in Vintages(r) :
            /\ v \in C /\ v.at <= c.at /\ v.value = c.value
            /\ \A d \in C : v.at < d.at /\ d.at <= c.at => d.value = c.value
    BY <2>3, <2>6, <2>7, AVintageStands
  <2>9. PICK o : o = [period |-> p, released |-> r.released, at |-> v.at, value |-> v.value]
    OBVIOUS
  <2>10. o \in Observed(p) /\ o.period = p /\ o.at = v.at /\ o.value = v.value
    BY <2>1, <2>2, <2>8, <2>9 DEF Observed
  <2>11. o \in told
    BY <1>5, <2>1, <2>10
  <2>12. ASSUME NEW m \in told, SameKey(m, o) PROVE m.value <= o.value
    <3>1. m \in Observation /\ Recorded(m) /\ m.period = p /\ m.at = v.at
      BY <1>1, <2>10, <2>12 DEF SameKey
    <3>2. [at |-> m.at, value |-> m.value] \in C
      BY <2>2, <2>3, <3>1, RecordedIsTrue
    <3>3. PICK d \in C : d.at = m.at /\ d.value = m.value
      BY <3>2
    <3>4. d = v
      BY <2>6, <2>8, <3>1, <3>3
    <3> QED BY <2>7, <2>10, <3>3, <3>4
  <2>13. o \in new
    BY <1>2, <2>11, <2>12
  <2>14. ASSUME NEW x \in new, x.period = k.period, o.at < x.at, x.at <= k.at PROVE x.value = k.value
    <3>1. [at |-> x.at, value |-> x.value] \in C
      BY <1>4, <2>1, <2>2, <2>3, <2>14, RecordedIsTrue
    <3>2. PICK d \in C : d.at = x.at /\ d.value = x.value
      BY <3>1
    <3> QED BY <2>5, <2>8, <2>10, <2>14, <3>2
  <2> QED BY <2>1, <2>5, <2>8, <2>10, <2>13, <2>14 DEF Tells
<1>6. ASSUME NEW k \in Observation, k.period \notin Q, Tells(old, k) PROVE Tells(new, k)
  <2>1. PICK o \in old : /\ o.period = k.period /\ o.at <= k.at /\ o.value = k.value
                         /\ \A x \in old : x.period = k.period /\ o.at < x.at /\ x.at <= k.at
                                => x.value = k.value
    BY <1>6 DEF Tells
  <2>2. \A n \in told : ~ SameKey(o, n)
    BY <1>1, <1>6, <2>1 DEF SameKey
  <2>3. o \in new
    BY <1>2, <2>2
  <2>4. \A x \in new : x.period = k.period => x \in old
    BY <1>1, <1>3, <1>6
  <2> QED BY <2>1, <2>3, <2>4 DEF Tells
<1> QED
  BY <1>4, <1>5, <1>6

----------------------------------------------------------------------------
(* The pages.                                                              *)

\* What the service lists for the request.
Shown == {p \in DOMAIN records : fetch.start - 1 <= p /\ p < fetch.end}

\* The place of a period in the listing.
Place(p) == Cardinality({q \in Shown : q <= p})

\* What the service could tell as the fetch began is listed in the range, and is told when the
\* pages have passed its period, wherever the listing has moved it.
FetchInv ==
    /\ fetch \in [pc : {"idle", "get", "done", "failed"}, start : Nat, end : Nat, maxPages : Nat,
                  pages : Nat, offset : Nat, attempt : Nat, observations : SUBSET Observation]
    /\ known \subseteq Observation
    /\ \A o \in fetch.observations \cup known : Recorded(o)
    /\ \A k \in known : InRange(k.period)
    /\ fetch.pc = "get" =>
           \A k \in known : Place(k.period) <= fetch.offset => Tells(fetch.observations, k)
    /\ fetch.pc = "done" => \A k \in known : Tells(fetch.observations, k)

MacroInv == Chronicle /\ Records /\ FetchInv

LEMMA ShownAreNumbers ==
    ASSUME Records
    PROVE  Shown \in SUBSET Nat /\ IsFiniteSet(Shown)
<1>1. Shown \in SUBSET DOMAIN records
  BY DEF Shown
<1> QED
  BY <1>1, FS_Subset, MacroAssumption DEF Records

\* The listing has every period at its place.
LEMMA ListingPlaces ==
    ASSUME Records
    PROVE  \E n \in Nat :
               /\ n = Len(Listing) /\ Listing \in [1..n -> Shown]
               /\ \A q \in Shown : Place(q) \in 1..n /\ Listing[Place(q)] = q
<1>1. PICK S \in SUBSET Nat : S = Shown /\ IsFiniteSet(S)
  BY ShownAreNumbers
<1>2. PICK l : l = Listing
  OBVIOUS
<1>3. l = Ordered(S)
  BY <1>1, <1>2 DEF Listing, Shown
<1>4. PICK n \in Nat : n = Cardinality(S)
  BY <1>1, FS_CardinalityType
<1>5. PICK s \in [1..n -> S] : s = l /\ Increases(s) /\ \A x \in S : \E j \in 1..n : s[j] = x
  <2>1. /\ l \in [1..n -> S] /\ Increases(l)
        /\ \A x \in S : \E i \in 1..n : l[i] = x
    BY <1>1, <1>3, <1>4, OrderedSorts
  <2> QED BY <2>1
<1>6. Len(s) = n
  <2>1. s \in Seq(S)
    OBVIOUS
  <2> QED BY <2>1, LenProperties
<1>7. ASSUME NEW i \in 1..n, NEW T, T = {x \in S : x <= s[i]}
      PROVE  Cardinality(T) = i
  BY <1>5, <1>7, PlaceInOrder
<1>8. ASSUME NEW q \in S PROVE Place(q) \in 1..n /\ s[Place(q)] = q
  <2>1. PICK i \in 1..n : s[i] = q
    BY <1>5
  <2>2. Place(q) = i
    BY <1>1, <1>7, <2>1 DEF Place
  <2> QED BY <2>1, <2>2
<1> QED
  BY <1>1, <1>2, <1>5, <1>6, <1>8

\* A period that comes to be listed moves the others on, never back.
LEMMA PlacesMoveOn ==
    ASSUME Records, Records', DOMAIN records \subseteq DOMAIN records', fetch' = fetch, NEW p
    PROVE  Place(p) \in Nat /\ Place(p)' \in Nat /\ Place(p) <= Place(p)'
<1>1. PICK A : A = {q \in Shown : q <= p}
  OBVIOUS
<1>2. PICK B : B = {q \in Shown' : q <= p}
  OBVIOUS
<1>3. Shown' \in SUBSET DOMAIN records' /\ Shown \subseteq Shown'
  BY DEF Shown
<1>4. IsFiniteSet(Shown')
  BY <1>3, FS_Subset DEF Records
<1>5. B \in SUBSET Shown' /\ A \in SUBSET B
  BY <1>1, <1>2, <1>3
<1>6. IsFiniteSet(B) /\ IsFiniteSet(A)
  BY <1>4, <1>5, FS_Subset
<1>7. Cardinality(A) <= Cardinality(B) /\ Cardinality(A) \in Nat /\ Cardinality(B) \in Nat
  BY <1>5, <1>6, FS_Subset, FS_CardinalityType
<1>8. Place(p) = Cardinality(A) /\ Place(p)' = Cardinality(B)
  BY <1>1, <1>2 DEF Place
<1> QED
  BY <1>7, <1>8

\* What was collected is still recorded.
LEMMA RecordedRemains ==
    ASSUME DOMAIN records \subseteq DOMAIN records',
           \A p \in DOMAIN records : /\ records'[p].released = records[p].released
                                     /\ Collected(p) \subseteq Collected(p)',
           NEW o, Recorded(o)
    PROVE  Recorded(o)'
<1>1. PICK p \in DOMAIN records : p = o.period /\ Released(p) /\ o.released = records[p].released
  BY DEF Recorded
<1>2. PICK e \in Collected(p) : AvailableAt(e) = o.at /\ e.value = o.value
  BY <1>1 DEF Recorded
<1>3. p \in DOMAIN records' /\ records'[p].released = records[p].released /\ e \in Collected(p)'
  BY <1>1, <1>2
<1>4. Released(p)'
  BY <1>1, <1>3 DEF Released
<1>5. o.period \in DOMAIN records' /\ Released(o.period)' /\ o.released = records'[o.period].released
      /\ \E x \in Collected(o.period)' : AvailableAt(x) = o.at /\ x.value = o.value
  BY <1>1, <1>2, <1>3, <1>4 DEF Released, Collected
<1> QED
  BY <1>5 DEF Recorded, AvailableAt

LEMMA ServiceKeeps ==
    ASSUME MacroInv, Service
    PROVE  MacroInv'
<1>1. Chronicle' /\ Records' /\ fetch' = fetch /\ known' = known
  <2>1. fetch' = fetch /\ known' = known
    BY DEF Service, Ticks, Publishes, ListsRecord, Collects
  <2> QED BY <2>1, PublicRemains, RecordsRemain DEF MacroInv
<1>2. /\ DOMAIN records \subseteq DOMAIN records'
      /\ \A p \in DOMAIN records : /\ records'[p].released = records[p].released
                                   /\ Collected(p) \subseteq Collected(p)'
  BY RecordsRemain DEF MacroInv
<1>3. \A o : Recorded(o) => Recorded(o)'
  BY <1>2, RecordedRemains
<1>4. \A p : Place(p) \in Nat /\ Place(p)' \in Nat /\ Place(p) <= Place(p)'
  BY <1>1, <1>2, PlacesMoveOn DEF MacroInv
<1>5. fetch.offset \in Nat
  BY DEF MacroInv, FetchInv
<1>6. \A k : Place(k.period)' <= fetch.offset => Place(k.period) <= fetch.offset
  BY <1>4, <1>5
<1>7. FetchInv'
  BY <1>1, <1>3, <1>6 DEF MacroInv, FetchInv, InRange, Tells
<1> QED
  BY <1>1, <1>7 DEF MacroInv

\* What an error or an unanswered request leaves.
LEMMA FailsKeeps ==
    ASSUME MacroInv, Fails, UNCHANGED <<now, truth, records>>
    PROVE  MacroInv'
<1>1. Chronicle' /\ Records'
  BY DEF MacroInv, Chronicle, Records, Collected, Sound, WasPublic, AvailableAt
<1>2. FetchInv'
  BY DEF Fails, NoFetch, FetchInv
<1> QED
  BY <1>1, <1>2 DEF MacroInv

LEMMA RefusedKeeps ==
    ASSUME MacroInv, Refused
    PROVE  MacroInv'
<1>1. CASE Fails
  BY <1>1, FailsKeeps DEF Refused
<1>2. CASE fetch' = Retries /\ UNCHANGED <<now, truth, records, known>>
  <2>1. /\ fetch' \in [pc : {"idle", "get", "done", "failed"}, start : Nat, end : Nat, maxPages : Nat,
                       pages : Nat, offset : Nat, attempt : Nat, observations : SUBSET Observation]
        /\ fetch'.pc = fetch.pc /\ fetch'.start = fetch.start /\ fetch'.end = fetch.end
        /\ fetch'.offset = fetch.offset /\ fetch'.observations = fetch.observations
    BY <1>2 DEF MacroInv, FetchInv, Retries
  <2>2. Chronicle' /\ Records'
    BY <1>2 DEF MacroInv, Chronicle, Records, Collected, Sound, WasPublic, AvailableAt
  <2>3. /\ \A o : Recorded(o)' <=> Recorded(o)
        /\ \A p : (InRange(p)' <=> InRange(p)) /\ Place(p)' = Place(p)
    BY <1>2, <2>1 DEF Recorded, Released, Collected, AvailableAt, InRange, Place, Shown
  <2>4. FetchInv'
    BY <1>2, <2>1, <2>3 DEF MacroInv, FetchInv, Tells
  <2> QED BY <2>2, <2>4 DEF MacroInv
<1> QED
  BY <1>1, <1>2 DEF Refused

LEMMA BeginsKeeps ==
    ASSUME MacroInv, NEW start \in Starts, NEW end \in Ends, NEW maxPages \in MaxPages,
           Begins(start, end, maxPages)
    PROVE  MacroInv'
<1>1. start \in Nat /\ end \in Nat /\ maxPages \in Nat
  BY MacroAssumption
<1>2. /\ fetch' \in [pc : {"idle", "get", "done", "failed"}, start : Nat, end : Nat, maxPages : Nat,
                     pages : Nat, offset : Nat, attempt : Nat, observations : SUBSET Observation]
      /\ fetch'.pc = "get" /\ fetch'.start = start /\ fetch'.end = end
      /\ fetch'.offset = 0 /\ fetch'.observations = {}
  BY <1>1 DEF Begins, NoFetch
<1>3. Chronicle' /\ Records' /\ UNCHANGED <<now, truth, records>>
  BY DEF MacroInv, Chronicle, Records, Collected, Sound, WasPublic, AvailableAt, Begins
<1>4. \A o : Recorded(o)' <=> Recorded(o)
  BY <1>3 DEF Recorded, Released, Collected, AvailableAt
<1>5. ASSUME NEW k \in known'
      PROVE  k \in Observation /\ Recorded(k) /\ k.period \in DOMAIN records
             /\ start <= k.period /\ k.period < end
  <2>1. PICK p \in DOMAIN records : start <= p /\ p < end /\ k \in Observed(p)
    BY <1>5 DEF Begins
  <2>2. k \in Observation /\ k.period = p /\ Recorded(k)
    BY <2>1, ObservedIsRecorded DEF MacroInv
  <2> QED BY <2>1, <2>2
<1>6. ASSUME NEW k \in known' PROVE ~ (Place(k.period)' <= 0)
  <2>1. PICK S : S = Shown'
    OBVIOUS
  <2>2. k.period \in S /\ k.period \in Nat /\ IsFiniteSet(S)
    <3>1. k.period \in Nat
      BY <1>5, MacroAssumption DEF Observation
    <3>2. S = {p \in DOMAIN records : start - 1 <= p /\ p < end}
      BY <1>2, <1>3, <2>1 DEF Shown
    <3>3. IsFiniteSet(S)
      BY <3>2, FS_Subset DEF MacroInv, Records
    <3> QED BY <1>1, <1>5, <3>1, <3>2, <3>3
  <2>3. PICK A : A = {q \in S : q <= k.period}
    OBVIOUS
  <2>4. A \in SUBSET S /\ A # {}
    BY <2>2, <2>3
  <2>5. Cardinality(A) \in Nat /\ Cardinality(A) # 0
    BY <2>2, <2>4, FS_Subset, FS_CardinalityType, FS_EmptySet
  <2>6. Place(k.period)' = Cardinality(A)
    BY <2>1, <2>3 DEF Place
  <2> QED BY <2>5, <2>6
<1>7. FetchInv'
  BY <1>2, <1>4, <1>5, <1>6 DEF FetchInv, InRange
<1> QED
  BY <1>3, <1>7 DEF MacroInv

\* A page tells the changes of its periods, wherever they stand in the listing by now.
LEMMA PageKeeps ==
    ASSUME MacroInv, Page
    PROVE  MacroInv'
<1>1. PICK n \in Nat : /\ n = Len(Listing) /\ Listing \in [1..n -> Shown]
                       /\ \A q \in Shown : Place(q) \in 1..n /\ Listing[Place(q)] = q
  BY ListingPlaces DEF MacroInv
<1>2. PICK offset \in Nat : offset = fetch.offset
  BY DEF MacroInv, FetchInv
<1>3. PICK returned \in 0..PageLimit :
          /\ returned <= Max({n - offset, 0}) /\ (n - offset > 0 => returned > 0)
          /\ LET page == {Listing[i] : i \in (offset + 1)..(offset + returned)}
                 told == UNION {Observed(p) : p \in {q \in page : InRange(q)}}
                 got == [fetch EXCEPT !.observations = Merged(@, told)]
                 more == returned > 0 /\ returned < n - offset
             IN  \/ ~ more /\ fetch' = [got EXCEPT !.pc = "done"] /\ UNCHANGED known
                 \/ more /\ fetch.pages = fetch.maxPages /\ Fails
                 \/ /\ more /\ fetch.pages < fetch.maxPages
                    /\ fetch' = [got EXCEPT !.pages = @ + 1, !.attempt = 0,
                                            !.offset = NextOffset(returned)]
                    /\ UNCHANGED known
  BY <1>1, <1>2 DEF Page
<1>4. fetch.pc = "get" /\ UNCHANGED <<now, truth, records>>
  BY DEF Page
<1>5. returned \in Nat /\ (returned = 0 \/ offset + returned <= n) /\ (returned = 0 => n <= offset)
  <2>1. returned \in Nat
    BY MacroAssumption
  <2>2. CASE n - offset > 0
    <3>1. Max({n - offset, 0}) = n - offset
      BY <2>2 DEF Max
    <3> QED BY <1>3, <2>1, <2>2, <3>1
  <2>3. CASE ~ (n - offset > 0)
    <3>1. Max({n - offset, 0}) = 0
      BY <2>3 DEF Max
    <3> QED BY <1>3, <2>1, <2>3, <3>1
  <2> QED BY <2>2, <2>3
<1>6. PICK Q : Q = {q \in {Listing[i] : i \in (offset + 1)..(offset + returned)} : InRange(q)}
  OBVIOUS
<1>7. PICK told : told = UNION {Observed(p) : p \in Q}
  OBVIOUS
<1>8. PICK new : new = Merged(fetch.observations, told)
  OBVIOUS
<1>9. PICK got : got = [fetch EXCEPT !.observations = new]
  OBVIOUS
<1>10. \/ /\ ~ (returned > 0 /\ returned < n - offset)
          /\ fetch' = [got EXCEPT !.pc = "done"] /\ UNCHANGED known
       \/ Fails
       \/ fetch' = [got EXCEPT !.pages = @ + 1, !.attempt = 0, !.offset = NextOffset(returned)]
          /\ UNCHANGED known
  BY <1>3, <1>6, <1>7, <1>8, <1>9
<1>11. Q \in SUBSET DOMAIN records
  <2> SUFFICES ASSUME NEW i \in (offset + 1)..(offset + returned) PROVE Listing[i] \in DOMAIN records
    BY <1>6
  <2>1. i \in 1..n
    BY <1>5
  <2> QED BY <1>1, <2>1 DEF Shown
<1>12. /\ \A o \in new : o \in Observation /\ Recorded(o)
       /\ \A k \in Observation : Recorded(k) /\ (k.period \in Q \/ Tells(fetch.observations, k)) => Tells(new, k)
  <2>1. PICK old : old = fetch.observations
    OBVIOUS
  <2>2. \A o \in old : o \in Observation /\ Recorded(o)
    BY <2>1 DEF MacroInv, FetchInv
  <2>3. Chronicle /\ Records /\ new = Merged(old, told)
    BY <1>8, <2>1 DEF MacroInv
  <2>4. /\ \A o \in new : o \in Observation /\ Recorded(o)
        /\ \A k \in Observation : Recorded(k) /\ (k.period \in Q \/ Tells(old, k)) => Tells(new, k)
    BY <1>7, <1>11, <2>2, <2>3, PageTells
  <2> QED BY <2>1, <2>4
<1>13. ASSUME NEW k \in known, Place(k.period) <= offset + returned PROVE Tells(new, k)
  <2>1. k \in Observation /\ Recorded(k) /\ InRange(k.period)
    BY DEF MacroInv, FetchInv
  <2>2. k.period \in Shown
    <3>1. k.period \in DOMAIN records /\ k.period \in Nat /\ fetch.start \in Nat
      BY <2>1, MacroAssumption DEF Recorded, Observation, MacroInv, FetchInv
    <3> QED BY <2>1, <3>1 DEF InRange, Shown
  <2>3. PICK i \in 1..n : i = Place(k.period) /\ Listing[i] = k.period
    BY <1>1, <2>2
  <2>4. CASE i <= offset
    <3>1. Tells(fetch.observations, k)
      BY <1>2, <1>4, <2>3, <2>4 DEF MacroInv, FetchInv
    <3> QED BY <1>12, <2>1, <3>1
  <2>5. CASE offset < i
    <3>1. i \in (offset + 1)..(offset + returned)
      BY <1>5, <1>13, <2>3, <2>5
    <3>2. k.period \in Q
      BY <1>6, <2>1, <2>3, <3>1
    <3> QED BY <1>12, <2>1, <3>2
  <2> QED BY <2>3, <2>4, <2>5
<1>14. Chronicle' /\ Records'
  BY <1>4 DEF MacroInv, Chronicle, Records, Collected, Sound, WasPublic, AvailableAt
<1>15. \A o : Recorded(o)' <=> Recorded(o)
  BY <1>4 DEF Recorded, Released, Collected, AvailableAt
<1>16. /\ got \in [pc : {"idle", "get", "done", "failed"}, start : Nat, end : Nat, maxPages : Nat,
                   pages : Nat, offset : Nat, attempt : Nat, observations : SUBSET Observation]
       /\ got.pc = "get" /\ got.start = fetch.start /\ got.end = fetch.end /\ got.observations = new
  BY <1>4, <1>9, <1>12 DEF MacroInv, FetchInv
<1>17. CASE ~ (returned > 0 /\ returned < n - offset)
            /\ fetch' = [got EXCEPT !.pc = "done"] /\ UNCHANGED known
  <2>1. /\ fetch' \in [pc : {"idle", "get", "done", "failed"}, start : Nat, end : Nat, maxPages : Nat,
                       pages : Nat, offset : Nat, attempt : Nat, observations : SUBSET Observation]
        /\ fetch'.pc = "done" /\ fetch'.start = fetch.start /\ fetch'.end = fetch.end
        /\ fetch'.observations = new
    BY <1>16, <1>17
  <2>2. n <= offset + returned
    BY <1>5, <1>17
  <2>3. \A k \in known : Tells(new, k)
    <3> SUFFICES ASSUME NEW k \in known PROVE Place(k.period) <= offset + returned
      BY <1>13
    <3>1. k.period \in Shown
      <4>1. k \in Observation /\ Recorded(k) /\ InRange(k.period)
        BY DEF MacroInv, FetchInv
      <4>2. k.period \in DOMAIN records /\ k.period \in Nat /\ fetch.start \in Nat
        BY <4>1, MacroAssumption DEF Recorded, Observation, MacroInv, FetchInv
      <4> QED BY <4>1, <4>2 DEF InRange, Shown
    <3>2. Place(k.period) \in 1..n
      BY <1>1, <3>1
    <3> QED BY <1>5, <2>2, <3>2
  <2>4. FetchInv'
    BY <1>12, <1>15, <1>17, <2>1, <2>3 DEF MacroInv, FetchInv, InRange
  <2> QED BY <1>14, <2>4 DEF MacroInv
<1>18. CASE fetch' = [got EXCEPT !.pages = @ + 1, !.attempt = 0, !.offset = NextOffset(returned)]
            /\ UNCHANGED known
  <2>1. NextOffset(returned) = offset + returned /\ offset + returned \in Nat
    BY <1>2, <1>5 DEF NextOffset
  <2>2. /\ fetch' \in [pc : {"idle", "get", "done", "failed"}, start : Nat, end : Nat, maxPages : Nat,
                       pages : Nat, offset : Nat, attempt : Nat, observations : SUBSET Observation]
        /\ fetch'.pc = "get" /\ fetch'.start = fetch.start /\ fetch'.end = fetch.end
        /\ fetch'.observations = new /\ fetch'.offset = offset + returned
    <3>1. PICK m \in Nat : m = offset + returned
      BY <2>1
    <3>2. fetch' = [got EXCEPT !.pages = @ + 1, !.attempt = 0, !.offset = m]
      BY <1>18, <2>1, <3>1
    <3>3. got.pages + 1 \in Nat
      BY <1>16
    <3> QED BY <1>16, <3>1, <3>2, <3>3
  <2>3. \A p : Place(p)' = Place(p)
    BY <1>4, <2>2 DEF Place, Shown
  <2>4. FetchInv'
    BY <1>12, <1>13, <1>15, <1>18, <2>2, <2>3 DEF MacroInv, FetchInv, InRange
  <2> QED BY <1>14, <2>4 DEF MacroInv
<1>19. CASE Fails
  BY <1>4, <1>19, FailsKeeps
<1> QED
  BY <1>10, <1>17, <1>18, <1>19

----------------------------------------------------------------------------
(* The theorems.                                                           *)

\* providers/fxmacrodata.py: what the service has, what was fetched of it and what is to be
\* told fit together at every moment of the publisher, the service and the pages.
THEOREM MacroInvariance == Spec => []MacroInv
<1>1. Init => MacroInv
  <2> SUFFICES ASSUME Init PROVE MacroInv
    OBVIOUS
  <2>1. Chronicle
    <3>1. now = 0 /\ truth = [p \in Periods |-> <<>>]
      BY DEF Init
    <3>2. <<>> \in Seq(Publication) /\ DOMAIN <<>> = {}
      BY EmptySeq
    <3> QED BY <3>1, <3>2 DEF Chronicle
  <2>2. Records
    <3>1. DOMAIN records = {} /\ records = [p \in {} |-> NoFetch]
      BY DEF Init
    <3>2. IsFiniteSet({})
      BY FS_EmptySet
    <3>3. \A R : records \in [{} -> R]
      BY <3>1
    <3> QED BY <3>1, <3>2, <3>3 DEF Records
  <2>3. FetchInv
    BY DEF Init, NoFetch, FetchInv
  <2> QED BY <2>1, <2>2, <2>3 DEF MacroInv
<1>2. MacroInv /\ [Next]_vars => MacroInv'
  <2> SUFFICES ASSUME MacroInv, [Next]_vars PROVE MacroInv'
    OBVIOUS
  <2>1. CASE Service
    BY <2>1, ServiceKeeps
  <2>2. CASE \E start \in Starts, end \in Ends, maxPages \in MaxPages : Begins(start, end, maxPages)
    BY <2>2, BeginsKeeps
  <2>3. CASE Refused
    BY <2>3, RefusedKeeps
  <2>4. CASE Page
    BY <2>4, PageKeeps
  <2>5. CASE UNCHANGED vars
    <3>1. UNCHANGED <<now, truth, records, fetch, known>>
      BY <2>5 DEF vars
    <3>2. Chronicle' /\ Records'
      BY <3>1 DEF MacroInv, Chronicle, Records, Collected, Sound, WasPublic, AvailableAt
    <3>3. FetchInv'
      BY <3>1 DEF MacroInv, FetchInv, Recorded, Released, Collected, AvailableAt, InRange, Place, Shown, Tells
    <3> QED BY <3>2, <3>3 DEF MacroInv
  <2> QED BY <2>1, <2>2, <2>3, <2>4, <2>5 DEF Next, Fetching
<1> QED
  BY <1>1, <1>2, PTL DEF Spec

\* providers/fxmacrodata.py: every observation has the value that was public at its vintage
\* time, whatever is collected late, twice, without a time, or between two pages.
THEOREM NothingIsDatedBack == Spec => []VintagesAreTrue
<1>1. MacroInv => VintagesAreTrue
  <2> SUFFICES ASSUME MacroInv, NEW o \in fetch.observations
               PROVE  o.period <= o.released /\ o.released <= o.at /\ o.value = AsOf(o.period, o.at)
    BY DEF VintagesAreTrue
  <2>1. o \in Observation /\ Recorded(o) /\ Chronicle /\ Records
    BY DEF MacroInv, FetchInv
  <2>2. o.period <= o.released /\ o.released <= o.at /\ WasPublic(o.period, o.at, o.value)
    BY <2>1, RecordedIsTrue
  <2>3. PICK p \in Periods, t \in Nat : p = o.period /\ t = o.at
    BY <2>1 DEF Observation
  <2>4. AsOf(p, t) = o.value
    BY <2>1, <2>2, <2>3, OneIsPublic
  <2> QED BY <2>2, <2>3, <2>4
<1> QED
  BY <1>1, MacroInvariance, PTL

\* providers/fxmacrodata.py: what the service could tell as a fetch began is told in the end,
\* although records that come to be listed meanwhile move the pages, and revisions that are
\* collected meanwhile change the vintages of a period that is told twice.
THEOREM NoChangeIsLeftOut == Spec => []EveryChangeIsTold
<1>1. MacroInv => EveryChangeIsTold
  BY DEF MacroInv, FetchInv, EveryChangeIsTold, Tells
<1> QED
  BY <1>1, MacroInvariance, PTL
=============================================================================
