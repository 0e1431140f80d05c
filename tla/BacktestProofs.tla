---------------------------- MODULE BacktestProofs ----------------------------
(***************************************************************************)
(* The per-key locks of the compile cache exclude each other, and with     *)
(* their order executions end in bounded time; slots and reservations are  *)
(* accounted for, so trims spare what is in use.                           *)
(***************************************************************************)
EXTENDS BacktestProperties, SequenceTheorems, FiniteSetTheorems, NatSetLemmas, TLAPS

\* Before a request wants a lock, and from then on until it gives it back.
Before == {"new", "queued", "slot", "transpile"}
Section == {"lookup"} \cup Locked

Types ==
  /\ DOMAIN locks \subseteq Key /\ \A k \in DOMAIN locks : locks[k] \in Request
  /\ queue \in [Request -> Seq(Request)] /\ references \in [Request -> Nat]
  /\ now \in Nat /\ pc \in [Request -> PCs] /\ waiting \in Seq(Request)
  /\ key \in [Request -> Key] /\ lock \in [Request -> Request] /\ by \in [Request -> Nat]

\* The waiters of the semaphore wait, each once.
Waiters ==
  /\ \A i \in DOMAIN waiting : pc[waiting[i]] = "queued"
  /\ \A i, j \in DOMAIN waiting : waiting[i] = waiting[j] => i = j

\* The queue of a lock object holds those in the section of that lock, each
\* once, and whoever is past the lookup is its head.
Queues ==
  /\ \A l \in Request : \A i \in DOMAIN queue[l] :
       pc[queue[l][i]] \in Section /\ lock[queue[l][i]] = l
  /\ \A l \in Request : \A i, j \in DOMAIN queue[l] : queue[l][i] = queue[l][j] => i = j
  /\ \A r \in Request : pc[r] \in Section =>
       \E i \in DOMAIN queue[lock[r]] : queue[lock[r]][i] = r
  /\ \A r \in Request : pc[r] \in Locked => HasLock(r, lock[r])

\* The table leads everybody in the section of a key to the same lock object,
\* which is in use for that key alone and bears the name of a request that has
\* made it.
Table ==
  /\ \A r \in Request : pc[r] \in Section => key[r] \in DOMAIN locks /\ locks[key[r]] = lock[r]
  /\ \A k \in DOMAIN locks : queue[locks[k]] # <<>> /\ key[Head(queue[locks[k]])] = k
  /\ \A l \in Request : queue[l] # <<>> => pc[l] \notin Before
  /\ \A l \in Request : references[l] = Len(queue[l])

\* An execution has begun, its deadline is not long past, and whoever is ahead
\* of it in the queue of its lock has a deadline at most one timeout later.
Deadlines ==
  /\ \A r \in Request : pc[r] \in Executing =>
       by[r] <= now + ExecutionTimeout /\ now <= by[r] + ExecutionTimeout
  /\ \A l \in Request : \A i, j \in DOMAIN queue[l] :
       i < j => by[queue[l][i]] <= by[queue[l][j]] + ExecutionTimeout

ServiceInv == Types /\ Waiters /\ Queues /\ Table /\ Deadlines
-----------------------------------------------------------------------------
(* Sequences.                                                               *)

\* What is left of a sequence without its i-th element.
LEMMA RemoveAtProperties ==
  ASSUME NEW s \in Seq(Request), NEW i \in DOMAIN s
  PROVE  /\ RemoveAt(s, i) \in Seq(Request)
         /\ Len(RemoveAt(s, i)) = Len(s) - 1
         /\ \A j \in 1..(Len(s) - 1) :
              RemoveAt(s, i)[j] = IF j < i THEN s[j] ELSE s[j + 1]
<1> DEFINE before == SubSeq(s, 1, i - 1)
           after  == SubSeq(s, i + 1, Len(s))
<1>1. i \in 1..Len(s) /\ Len(s) \in Nat /\ \A j \in 1..Len(s) : s[j] \in Request
  BY LenProperties, ElementOfSeq
<1>2. before \in Seq(Request) /\ Len(before) = i - 1 /\ \A j \in 1..(i - 1) : before[j] = s[j]
  BY <1>1, SubSeqProperties
<1>3. /\ after \in Seq(Request) /\ Len(after) = Len(s) - i
      /\ \A j \in 1..(Len(s) - i) : after[j] = s[i + j]
  BY <1>1, SubSeqProperties
<1> HIDE DEF before, after
<1>4. /\ before \o after \in Seq(Request) /\ Len(before \o after) = Len(s) - 1
      /\ \A j \in 1..(Len(s) - 1) :
           (before \o after)[j] = IF j <= i - 1 THEN before[j] ELSE after[j - (i - 1)]
  BY <1>1, <1>2, <1>3, ConcatProperties, SMTT(30)
<1>5. ASSUME NEW j \in 1..(Len(s) - 1)
      PROVE  (before \o after)[j] = IF j < i THEN s[j] ELSE s[j + 1]
  <2>1. CASE j < i
    BY <1>1, <1>2, <1>4, <2>1
  <2>2. CASE ~(j < i)
    <3>1. j - (i - 1) \in 1..(Len(s) - i) /\ i + (j - (i - 1)) = j + 1 /\ ~(j <= i - 1)
      BY <1>1, <2>2
    <3> QED BY <1>3, <1>4, <2>2, <3>1
  <2> QED BY <2>1, <2>2
<1> QED BY <1>4, <1>5 DEF RemoveAt, before, after

\* The head of a queue, and what is left when it has gone.
LEMMA TailProperties ==
  ASSUME NEW s \in Seq(Request), s # <<>>
  PROVE  /\ Len(s) \in Nat \ {0} /\ 1 \in DOMAIN s /\ Head(s) = s[1] /\ Head(s) \in Request
         /\ Tail(s) \in Seq(Request) /\ Len(Tail(s)) = Len(s) - 1
         /\ \A i \in DOMAIN Tail(s) : i + 1 \in DOMAIN s /\ Tail(s)[i] = s[i + 1]
         /\ \A i \in DOMAIN s : i # 1 => i - 1 \in DOMAIN Tail(s) /\ Tail(s)[i - 1] = s[i]
BY HeadTailProperties, EmptySeq, LenProperties, ElementOfSeq

\* A queue with one more at its end.
LEMMA JoinProperties ==
  ASSUME NEW s \in Seq(Request), NEW r \in Request
  PROVE  /\ Append(s, r) \in Seq(Request) /\ Append(s, r) # <<>>
         /\ Len(Append(s, r)) = Len(s) + 1
         /\ Len(s) + 1 \in DOMAIN Append(s, r) /\ Append(s, r)[Len(s) + 1] = r
         /\ \A i \in DOMAIN s : i \in DOMAIN Append(s, r) /\ i <= Len(s) /\ Append(s, r)[i] = s[i]
         /\ \A i \in DOMAIN Append(s, r) : i \in DOMAIN s \/ i = Len(s) + 1
         /\ s # <<>> => Head(Append(s, r)) = Head(s)
         /\ s = <<>> => Head(Append(s, r)) = r
<1>1. /\ Append(s, r) \in Seq(Request) /\ Append(s, r) # <<>> /\ Len(Append(s, r)) = Len(s) + 1
      /\ \A i \in 1..Len(s) : Append(s, r)[i] = s[i]
      /\ Append(s, r)[Len(s) + 1] = r
  BY AppendProperties
<1>2. DOMAIN s = 1..Len(s) /\ DOMAIN Append(s, r) = 1..(Len(s) + 1) /\ Len(s) \in Nat
  BY <1>1, LenProperties
<1>3. Head(Append(s, r)) = Append(s, r)[1] /\ (s # <<>> => Head(s) = s[1])
  BY <1>1, HeadTailProperties
<1>4. s = <<>> <=> Len(s) = 0
  BY EmptySeq
<1> QED BY <1>1, <1>2, <1>3, <1>4
-----------------------------------------------------------------------------
(* What a step does to the places of the requests.                         *)

\* A slot given back moves one waiter besides r.
LEMMA GiveBackMoves ==
  ASSUME Types, Waiters, NEW r \in Request, NEW end \in {"done", "broken"},
         GiveBack(r, end), pc[r] # "queued"
  PROVE  /\ pc' \in [Request -> PCs] /\ waiting' \in Seq(Request) /\ Waiters'
         /\ pc'[r] = end
         /\ \A s \in Request : s # r => pc'[s] = pc[s] \/ (pc[s] = "queued" /\ pc'[s] = "slot")
<1> USE DEF PCs, Slotted, Executing, Locked, Using
<1>1. CASE waiting = <<>>
  <2>1. waiting' = waiting /\ pc' = [pc EXCEPT ![r] = end]
    BY <1>1 DEF GiveBack, Goes
  <2>2. DOMAIN waiting = {}
    BY <1>1, EmptySeq, LenProperties DEF Types
  <2> QED BY <2>1, <2>2 DEF Types, Waiters
<1>2. CASE waiting # <<>>
  <2>1. waiting' = Tail(waiting) /\ pc' = [pc EXCEPT ![r] = end, ![Head(waiting)] = "slot"]
    BY <1>2 DEF GiveBack
  <2>2. /\ waiting \in Seq(Request) /\ 1 \in DOMAIN waiting /\ Head(waiting) = waiting[1]
        /\ Head(waiting) \in Request /\ Tail(waiting) \in Seq(Request)
        /\ \A i \in DOMAIN Tail(waiting) : i + 1 \in DOMAIN waiting /\ Tail(waiting)[i] = waiting[i + 1]
        /\ \A i \in DOMAIN Tail(waiting) : i \in Nat /\ i # 0 /\ waiting[i + 1] \in Request
    BY <1>2, TailProperties, LenProperties, ElementOfSeq, SMTT(30) DEF Types
  <2>3. pc[Head(waiting)] = "queued" /\ Head(waiting) # r
    BY <2>2 DEF Waiters
  <2>4. /\ pc' \in [Request -> PCs] /\ pc'[r] = end /\ pc'[Head(waiting)] = "slot"
        /\ \A s \in Request : s # r /\ s # Head(waiting) => pc'[s] = pc[s]
    BY <2>1, <2>2, <2>3 DEF Types
  <2>5. ASSUME NEW i \in DOMAIN Tail(waiting)
        PROVE  pc'[Tail(waiting)[i]] = "queued"
    <3>1. pc[waiting[i + 1]] = "queued" /\ waiting[i + 1] # waiting[1]
      BY <2>2 DEF Waiters
    <3> QED BY <2>2, <2>3, <2>4, <3>1
  <2>6. \A i, j \in DOMAIN Tail(waiting) : Tail(waiting)[i] = Tail(waiting)[j] => i = j
    BY <2>2 DEF Waiters
  <2>7. Waiters'
    BY <2>1, <2>5, <2>6 DEF Waiters
  <2> QED BY <2>1, <2>2, <2>3, <2>4, <2>7
<1> QED BY <1>1, <1>2

\* Every other request stays where it is, or gets the slot it waits for.
LEMMA PlacesStep ==
  ASSUME Types, Waiters, NEW r \in Request, Arrive(r) \/ Step(r)
  PROVE  /\ pc' \in [Request -> PCs] /\ waiting' \in Seq(Request) /\ Waiters'
         /\ \A s \in Request : s # r => pc'[s] = pc[s] \/ (pc[s] = "queued" /\ pc'[s] = "slot")
<1> USE DEF PCs, Slotted, Executing, Locked, Using
<1>1. pc \in [Request -> PCs] /\ waiting \in Seq(Request)
  BY DEF Types
<1>2. ASSUME NEW to \in PCs, Goes(r, to), waiting' = waiting, pc[r] # "queued"
      PROVE  /\ pc' \in [Request -> PCs] /\ waiting' \in Seq(Request) /\ Waiters'
             /\ \A s \in Request : s # r => pc'[s] = pc[s]
  <2>1. pc' \in [Request -> PCs] /\ \A s \in Request : s # r => pc'[s] = pc[s]
    BY <1>1, <1>2 DEF Goes
  <2>2. \A i \in DOMAIN waiting : waiting[i] \in Request
    BY <1>1, LenProperties, ElementOfSeq
  <2> QED BY <1>1, <1>2, <2>1, <2>2 DEF Waiters
<1>3. CASE Start(r)
  BY <1>2, <1>3 DEF Start
<1>4. CASE TranspileSucceeds(r) \/ LookupHits(r) \/ LookupMisses(r) \/ Touched(r)
  BY <1>2, <1>4 DEF TranspileSucceeds, LookupHits, LookupMisses, Touched, MayLookUp, serviceVars
<1>5. CASE CompileSucceeds(r) \/ Replaced(r) \/ Reserved(r)
  BY <1>2, <1>5 DEF CompileSucceeds, Replaced, Reserved, serviceVars
<1>6. CASE BacktestFails(r) \/ BacktestSucceeds(r) \/ Released(r) \/ TrimBegins(r)
  BY <1>2, <1>6 DEF BacktestFails, BacktestSucceeds, Released, TrimBegins, serviceVars
<1>7. CASE \/ TranspileFails(r) \/ TouchFailed(r) \/ CompileFails(r) \/ ReplaceFailed(r)
           \/ Abandoned(r) \/ TrimEnds(r)
  <2>1. (GiveBack(r, "done") \/ GiveBack(r, "broken")) /\ pc[r] # "queued"
    BY <1>7 DEF TranspileFails, TouchFailed, CompileFails, ReplaceFailed, Abandoned, TrimEnds, Finish, Ends
  <2> QED BY <2>1, GiveBackMoves
<1>8. CASE WaitsForGuard(r)
  BY <1>1, <1>8 DEF WaitsForGuard, serviceVars, Waiters
<1>9. CASE Arrive(r)
  <2>1. CASE Goes(r, "done") /\ waiting' = waiting
    BY <1>2, <1>9, <2>1 DEF Arrive
  <2>2. CASE Goes(r, "slot") /\ waiting' = waiting
    BY <1>2, <1>9, <2>2 DEF Arrive
  <2>3. CASE Goes(r, "queued") /\ waiting' = Append(waiting, r)
    <3>1. pc[r] = "new" /\ pc' = [pc EXCEPT ![r] = "queued"]
      BY <1>9, <2>3 DEF Arrive, Goes
    <3>2. /\ waiting' \in Seq(Request) /\ pc' \in [Request -> PCs] /\ pc'[r] = "queued"
          /\ \A s \in Request : s # r => pc'[s] = pc[s]
      BY <1>1, <2>3, <3>1, JoinProperties
    <3>3. \A i \in DOMAIN waiting : waiting[i] \in Request /\ waiting[i] # r /\ pc[waiting[i]] = "queued"
      BY <1>1, <3>1, LenProperties, ElementOfSeq DEF Waiters
    <3>4. \A i \in DOMAIN waiting' : (i \in DOMAIN waiting /\ waiting'[i] = waiting[i])
                                     \/ (i = Len(waiting) + 1 /\ waiting'[i] = r)
      BY <1>1, <2>3, JoinProperties
    <3>5. \A i \in DOMAIN waiting' : pc'[waiting'[i]] = "queued"
      BY <3>2, <3>3, <3>4
    <3>6. \A i, j \in DOMAIN waiting' : waiting'[i] = waiting'[j] => i = j
      BY <3>3, <3>4 DEF Waiters
    <3> QED BY <3>2, <3>5, <3>6 DEF Waiters
  <2> QED BY <1>9, <2>1, <2>2, <2>3 DEF Arrive, serviceVars
<1>10. CASE QueueTimesOut(r)
  <2>1. CASE pc[r] = "slot" /\ GiveBack(r, "done")
    BY <2>1, GiveBackMoves
  <2>2. CASE pc[r] = "queued" /\ Goes(r, "done")
             /\ \E i \in DOMAIN waiting : waiting[i] = r /\ waiting' = RemoveAt(waiting, i)
    <3>1. PICK i \in DOMAIN waiting : waiting[i] = r /\ waiting' = RemoveAt(waiting, i)
      BY <2>2
    <3>2. pc' \in [Request -> PCs] /\ \A s \in Request : s # r => pc'[s] = pc[s]
      BY <1>1, <2>2 DEF Goes
    <3>3. /\ waiting' \in Seq(Request) /\ Len(waiting) \in Nat /\ i \in Nat
          /\ DOMAIN waiting' = 1..(Len(waiting) - 1) /\ DOMAIN waiting = 1..Len(waiting)
          /\ \A j \in 1..(Len(waiting) - 1) : waiting'[j] = IF j < i THEN waiting[j] ELSE waiting[j + 1]
      BY <1>1, <3>1, RemoveAtProperties, LenProperties
    <3>4. \A j \in DOMAIN waiting : waiting[j] \in Request /\ pc[waiting[j]] = "queued"
                                    /\ (j # i => waiting[j] # r)
      BY <1>1, <3>1, LenProperties, ElementOfSeq DEF Waiters
    <3>5. \A j \in DOMAIN waiting' :
            LET k == IF j < i THEN j ELSE j + 1
            IN  k \in DOMAIN waiting /\ k # i /\ waiting'[j] = waiting[k]
      BY <3>3
    <3>6. \A j \in DOMAIN waiting' : pc'[waiting'[j]] = "queued"
      BY <3>2, <3>4, <3>5
    <3>7. \A j, k \in DOMAIN waiting' : waiting'[j] = waiting'[k] => j = k
      BY <3>3, <3>5 DEF Waiters
    <3> QED BY <3>2, <3>3, <3>6, <3>7 DEF Waiters
  <2> QED BY <1>10, <2>1, <2>2 DEF QueueTimesOut
<1> QED
  BY <1>3, <1>4, <1>5, <1>6, <1>7, <1>8, <1>9, <1>10 DEF Step
-----------------------------------------------------------------------------
(* What a step does to the locks.                                           *)

\* r stays where it is with regard to its lock, comes for it, or gives it back.
Keeps(r) ==
  /\ lockVars' = lockVars /\ lock' = lock
  /\ pc'[r] \in Section <=> pc[r] \in Section
  /\ pc'[r] \in Locked => pc[r] \in Locked \/ HasLock(r, lock[r])
  /\ pc'[r] \in Before => pc[r] \in Before

Enters(r) ==
  /\ EnterLock(r, key[r]) /\ lock' = [lock EXCEPT ![r] = LockFor(r, key[r])]
  /\ pc[r] = "transpile" /\ pc'[r] = "lookup" /\ InTime(r)

Leaves(r) ==
  /\ LeaveLock(r, key[r], lock[r]) /\ lock' = lock
  /\ pc[r] \in Locked /\ pc'[r] \notin Section /\ pc'[r] \notin Before

\* The deadline of r is set when its execution begins, and kept.
KeepsDeadline(r) ==
  /\ by' \in [Request -> Nat] /\ \A s \in Request : s # r => by'[s] = by[s]
  /\ pc[r] \in Section => by'[r] = by[r]
  /\ pc'[r] \in Executing => \/ pc[r] \in Executing /\ by'[r] = by[r]
                             \/ by'[r] = now + ExecutionTimeout

\* The other requests neither come nor go.
Others(r) ==
  \A s \in Request : s # r =>
    /\ pc'[s] \in Section <=> pc[s] \in Section
    /\ pc'[s] \in Locked <=> pc[s] \in Locked
    /\ pc'[s] \in Before <=> pc[s] \in Before
    /\ pc'[s] \in Executing <=> pc[s] \in Executing

LEMMA Regions ==
  /\ Locked \subseteq Section /\ Section \subseteq Executing
  /\ "lookup" \in Section /\ "lookup" \notin Locked /\ "lookup" \notin Before
  /\ "transpile" \in Before /\ \A place \in Section : place \notin Before
BY DEF Section, Locked, Executing, Before

LEMMA StepKinds ==
  ASSUME Types, Waiters, NEW r \in Request, Arrive(r) \/ Step(r)
  PROVE  /\ key' = key /\ now' = now
         /\ Keeps(r) \/ Enters(r) \/ Leaves(r)
         /\ KeepsDeadline(r) /\ Others(r)
<1>1. pc \in [Request -> PCs] /\ by \in [Request -> Nat] /\ now \in Nat
  BY DEF Types
<1>2. Others(r)
  <2>1. \A s \in Request : s # r => pc'[s] = pc[s] \/ (pc[s] = "queued" /\ pc'[s] = "slot")
    BY PlacesStep
  <2> QED BY <2>1 DEF Others, Section, Locked, Before, Executing, Using
<1> USE DEF Section, Locked, Before, Executing, Using
<1>4. CASE Arrive(r)
  <2>1. pc[r] = "new" /\ key' = key /\ now' = now /\ lockVars' = lockVars /\ lock' = lock
    BY <1>4 DEF Arrive, cacheVars, lockVars
  <2>2. pc'[r] \in {"done", "slot", "queued"}
    BY <1>1, <1>4 DEF Arrive, Goes
  <2>3. by' = by \/ by' = [by EXCEPT ![r] = now + QueueTimeout]
    BY <1>4 DEF Arrive
  <2>4. by' \in [Request -> Nat] /\ \A s \in Request : s # r => by'[s] = by[s]
    BY <1>1, <2>3, ServiceAssumption
  <2> QED BY <1>2, <2>1, <2>2, <2>4 DEF Keeps, KeepsDeadline
<1>5. CASE Start(r)
  <2>1. /\ pc[r] = "slot" /\ pc'[r] = "transpile"
        /\ key' = key /\ now' = now /\ lockVars' = lockVars /\ lock' = lock
    BY <1>1, <1>5 DEF Start, Goes, cacheVars, lockVars
  <2>2. by' = [by EXCEPT ![r] = now + ExecutionTimeout]
    BY <1>5 DEF Start
  <2>3. /\ by' \in [Request -> Nat] /\ \A s \in Request : s # r => by'[s] = by[s]
        /\ by'[r] = now + ExecutionTimeout
    BY <1>1, <2>2, ServiceAssumption
  <2> QED BY <1>2, <2>1, <2>3 DEF Keeps, KeepsDeadline
<1>6. CASE QueueTimesOut(r)
  <2>1. /\ pc[r] \in {"queued", "slot"} /\ pc'[r] = "done"
        /\ key' = key /\ now' = now /\ lockVars' = lockVars /\ lock' = lock /\ by' = by
    BY <1>1, <1>6, GiveBackMoves DEF QueueTimesOut, Goes, cacheVars, lockVars, requestVars
  <2> QED BY <1>1, <1>2, <2>1 DEF Keeps, KeepsDeadline
<1>7. CASE TranspileFails(r) \/ Abandoned(r) \/ TrimEnds(r)
  <2>1. /\ pc[r] \in {"transpile", "abandon", "trimming"} /\ pc'[r] = "done"
        /\ key' = key /\ now' = now /\ lockVars' = lockVars /\ lock' = lock /\ by' = by
    BY <1>7, GiveBackMoves
    DEF TranspileFails, Abandoned, TrimEnds, Finish, Ends, cacheVars, lockVars, requestVars
  <2> QED BY <1>1, <1>2, <2>1 DEF Keeps, KeepsDeadline
<1>8. CASE TranspileSucceeds(r)
  <2>1. /\ Enters(r) /\ key' = key /\ now' = now /\ by' = by
    BY <1>1, <1>8 DEF TranspileSucceeds, Enters, Goes
  <2> QED BY <1>1, <1>2, <2>1 DEF Enters, KeepsDeadline
<1>9. CASE LookupHits(r) \/ LookupMisses(r)
  <2>1. /\ pc[r] = "lookup" /\ pc'[r] \in {"touch", "compile"} /\ HasLock(r, lock[r])
        /\ key' = key /\ now' = now /\ lockVars' = lockVars /\ lock' = lock /\ by' = by
    BY <1>1, <1>9 DEF LookupHits, LookupMisses, MayLookUp, Goes, lockVars, requestVars
  <2> QED BY <1>1, <1>2, <2>1 DEF Keeps, KeepsDeadline
<1>10. CASE Touched(r) \/ TouchFailed(r) \/ CompileFails(r) \/ ReplaceFailed(r) \/ Reserved(r)
  <2>1. /\ pc[r] \in {"touch", "compile", "replace", "reserve"}
        /\ pc'[r] \in {"backtest", "done", "broken"}
        /\ LeaveLock(r, key[r], lock[r])
        /\ key' = key /\ now' = now /\ lock' = lock /\ by' = by
    BY <1>1, <1>10, GiveBackMoves
    DEF Touched, TouchFailed, CompileFails, ReplaceFailed, Reserved, Goes, Finish, Ends, requestVars
  <2> QED BY <1>1, <1>2, <2>1 DEF Leaves, KeepsDeadline
<1>11. CASE CompileSucceeds(r) \/ Replaced(r)
  <2>1. /\ pc[r] \in Locked /\ pc'[r] \in Locked
        /\ key' = key /\ now' = now /\ lockVars' = lockVars /\ lock' = lock /\ by' = by
    BY <1>1, <1>11 DEF CompileSucceeds, Replaced, Goes, cacheVars, lockVars, requestVars
  <2> QED BY <1>1, <1>2, <2>1 DEF Keeps, KeepsDeadline
<1>12. CASE BacktestFails(r) \/ BacktestSucceeds(r) \/ Released(r) \/ TrimBegins(r)
  <2>1. /\ pc[r] \in {"backtest", "release", "trim"}
        /\ pc'[r] \in {"abandon", "release", "trim", "trimming"}
        /\ key' = key /\ now' = now /\ lockVars' = lockVars /\ lock' = lock /\ by' = by
    BY <1>1, <1>12
    DEF BacktestFails, BacktestSucceeds, Released, TrimBegins, Goes, cacheVars, lockVars, requestVars
  <2> QED BY <1>1, <1>2, <2>1 DEF Keeps, KeepsDeadline
<1>13. CASE WaitsForGuard(r)
  <2>1. /\ pc' = pc
        /\ key' = key /\ now' = now /\ lockVars' = lockVars /\ lock' = lock /\ by' = by
    BY <1>13 DEF WaitsForGuard, lockVars, requestVars
  <2> QED BY <1>1, <1>2, <2>1 DEF Keeps, KeepsDeadline
<1> QED
  BY <1>4, <1>5, <1>6, <1>7, <1>8, <1>9, <1>10, <1>11, <1>12, <1>13 DEF Step
-----------------------------------------------------------------------------
(* Every step keeps the invariant.                                          *)

\* Somebody is first in every queue that anybody is in.
LEMMA QueueFacts ==
  ASSUME Types, NEW l \in Request
  PROVE  /\ queue[l] \in Seq(Request) /\ Len(queue[l]) \in Nat /\ DOMAIN queue[l] = 1..Len(queue[l])
         /\ \A i \in DOMAIN queue[l] : queue[l][i] \in Request /\ queue[l] # <<>>
         /\ queue[l] # <<>> => /\ Head(queue[l]) = queue[l][1] /\ Head(queue[l]) \in Request
                               /\ 1 \in DOMAIN queue[l]
<1>1. queue[l] \in Seq(Request)
  BY DEF Types
<1>2. Len(queue[l]) \in Nat /\ DOMAIN queue[l] = 1..Len(queue[l])
  BY <1>1, LenProperties
<1>3. \A i \in DOMAIN queue[l] : queue[l][i] \in Request
  BY <1>1, <1>2, ElementOfSeq
<1>4. queue[l] = <<>> <=> Len(queue[l]) = 0
  BY <1>1, EmptySeq
<1>5. queue[l] # <<>> => Head(queue[l]) = queue[l][1] /\ Head(queue[l]) \in Request /\ 1 \in DOMAIN queue[l]
  BY <1>1, TailProperties
<1> QED BY <1>1, <1>2, <1>3, <1>4, <1>5

\* What coming for the lock of a key does.
LEMMA EnterEffect ==
  ASSUME Types, Table, NEW r \in Request, Enters(r)
  PROVE  \E l \in Request :
           /\ l = LockFor(r, key[r]) /\ l # r => key[r] \in DOMAIN locks
           /\ DOMAIN locks' = DOMAIN locks \cup {key[r]}
           /\ locks'[key[r]] = l
           /\ \A k \in DOMAIN locks : locks'[k] = locks[k]
           /\ key[r] \in DOMAIN locks => locks[key[r]] = l
           /\ key[r] \notin DOMAIN locks => l = r
           /\ queue[r] = <<>>
           /\ queue' \in [Request -> Seq(Request)] /\ queue'[l] = Append(queue[l], r)
           /\ \A x \in Request : x # l => queue'[x] = queue[x] /\ references'[x] = references[x]
           /\ references' \in [Request -> Nat] /\ references'[l] = references[l] + 1
           /\ lock' \in [Request -> Request] /\ lock'[r] = l
           /\ \A s \in Request : s # r => lock'[s] = lock[s]
<1> DEFINE l == LockFor(r, key[r])
<1>1. l \in Request /\ (key[r] \in DOMAIN locks => locks[key[r]] = l) /\ (key[r] \notin DOMAIN locks => l = r)
  BY DEF Types, LockFor
<1>2. /\ locks' = [x \in DOMAIN locks \cup {key[r]} |-> IF x = key[r] THEN l ELSE locks[x]]
      /\ queue' = [queue EXCEPT ![l] = Append(@, r)]
      /\ references' = [references EXCEPT ![l] = @ + 1]
      /\ lock' = [lock EXCEPT ![r] = l]
  BY DEF Enters, EnterLock
<1>3. Append(queue[l], r) \in Seq(Request)
  BY <1>1, QueueFacts, JoinProperties
<1>4. queue[r] = <<>>
  BY Regions DEF Table, Enters
<1> HIDE DEF l
<1>5. /\ DOMAIN locks' = DOMAIN locks \cup {key[r]} /\ locks'[key[r]] = l
      /\ \A k \in DOMAIN locks : locks'[k] = locks[k]
  BY <1>1, <1>2
<1>6. /\ queue' \in [Request -> Seq(Request)] /\ queue'[l] = Append(queue[l], r)
      /\ references' \in [Request -> Nat] /\ references'[l] = references[l] + 1
      /\ \A x \in Request : x # l => queue'[x] = queue[x] /\ references'[x] = references[x]
  BY <1>1, <1>2, <1>3 DEF Types
<1>7. lock' \in [Request -> Request] /\ lock'[r] = l /\ \A s \in Request : s # r => lock'[s] = lock[s]
  BY <1>1, <1>2 DEF Types
<1> QED BY <1>1, <1>4, <1>5, <1>6, <1>7 DEF l

\* What giving back the lock of a key does.
LEMMA LeaveEffect ==
  ASSUME Types, Queues, Table, NEW r \in Request, Leaves(r)
  PROVE  LET l == lock[r]
         IN  /\ l \in Request /\ queue[l] # <<>> /\ Head(queue[l]) = r
             /\ locks[key[r]] = l /\ key[r] \in DOMAIN locks
             /\ queue' \in [Request -> Seq(Request)] /\ queue'[l] = Tail(queue[l])
             /\ references' \in [Request -> Nat] /\ references'[l] = Len(Tail(queue[l]))
             /\ \A x \in Request : x # l => queue'[x] = queue[x] /\ references'[x] = references[x]
             /\ DOMAIN locks' \subseteq DOMAIN locks
             /\ \A k \in DOMAIN locks' : locks'[k] = locks[k]
             /\ \A k \in DOMAIN locks : k # key[r] => k \in DOMAIN locks'
             /\ key[r] \in DOMAIN locks' <=> Tail(queue[l]) # <<>>
             /\ lock' = lock
<1> DEFINE l == lock[r]
<1>1. l \in Request /\ queue[l] # <<>> /\ Head(queue[l]) = r /\ lock' = lock
  BY DEF Types, Queues, Leaves, HasLock
<1>2. locks[key[r]] = l /\ key[r] \in DOMAIN locks
  BY Regions DEF Table, Leaves
<1>3. /\ queue' = [queue EXCEPT ![l] = Tail(@)]
      /\ references' = [references EXCEPT ![l] = @ - 1]
      /\ locks' = IF references'[l] = 0 THEN [x \in DOMAIN locks \ {key[r]} |-> locks[x]] ELSE locks
  BY DEF Leaves, LeaveLock
<1>4. Tail(queue[l]) \in Seq(Request) /\ Len(Tail(queue[l])) = references[l] - 1
  BY <1>1, QueueFacts, TailProperties DEF Table
<1>5. Len(Tail(queue[l])) \in Nat /\ (Tail(queue[l]) = <<>> <=> Len(Tail(queue[l])) = 0)
  BY <1>4, LenProperties, EmptySeq
<1> HIDE DEF l
<1>6. /\ queue' \in [Request -> Seq(Request)] /\ queue'[l] = Tail(queue[l])
      /\ references' \in [Request -> Nat] /\ references'[l] = Len(Tail(queue[l]))
      /\ \A x \in Request : x # l => queue'[x] = queue[x] /\ references'[x] = references[x]
  BY <1>1, <1>3, <1>4, <1>5 DEF Types
<1>7. /\ DOMAIN locks' \subseteq DOMAIN locks /\ \A k \in DOMAIN locks' : locks'[k] = locks[k]
      /\ \A k \in DOMAIN locks : k # key[r] => k \in DOMAIN locks'
      /\ key[r] \in DOMAIN locks' <=> Tail(queue[l]) # <<>>
  BY <1>2, <1>3, <1>5, <1>6
<1> QED BY <1>1, <1>2, <1>6, <1>7 DEF l

LEMMA TypesStep ==
  ASSUME ServiceInv, NEW r \in Request, Arrive(r) \/ Step(r)
  PROVE  Types'
<1>1. Types /\ Waiters /\ Queues /\ Table
  BY DEF ServiceInv
<1>2. /\ key' = key /\ now' = now /\ by' \in [Request -> Nat]
      /\ pc' \in [Request -> PCs] /\ waiting' \in Seq(Request)
  BY <1>1, StepKinds, PlacesStep DEF KeepsDeadline
<1>3. CASE Keeps(r)
  BY <1>1, <1>2, <1>3 DEF Keeps, lockVars, Types
<1>4. CASE Enters(r)
  <2>1. key[r] \in Key
    BY <1>1 DEF Types
  <2>2. /\ queue' \in [Request -> Seq(Request)] /\ references' \in [Request -> Nat]
        /\ lock' \in [Request -> Request] /\ DOMAIN locks' = DOMAIN locks \cup {key[r]}
        /\ locks'[key[r]] \in Request /\ \A k \in DOMAIN locks : locks'[k] = locks[k]
    BY <1>1, <1>4, EnterEffect
  <2> QED BY <1>1, <1>2, <2>1, <2>2 DEF Types
<1>5. CASE Leaves(r)
  BY <1>1, <1>2, <1>5, LeaveEffect DEF Types, Leaves
<1> QED BY <1>1, <1>3, <1>4, <1>5, StepKinds

LEMMA QueuesStep ==
  ASSUME ServiceInv, NEW r \in Request, Arrive(r) \/ Step(r)
  PROVE  Queues'
<1>1. Types /\ Waiters /\ Queues /\ Table
  BY DEF ServiceInv
<1>2. Others(r)
  BY <1>1, StepKinds
<1>3. CASE Keeps(r)
  <2>1. queue' = queue /\ lock' = lock
    BY <1>3 DEF Keeps, lockVars
  <2>2. \A s \in Request : (pc'[s] \in Section <=> pc[s] \in Section)
                           /\ (pc'[s] \in Locked => pc[s] \in Locked \/ HasLock(s, lock[s]))
    BY <1>2, <1>3 DEF Others, Keeps
  <2>3. \A l \in Request : \A i \in DOMAIN queue[l] : queue[l][i] \in Request
    BY <1>1, QueueFacts
  <2> QED BY <1>1, <2>1, <2>2, <2>3 DEF Queues, HasLock
<1>4. CASE Enters(r)
  <2>1. PICK l \in Request :
          /\ queue'[l] = Append(queue[l], r)
          /\ \A x \in Request : x # l => queue'[x] = queue[x]
          /\ lock'[r] = l /\ \A s \in Request : s # r => lock'[s] = lock[s]
    BY <1>1, <1>4, EnterEffect
  <2>2. pc[r] \notin Section /\ pc'[r] \in Section /\ pc'[r] \notin Locked
    BY <1>4, Regions DEF Enters
  <2>3. \A x \in Request : \A i \in DOMAIN queue[x] :
          /\ queue[x][i] \in Request /\ queue[x][i] # r
          /\ pc'[queue[x][i]] \in Section /\ lock'[queue[x][i]] = x
    BY <1>1, <1>2, <2>1, <2>2, QueueFacts DEF Queues, Others
  <2>4. /\ Len(queue[l]) + 1 \in DOMAIN queue'[l] /\ queue'[l][Len(queue[l]) + 1] = r
        /\ \A i \in DOMAIN queue[l] : i \in DOMAIN queue'[l] /\ queue'[l][i] = queue[l][i]
        /\ \A i \in DOMAIN queue'[l] : i \in DOMAIN queue[l] \/ i = Len(queue[l]) + 1
        /\ queue[l] # <<>> => Head(queue'[l]) = Head(queue[l])
        /\ queue'[l] # <<>>
    BY <1>1, <2>1, QueueFacts, JoinProperties
  <2>5. \A x \in Request : \A i \in DOMAIN queue'[x] :
          pc'[queue'[x][i]] \in Section /\ lock'[queue'[x][i]] = x
    BY <2>1, <2>2, <2>3, <2>4
  <2>6. \A x \in Request : \A i, j \in DOMAIN queue'[x] : queue'[x][i] = queue'[x][j] => i = j
    BY <1>1, <2>1, <2>3, <2>4, SMTT(30) DEF Queues
  <2>7. \A s \in Request : pc'[s] \in Section =>
          \E i \in DOMAIN queue'[lock'[s]] : queue'[lock'[s]][i] = s
    <3>1. TAKE s \in Request
    <3>2. HAVE pc'[s] \in Section
    <3>3. CASE s = r
      BY <2>1, <2>4, <3>3
    <3>4. CASE s # r
      <4>1. PICK i \in DOMAIN queue[lock[s]] : queue[lock[s]][i] = s
        BY <1>1, <1>2, <3>2, <3>4 DEF Others, Queues
      <4>2. lock'[s] = lock[s] /\ lock[s] \in Request
        BY <1>1, <2>1, <3>4 DEF Types
      <4> QED BY <2>1, <2>4, <4>1, <4>2
    <3> QED BY <3>3, <3>4
  <2>8. \A s \in Request : pc'[s] \in Locked => HasLock(s, lock[s])'
    <3>1. TAKE s \in Request
    <3>2. HAVE pc'[s] \in Locked
    <3>3. s # r /\ HasLock(s, lock[s]) /\ lock'[s] = lock[s] /\ lock[s] \in Request
      BY <1>1, <1>2, <2>1, <2>2, <3>2 DEF Others, Queues, Types
    <3> QED BY <2>1, <2>4, <3>3 DEF HasLock
  <2> QED BY <2>5, <2>6, <2>7, <2>8 DEF Queues
<1>5. CASE Leaves(r)
  <2> DEFINE l == lock[r]
  <2>1. /\ l \in Request /\ queue[l] # <<>> /\ Head(queue[l]) = r
        /\ queue'[l] = Tail(queue[l]) /\ \A x \in Request : x # l => queue'[x] = queue[x]
        /\ lock' = lock
    BY <1>1, <1>5, LeaveEffect
  <2> HIDE DEF l
  <2>2. pc'[r] \notin Section /\ pc'[r] \notin Locked
    BY <1>5, Regions DEF Leaves
  <2>3. /\ 1 \in DOMAIN queue[l] /\ queue[l][1] = r
        /\ \A i \in DOMAIN queue'[l] : i + 1 \in DOMAIN queue[l] /\ queue'[l][i] = queue[l][i + 1]
        /\ \A i \in DOMAIN queue[l] : i # 1 => i - 1 \in DOMAIN queue'[l] /\ queue'[l][i - 1] = queue[l][i]
    BY <1>1, <2>1, QueueFacts, TailProperties
  <2>4. \A i \in DOMAIN queue'[l] : i \in Nat /\ i # 0
    BY <1>1, <2>1, QueueFacts, TailProperties, LenProperties
  <2>5. \A x \in Request : \A i \in DOMAIN queue[x] :
          queue[x][i] \in Request /\ pc[queue[x][i]] \in Section /\ lock[queue[x][i]] = x
    BY <1>1, QueueFacts DEF Queues
  <2>6. \A i \in DOMAIN queue'[l] : queue'[l][i] # r
    BY <1>1, <2>1, <2>3, <2>4 DEF Queues
  <2>7. \A x \in Request : x # l => \A i \in DOMAIN queue[x] : queue[x][i] # r
    BY <2>1, <2>5 DEF l
  <2>8. ASSUME NEW x \in Request, NEW i \in DOMAIN queue'[x]
        PROVE  pc'[queue'[x][i]] \in Section /\ lock'[queue'[x][i]] = x
    <3>1. PICK j \in DOMAIN queue[x] : queue'[x][i] = queue[x][j] /\ queue[x][j] # r
      <4>1. CASE x = l
        BY <2>3, <2>6, <2>8, <4>1
      <4>2. CASE x # l
        BY <2>1, <2>7, <2>8, <4>2
      <4> QED BY <4>1, <4>2
    <3> QED BY <1>2, <2>1, <2>5, <3>1 DEF Others
  <2>9. ASSUME NEW x \in Request, NEW i \in DOMAIN queue'[x], NEW j \in DOMAIN queue'[x],
               queue'[x][i] = queue'[x][j]
        PROVE  i = j
    <3>1. CASE x = l
      <4>1. i \in DOMAIN queue'[l] /\ j \in DOMAIN queue'[l] /\ queue'[l][i] = queue'[l][j]
        BY <2>9, <3>1
      <4>2. /\ i + 1 \in DOMAIN queue[l] /\ j + 1 \in DOMAIN queue[l]
            /\ queue[l][i + 1] = queue[l][j + 1]
        BY <2>3, <4>1
      <4>3. i + 1 = j + 1
        BY <1>1, <2>1, <4>2 DEF Queues
      <4> QED BY <2>4, <4>1, <4>3
    <3>2. CASE x # l
      BY <1>1, <2>1, <2>9, <3>2 DEF Queues
    <3> QED BY <3>1, <3>2
  <2>10. ASSUME NEW s \in Request, pc'[s] \in Section
         PROVE  \E i \in DOMAIN queue'[lock'[s]] : queue'[lock'[s]][i] = s
    <3>1. s # r /\ pc[s] \in Section /\ lock[s] \in Request
      BY <1>1, <1>2, <2>2, <2>10 DEF Others, Types
    <3>2. PICK i \in DOMAIN queue[lock[s]] : queue[lock[s]][i] = s
      BY <1>1, <3>1 DEF Queues
    <3>3. CASE lock[s] = l
      <4>1. i # 1
        BY <2>3, <3>1, <3>2, <3>3
      <4>2. i - 1 \in DOMAIN queue'[l] /\ queue'[l][i - 1] = s
        BY <2>3, <3>2, <3>3, <4>1
      <4>3. lock'[s] = l
        BY <2>1, <3>3
      <4> QED BY <4>2, <4>3
    <3>4. CASE lock[s] # l
      BY <2>1, <3>1, <3>2, <3>4
    <3> QED BY <3>3, <3>4
  <2>11. ASSUME NEW s \in Request, pc'[s] \in Locked
         PROVE  HasLock(s, lock[s])'
    <3>1. s # r /\ HasLock(s, lock[s]) /\ lock[s] \in Request
      BY <1>1, <1>2, <2>2, <2>11 DEF Others, Queues, Types
    <3> QED BY <2>1, <3>1 DEF HasLock
  <2> QED BY <2>8, <2>9, <2>10, <2>11 DEF Queues
<1> QED BY <1>1, <1>3, <1>4, <1>5, StepKinds

LEMMA TableStep ==
  ASSUME ServiceInv, NEW r \in Request, Arrive(r) \/ Step(r)
  PROVE  Table'
<1>1. Types /\ Waiters /\ Queues /\ Table
  BY DEF ServiceInv
<1>2. Others(r) /\ key' = key
  BY <1>1, StepKinds
<1>3. CASE Keeps(r)
  <2>1. queue' = queue /\ lock' = lock /\ locks' = locks /\ references' = references
    BY <1>3 DEF Keeps, lockVars
  <2>2. \A s \in Request : (pc'[s] \in Section <=> pc[s] \in Section)
                           /\ (pc'[s] \in Before => pc[s] \in Before)
    BY <1>2, <1>3 DEF Others, Keeps
  <2> QED BY <1>1, <1>2, <2>1, <2>2 DEF Table
<1>4. CASE Enters(r)
  <2>1. PICK l \in Request :
          /\ DOMAIN locks' = DOMAIN locks \cup {key[r]} /\ locks'[key[r]] = l
          /\ \A k \in DOMAIN locks : locks'[k] = locks[k]
          /\ key[r] \in DOMAIN locks => locks[key[r]] = l
          /\ key[r] \notin DOMAIN locks => l = r
          /\ queue[r] = <<>>
          /\ queue'[l] = Append(queue[l], r) /\ references'[l] = references[l] + 1
          /\ \A x \in Request : x # l => queue'[x] = queue[x] /\ references'[x] = references[x]
          /\ lock'[r] = l /\ \A s \in Request : s # r => lock'[s] = lock[s]
    BY <1>1, <1>4, EnterEffect
  <2>2. pc'[r] \notin Before
    BY <1>4, Regions DEF Enters
  <2>3. /\ queue'[l] # <<>> /\ Len(queue'[l]) = Len(queue[l]) + 1
        /\ Head(queue'[l]) = IF queue[l] = <<>> THEN r ELSE Head(queue[l])
    BY <1>1, <2>1, QueueFacts, JoinProperties
  <2>4. \A s \in Request : pc'[s] \in Section => key[s] \in DOMAIN locks' /\ locks'[key[s]] = lock'[s]
    BY <1>1, <1>2, <2>1 DEF Others, Table
  <2>5. ASSUME NEW k \in DOMAIN locks'
        PROVE  queue'[locks'[k]] # <<>> /\ key[Head(queue'[locks'[k]])] = k
    <3>1. CASE k = key[r]
      BY <1>1, <2>1, <2>3, <3>1 DEF Table
    <3>2. CASE k # key[r]
      <4>1. k \in DOMAIN locks /\ locks'[k] = locks[k] /\ locks[k] \in Request
        BY <1>1, <2>1, <2>5, <3>2 DEF Types
      <4>2. locks[k] # l
        BY <1>1, <2>1, <3>2, <4>1 DEF Table
      <4> QED BY <1>1, <2>1, <4>1, <4>2 DEF Table
    <3> QED BY <3>1, <3>2
  <2>6. \A x \in Request : queue'[x] # <<>> => pc'[x] \notin Before
    <3>1. l # r => queue[l] # <<>>
      BY <1>1, <2>1 DEF Table
    <3> QED BY <1>1, <1>2, <2>1, <2>2, <3>1 DEF Table, Others
  <2>7. \A x \in Request : references'[x] = Len(queue'[x])
    BY <1>1, <2>1, <2>3 DEF Table
  <2> QED BY <1>2, <2>4, <2>5, <2>6, <2>7 DEF Table
<1>5. CASE Leaves(r)
  <2> DEFINE l == lock[r]
  <2>1. /\ l \in Request /\ queue[l] # <<>> /\ Head(queue[l]) = r
        /\ locks[key[r]] = l /\ key[r] \in DOMAIN locks
        /\ queue'[l] = Tail(queue[l]) /\ references'[l] = Len(Tail(queue[l]))
        /\ \A x \in Request : x # l => queue'[x] = queue[x] /\ references'[x] = references[x]
        /\ DOMAIN locks' \subseteq DOMAIN locks
        /\ \A k \in DOMAIN locks' : locks'[k] = locks[k]
        /\ \A k \in DOMAIN locks : k # key[r] => k \in DOMAIN locks'
        /\ key[r] \in DOMAIN locks' <=> Tail(queue[l]) # <<>>
        /\ lock' = lock
    BY <1>1, <1>5, LeaveEffect
  <2>2. pc'[r] \notin Section /\ pc'[r] \notin Before
    BY <1>5 DEF Leaves
  <2>3. \A s \in Request : pc'[s] \in Section => s # r /\ pc[s] \in Section
    BY <1>2, <2>2 DEF Others
  <2>4. /\ queue[l][1] = r /\ Tail(queue[l]) \in Seq(Request)
        /\ \A i \in DOMAIN Tail(queue[l]) : i + 1 \in DOMAIN queue[l] /\ Tail(queue[l])[i] = queue[l][i + 1]
        /\ \A i \in DOMAIN queue[l] : i # 1 => i - 1 \in DOMAIN Tail(queue[l])
    BY <1>1, <2>1, QueueFacts, TailProperties
  <2>5. Tail(queue[l]) = <<>> => DOMAIN Tail(queue[l]) = {}
    OBVIOUS
  <2> HIDE DEF l
  <2>6. ASSUME NEW s \in Request, pc'[s] \in Section
        PROVE  key[s] \in DOMAIN locks' /\ locks'[key[s]] = lock'[s]
    <3>1. s # r /\ key[s] \in DOMAIN locks /\ locks[key[s]] = lock[s]
      BY <1>1, <2>3, <2>6 DEF Table
    <3>2. CASE key[s] # key[r]
      BY <2>1, <3>1, <3>2
    <3>3. CASE key[s] = key[r]
      <4>1. PICK i \in DOMAIN queue[lock[s]] : queue[lock[s]][i] = s
        BY <1>1, <2>3, <2>6 DEF Queues
      <4>2. lock[s] = l
        BY <2>1, <3>1, <3>3
      <4>3. i - 1 \in DOMAIN Tail(queue[l])
        BY <2>4, <3>1, <4>1, <4>2
      <4> QED BY <2>1, <2>5, <3>1, <3>3, <4>3
    <3> QED BY <3>2, <3>3
  <2>7. ASSUME NEW k \in DOMAIN locks'
        PROVE  queue'[locks'[k]] # <<>> /\ key[Head(queue'[locks'[k]])] = k
    <3>1. k \in DOMAIN locks /\ locks'[k] = locks[k] /\ locks[k] \in Request
          /\ queue[locks[k]] # <<>> /\ key[Head(queue[locks[k]])] = k
      BY <1>1, <2>1, <2>7 DEF Types, Table
    <3>2. CASE locks[k] # l
      BY <2>1, <3>1, <3>2
    <3>3. CASE locks[k] = l
      <4>1. k = key[r] /\ Tail(queue[l]) # <<>>
        BY <2>1, <2>7, <3>1, <3>3
      <4>2. 1 \in DOMAIN Tail(queue[l]) /\ Head(Tail(queue[l])) = Tail(queue[l])[1]
        BY <2>4, <4>1, TailProperties
      <4> DEFINE s == queue[l][2]
      <4>3. Head(Tail(queue[l])) = s /\ 2 \in DOMAIN queue[l]
        BY <2>4, <4>2
      <4>4. s \in Request /\ pc[s] \in Section /\ lock[s] = l
        BY <1>1, <2>1, <4>3, QueueFacts DEF Queues
      <4>5. key[s] \in DOMAIN locks /\ locks[key[s]] = l
        BY <1>1, <4>4 DEF Table
      <4>6. key[s] = key[Head(queue[l])]
        BY <1>1, <4>5 DEF Table
      <4>7. key[Head(Tail(queue[l]))] = k
        BY <2>1, <4>1, <4>3, <4>6
      <4> QED BY <2>1, <3>1, <3>3, <4>1, <4>7
    <3> QED BY <3>2, <3>3
  <2>8. \A x \in Request : queue'[x] # <<>> => pc'[x] \notin Before
    <3>1. \A x \in Request : queue'[x] # <<>> => queue[x] # <<>>
      BY <2>1
    <3> QED BY <1>1, <1>2, <2>2, <3>1 DEF Table, Others
  <2>9. \A x \in Request : references'[x] = Len(queue'[x])
    BY <1>1, <2>1 DEF Table
  <2> QED BY <1>2, <2>6, <2>7, <2>8, <2>9 DEF Table
<1> QED BY <1>1, <1>3, <1>4, <1>5, StepKinds

LEMMA DeadlinesStep ==
  ASSUME ServiceInv, NEW r \in Request, Arrive(r) \/ Step(r)
  PROVE  Deadlines'
<1>1. Types /\ Waiters /\ Queues /\ Table /\ Deadlines
  BY DEF ServiceInv
<1>2. now' = now /\ KeepsDeadline(r) /\ Others(r)
  BY <1>1, StepKinds
<1>3. /\ now \in Nat /\ ExecutionTimeout \in Nat
      /\ \A s \in Request : by[s] \in Nat /\ by'[s] \in Nat
  BY <1>1, <1>2, ServiceAssumption DEF Types, KeepsDeadline
<1>4. \A s \in Request : pc'[s] \in Executing =>
        by'[s] <= now' + ExecutionTimeout /\ now' <= by'[s] + ExecutionTimeout
  BY <1>1, <1>2, <1>3 DEF Deadlines, KeepsDeadline, Others
<1>5. \A l \in Request : \A i \in DOMAIN queue[l] :
        /\ queue[l][i] \in Request /\ by'[queue[l][i]] = by[queue[l][i]]
        /\ pc[queue[l][i]] \in Executing
  BY <1>1, <1>2, QueueFacts, Regions DEF Queues, KeepsDeadline
<1>6. \A l \in Request : \A i, j \in DOMAIN queue'[l] :
        i < j => by'[queue'[l][i]] <= by'[queue'[l][j]] + ExecutionTimeout
  <2>1. CASE Keeps(r)
    BY <1>1, <1>5, <2>1 DEF Keeps, lockVars, Deadlines
  <2>2. CASE Enters(r)
    <3>1. PICK l \in Request :
            /\ queue'[l] = Append(queue[l], r)
            /\ \A x \in Request : x # l => queue'[x] = queue[x]
      BY <1>1, <2>2, EnterEffect
    <3>2. /\ queue'[l][Len(queue[l]) + 1] = r
          /\ \A i \in DOMAIN queue[l] : i \in 1..Len(queue[l]) /\ queue'[l][i] = queue[l][i]
          /\ \A i \in DOMAIN queue'[l] : i \in DOMAIN queue[l] \/ i = Len(queue[l]) + 1
          /\ Len(queue[l]) \in Nat
      BY <1>1, <3>1, QueueFacts, JoinProperties
    <3>3. \A i \in DOMAIN queue[l] : by[queue[l][i]] <= by'[r] + ExecutionTimeout
      <4>1. now < by[r] /\ (by'[r] = by[r] \/ by'[r] = now + ExecutionTimeout)
        BY <1>2, <2>2, Regions DEF Enters, InTime, KeepsDeadline
      <4>2. \A i \in DOMAIN queue[l] : by[queue[l][i]] <= now + ExecutionTimeout
        BY <1>1, <1>5 DEF Deadlines
      <4> QED BY <1>3, <1>5, <4>1, <4>2
    <3>4. ASSUME NEW i \in DOMAIN queue'[l], NEW j \in DOMAIN queue'[l], i < j
          PROVE  by'[queue'[l][i]] <= by'[queue'[l][j]] + ExecutionTimeout
      <4>1. i \in DOMAIN queue[l]
        BY <3>2, <3>4
      <4>2. CASE j \in DOMAIN queue[l]
        BY <1>1, <1>5, <3>2, <3>4, <4>1, <4>2 DEF Deadlines
      <4>3. CASE j = Len(queue[l]) + 1
        BY <1>5, <3>2, <3>3, <4>1, <4>3
      <4> QED BY <3>2, <4>2, <4>3
    <3>5. ASSUME NEW x \in Request, x # l
          PROVE  \A i, j \in DOMAIN queue'[x] :
                   i < j => by'[queue'[x][i]] <= by'[queue'[x][j]] + ExecutionTimeout
      BY <1>1, <1>5, <3>1, <3>5 DEF Deadlines
    <3> QED BY <3>4, <3>5
  <2>3. CASE Leaves(r)
    <3> DEFINE l == lock[r]
    <3>1. /\ l \in Request /\ queue[l] # <<>>
          /\ queue'[l] = Tail(queue[l]) /\ \A x \in Request : x # l => queue'[x] = queue[x]
      BY <1>1, <2>3, LeaveEffect
    <3>2. /\ \A i \in DOMAIN queue'[l] : i + 1 \in DOMAIN queue[l] /\ queue'[l][i] = queue[l][i + 1]
          /\ \A i \in DOMAIN queue'[l] : i \in Nat
      BY <1>1, <3>1, QueueFacts, TailProperties, LenProperties
    <3> HIDE DEF l
    <3>3. ASSUME NEW i \in DOMAIN queue'[l], NEW j \in DOMAIN queue'[l], i < j
          PROVE  by'[queue'[l][i]] <= by'[queue'[l][j]] + ExecutionTimeout
      <4>1. i + 1 < j + 1
        BY <3>2, <3>3
      <4> QED BY <1>1, <1>5, <3>1, <3>2, <4>1 DEF Deadlines
    <3>4. ASSUME NEW x \in Request, x # l
          PROVE  \A i, j \in DOMAIN queue'[x] :
                   i < j => by'[queue'[x][i]] <= by'[queue'[x][j]] + ExecutionTimeout
      BY <1>1, <1>5, <3>1, <3>4 DEF Deadlines
    <3> QED BY <3>3, <3>4
  <2> QED BY <1>1, <2>1, <2>2, <2>3, StepKinds
<1> QED BY <1>4, <1>6 DEF Deadlines

\* The clock waits for whoever can go on, and so for the head of every queue.
LEMMA TickStep ==
  ASSUME ServiceInv, Tick
  PROVE  ServiceInv'
<1>1. Types /\ Waiters /\ Queues /\ Table /\ Deadlines
  BY DEF ServiceInv
<1>2. /\ locks' = locks /\ queue' = queue /\ references' = references
      /\ pc' = pc /\ key' = key /\ lock' = lock /\ by' = by /\ waiting' = waiting
      /\ now' = now + 1 /\ \A s \in Request : Quiet(s)
  BY DEF Tick, cacheVars, lockVars, requestVars, serviceVars
<1>3. now \in Nat /\ ExecutionTimeout \in Nat /\ \A s \in Request : by[s] \in Nat
  BY <1>1, ServiceAssumption DEF Types
<1>4. Types' /\ Waiters' /\ Queues' /\ Table'
  BY <1>1, <1>2, <1>3 DEF Types, Waiters, Queues, Table, HasLock
<1>5. ASSUME NEW s \in Request, pc[s] \in Executing
      PROVE  now + 1 <= by[s] + ExecutionTimeout
  <2>1. CASE pc[s] # "lookup"
    <3>1. InTime(s)
      BY <1>2, <1>5, <2>1 DEF Quiet, Executing, Locked, Using
    <3> QED BY <1>3, <3>1 DEF InTime
  <2>2. CASE pc[s] = "lookup"
    <3> DEFINE l == lock[s]
    <3>1. l \in Request /\ ~HasLock(s, l)
      BY <1>1, <1>2, <2>2 DEF Types, Quiet
    <3>2. PICK i \in DOMAIN queue[l] : queue[l][i] = s
      BY <1>1, <2>2, Regions DEF Queues
    <3> HIDE DEF l
    <3>3. /\ queue[l] # <<>> /\ Head(queue[l]) = queue[l][1] /\ Head(queue[l]) \in Request
          /\ 1 \in DOMAIN queue[l] /\ i \in Nat /\ i # 0
      BY <1>1, <3>1, <3>2, QueueFacts
    <3>4. i # 1
      BY <3>1, <3>2, <3>3 DEF HasLock
    <3>5. by[Head(queue[l])] <= by[s] + ExecutionTimeout
      <4>1. 1 < i
        BY <3>3, <3>4
      <4> QED BY <1>1, <3>1, <3>2, <3>3, <4>1 DEF Deadlines
    <3>6. pc[Head(queue[l])] \in Section /\ HasLock(Head(queue[l]), lock[Head(queue[l])])
      BY <1>1, <3>1, <3>3 DEF Queues, HasLock
    <3>7. InTime(Head(queue[l]))
      BY <1>2, <3>3, <3>6 DEF Quiet, Section, Locked
    <3> QED BY <1>3, <3>3, <3>5, <3>7 DEF InTime
  <2> QED BY <2>1, <2>2
<1>6. Deadlines'
  BY <1>1, <1>2, <1>3, <1>5 DEF Deadlines
<1> QED BY <1>4, <1>6 DEF ServiceInv

LEMMA ServiceInvInit == Init => ServiceInv
<1> SUFFICES ASSUME Init PROVE ServiceInv
  OBVIOUS
<1>1. /\ locks = <<>> /\ queue = [l \in Request |-> <<>>] /\ references = [l \in Request |-> 0]
      /\ now = 0 /\ pc = [r \in Request |-> "new"] /\ waiting = <<>>
      /\ key \in [Request -> Key] /\ lock = [r \in Request |-> r] /\ by = [r \in Request |-> 0]
  BY DEF Init, CacheInit
<1>2. <<>> \in Seq(Request) /\ Len(<<>>) = 0 /\ DOMAIN <<>> = {}
  BY EmptySeq
<1>3. DOMAIN locks = {} /\ DOMAIN waiting = {} /\ \A l \in Request : DOMAIN queue[l] = {}
  BY <1>1
<1>4. Types
  BY <1>1, <1>2, <1>3 DEF Types, PCs
<1>5. Waiters
  BY <1>3 DEF Waiters
<1>6. \A r \in Request : pc[r] \notin Section /\ pc[r] \notin Locked /\ pc[r] \notin Executing
  BY <1>1 DEF Section, Locked, Executing, Using
<1>7. Queues /\ Table /\ Deadlines
  BY <1>1, <1>2, <1>3, <1>6 DEF Queues, Table, Deadlines
<1> QED BY <1>4, <1>5, <1>7 DEF ServiceInv

LEMMA ServiceInvStep == ServiceInv /\ [Next]_vars => ServiceInv'
<1> SUFFICES ASSUME ServiceInv, [Next]_vars PROVE ServiceInv'
  OBVIOUS
<1>1. CASE Tick
  BY <1>1, TickStep
<1>2. ASSUME NEW r \in Request, Arrive(r) \/ Step(r)
      PROVE  ServiceInv'
  <2>1. Waiters'
    BY <1>2, PlacesStep DEF ServiceInv
  <2> QED BY <1>2, <2>1, TypesStep, QueuesStep, TableStep, DeadlinesStep DEF ServiceInv
<1>3. CASE UNCHANGED vars
  <2>1. /\ locks' = locks /\ queue' = queue /\ references' = references /\ now' = now
        /\ pc' = pc /\ key' = key /\ lock' = lock /\ by' = by /\ waiting' = waiting
    BY <1>3 DEF vars, cacheVars, lockVars, requestVars, serviceVars
  <2> QED BY <2>1 DEF ServiceInv, Types, Waiters, Queues, Table, Deadlines, HasLock
<1> QED BY <1>1, <1>2, <1>3 DEF Next

LEMMA ServiceInvariance == Spec => []ServiceInv
BY ServiceInvInit, ServiceInvStep, PTL DEF Spec
-----------------------------------------------------------------------------
\* Whatever the requests, keys and limits: no two requests are ever past the
\* lookup of one key, so compile_lock() does deduplicate concurrent misses.
THEOREM OneCompiler == Spec => []OneCompilerPerKey
<1>1. ServiceInv => OneCompilerPerKey
  <2> SUFFICES ASSUME ServiceInv, NEW r \in In(Locked), NEW s \in In(Locked), key[r] = key[s]
               PROVE  r = s
    BY DEF OneCompilerPerKey
  <2>1. r \in Request /\ pc[r] \in Locked /\ s \in Request /\ pc[s] \in Locked
    BY DEF In
  <2>2. lock[r] = lock[s]
    BY <2>1, Regions DEF ServiceInv, Table
  <2>3. HasLock(r, lock[r]) /\ HasLock(s, lock[s])
    BY <2>1 DEF ServiceInv, Queues
  <2> QED BY <2>2, <2>3 DEF HasLock
<1> QED BY <1>1, ServiceInvariance, PTL

\* Whatever the number of requests that want one key: an execution has ended
\* one timeout after its deadline, although the wait for the lock of the key is
\* not under the deadline.
THEOREM BoundedExecutions == Spec => []EndsWithinTwiceTheTimeout
<1>1. ServiceInv => EndsWithinTwiceTheTimeout
  BY DEF ServiceInv, Deadlines, EndsWithinTwiceTheTimeout, In
<1> QED BY <1>1, ServiceInvariance, PTL
-----------------------------------------------------------------------------
(* Slots.                                                                  *)

\* The slots are accounted for, and those who occupy one are finitely many.
SlotInv ==
  /\ slots \in Nat /\ IsFiniteSet(In(Slotted))
  /\ SlotsAreAccounted

\* Executions occupy a slot; those who wait, and those who have ended, do not.
LEMMA PlaceFacts ==
  /\ Executing \subseteq Slotted /\ "slot" \in Slotted /\ "slot" \notin Executing
  /\ "queued" \notin Slotted /\ "done" \notin Slotted /\ "broken" \notin Slotted /\ "new" \notin Slotted
  /\ "transpile" \in Executing
BY DEF Slotted, Executing, Locked, Using

\* What r's move from one place to another does to those in some places.
LEMMA GoesMoves ==
  ASSUME Types, NEW r \in Request, NEW to, Goes(r, to), NEW P
  PROVE  /\ In(P)' = IF to \in P THEN In(P) \cup {r} ELSE In(P) \ {r}
         /\ pc'[r] = to /\ \A s \in Request : s # r => pc'[s] = pc[s]
<1>1. pc' = [pc EXCEPT ![r] = to] /\ pc \in [Request -> PCs]
  BY DEF Goes, Types
<1>2. pc'[r] = to /\ \A s \in Request : s # r => pc'[s] = pc[s]
  BY <1>1
<1> QED BY <1>2 DEF In

\* A slot given back is free, or is that of the first waiter.
LEMMA GiveBackAccount ==
  ASSUME Types, Waiters, SlotInv, NEW r \in Request, pc[r] \in Slotted,
         NEW end \in {"done", "broken"}, GiveBack(r, end), admitted' = admitted - 1
  PROVE  /\ slots' \in Nat /\ IsFiniteSet(In(Slotted))'
         /\ slots' + Cardinality(In(Slotted))' = MaxConcurrency
         /\ ToSet(waiting)' = In({"queued"})' /\ (slots' > 0 => waiting' = <<>>)
         /\ admitted' = Cardinality(In(Slotted))' + Len(waiting')
         /\ admitted' <= MaxConcurrency + MaxQueue
         /\ In(Executing)' = In(Executing) \ {r}
<1> DEFINE n == Cardinality(In(Slotted))
<1>1. /\ IsFiniteSet(In(Slotted)) /\ n \in Nat /\ r \in In(Slotted)
      /\ slots \in Nat /\ slots + n = MaxConcurrency /\ admitted = n + Len(waiting)
      /\ (slots > 0 => waiting = <<>>) /\ admitted <= MaxConcurrency + MaxQueue
      /\ ToSet(waiting) = In({"queued"})
      /\ MaxConcurrency \in Nat /\ MaxQueue \in Nat
  BY FS_CardinalityType, ServiceAssumption DEF SlotInv, SlotsAreAccounted, In
<1>2. /\ IsFiniteSet(In(Slotted) \ {r}) /\ Cardinality(In(Slotted) \ {r}) = n - 1
  BY <1>1, FS_RemoveElement
<1>3. waiting \in Seq(Request) /\ Len(waiting) \in Nat
  BY LenProperties DEF Types
<1>4. CASE waiting = <<>>
  <2>1. Goes(r, end) /\ slots' = slots + 1 /\ waiting' = waiting
    BY <1>4 DEF GiveBack
  <2>2. In(Slotted)' = In(Slotted) \ {r} /\ In(Executing)' = In(Executing) \ {r}
    BY <2>1, GoesMoves, PlaceFacts
  <2>3. In({"queued"})' = In({"queued"})
    <3>1. pc'[r] # "queued" /\ pc[r] # "queued" /\ \A s \in Request : s # r => pc'[s] = pc[s]
      BY <2>1, GoesMoves, PlaceFacts
    <3> QED BY <3>1 DEF In
  <2> HIDE DEF n
  <2>4. ToSet(waiting)' = ToSet(waiting)
    BY <2>1
  <2> QED BY <1>1, <1>2, <1>3, <1>4, <2>1, <2>2, <2>3, <2>4
<1>5. CASE waiting # <<>>
  <2> DEFINE h == Head(waiting)
  <2>1. waiting' = Tail(waiting) /\ pc' = [pc EXCEPT ![r] = end, ![h] = "slot"] /\ slots' = slots
    BY <1>5 DEF GiveBack
  <2>2. /\ Len(waiting) \in Nat \ {0} /\ 1 \in DOMAIN waiting /\ h = waiting[1] /\ h \in Request
        /\ Len(Tail(waiting)) = Len(waiting) - 1
        /\ \A i \in DOMAIN Tail(waiting) : i + 1 \in DOMAIN waiting /\ Tail(waiting)[i] = waiting[i + 1]
        /\ \A i \in DOMAIN waiting : i # 1 => i - 1 \in DOMAIN Tail(waiting) /\ Tail(waiting)[i - 1] = waiting[i]
        /\ \A i \in DOMAIN Tail(waiting) : i \in Nat /\ i # 0
    BY <1>3, <1>5, TailProperties, LenProperties
  <2>3. pc[h] = "queued" /\ h # r
    BY <2>2, PlaceFacts DEF Waiters
  <2> HIDE DEF h
  <2>4. pc'[r] = end /\ pc'[h] = "slot" /\ \A s \in Request : s # r /\ s # h => pc'[s] = pc[s]
    BY <2>1, <2>2, <2>3 DEF Types
  <2>5. /\ In(Slotted)' = (In(Slotted) \ {r}) \cup {h} /\ h \notin In(Slotted) \ {r}
        /\ In(Executing)' = In(Executing) \ {r}
        /\ In({"queued"})' = In({"queued"}) \ {h}
    BY <2>2, <2>3, <2>4, PlaceFacts DEF In
  <2> HIDE DEF n
  <2>6. IsFiniteSet(In(Slotted)') /\ Cardinality(In(Slotted)') = n
    <3>1. /\ IsFiniteSet((In(Slotted) \ {r}) \cup {h})
          /\ Cardinality((In(Slotted) \ {r}) \cup {h}) = n - 1 + 1
      BY <1>2, <2>5, FS_AddElement
    <3> QED BY <1>1, <2>5, <3>1
  <2>7. ToSet(Tail(waiting)) = ToSet(waiting) \ {h}
    <3>1. \A i \in DOMAIN Tail(waiting) : Tail(waiting)[i] # h
      BY <2>2 DEF Waiters
    <3>2. ToSet(Tail(waiting)) \subseteq ToSet(waiting) \ {h}
      BY <2>2, <3>1 DEF ToSet
    <3>3. \A i \in DOMAIN waiting : waiting[i] # h => waiting[i] \in ToSet(Tail(waiting))
      BY <2>2 DEF ToSet
    <3> QED BY <3>2, <3>3 DEF ToSet
  <2>8. ToSet(waiting)' = In({"queued"})'
    BY <1>1, <2>1, <2>5, <2>7
  <2>9. slots' = 0 /\ Len(waiting') = Len(waiting) - 1
    BY <1>1, <1>5, <2>1, <2>2
  <2> QED BY <1>1, <1>3, <1>5, <2>2, <2>5, <2>6, <2>8, <2>9
<1> QED BY <1>4, <1>5

\* An execution's steps within it.
LEMMA ExecutionGoesOn ==
  ASSUME Types, NEW r \in Request,
         \/ TranspileSucceeds(r) \/ LookupHits(r) \/ LookupMisses(r) \/ Touched(r)
         \/ CompileSucceeds(r) \/ Replaced(r) \/ Reserved(r) \/ BacktestFails(r)
         \/ BacktestSucceeds(r) \/ Released(r) \/ TrimBegins(r) \/ WaitsForGuard(r)
  PROVE  UNCHANGED serviceVars /\ (pc' = pc \/ (pc[r] \in Executing /\ \E to \in Executing : Goes(r, to)))
<1> USE DEF Executing, Locked, Using
<1>1. CASE TranspileSucceeds(r) \/ LookupHits(r) \/ LookupMisses(r) \/ Touched(r)
  BY <1>1 DEF TranspileSucceeds, LookupHits, LookupMisses, Touched, MayLookUp
<1>2. CASE CompileSucceeds(r) \/ Replaced(r) \/ Reserved(r)
  BY <1>2 DEF CompileSucceeds, Replaced, Reserved
<1>3. CASE BacktestFails(r) \/ BacktestSucceeds(r) \/ Released(r) \/ TrimBegins(r)
  BY <1>3 DEF BacktestFails, BacktestSucceeds, Released, TrimBegins
<1>4. CASE WaitsForGuard(r)
  BY <1>4 DEF WaitsForGuard
<1> QED BY <1>1, <1>2, <1>3, <1>4

\* Every step of a request keeps the slots accounted for.
LEMMA SlotStep ==
  ASSUME Types, Waiters, SlotInv, NEW r \in Request, Arrive(r) \/ Step(r)
  PROVE  SlotInv'
<1> DEFINE n == Cardinality(In(Slotted))
           e == Cardinality(In(Executing))
<1>1. /\ IsFiniteSet(In(Slotted)) /\ n \in Nat
      /\ slots \in Nat /\ slots + n = MaxConcurrency /\ admitted = n + Len(waiting)
      /\ (slots > 0 => waiting = <<>>) /\ admitted <= MaxConcurrency + MaxQueue
      /\ ToSet(waiting) = In({"queued"}) /\ running = e
      /\ MaxConcurrency \in Nat /\ MaxQueue \in Nat
  BY FS_CardinalityType, ServiceAssumption DEF SlotInv, SlotsAreAccounted
<1>2. IsFiniteSet(In(Executing)) /\ e \in Nat
  <2>1. In(Executing) \in SUBSET In(Slotted)
    BY PlaceFacts DEF In
  <2> QED BY <1>1, <2>1, FS_Subset, FS_CardinalityType
<1>3. waiting \in Seq(Request) /\ Len(waiting) \in Nat
  BY LenProperties DEF Types
<1> HIDE DEF n, e
<1>4. ASSUME UNCHANGED <<slots, waiting, admitted>>, In(Slotted)' = In(Slotted),
             In({"queued"})' = In({"queued"}), running' = Cardinality(In(Executing)')
      PROVE  SlotInv'
  BY <1>1, <1>4 DEF SlotInv, SlotsAreAccounted, n
<1>5. ASSUME pc[r] \in Executing, NEW end \in {"done", "broken"}, Ends(r, end)
      PROVE  SlotInv'
  <2>1. GiveBack(r, end) /\ running' = running - 1 /\ admitted' = admitted - 1 /\ pc[r] \in Slotted
    BY <1>5, PlaceFacts DEF Ends
  <2>2. Cardinality(In(Executing) \ {r}) = e - 1
    BY <1>2, <1>5, FS_RemoveElement DEF In, e
  <2> QED BY <1>1, <2>1, <2>2, GiveBackAccount DEF SlotInv, SlotsAreAccounted
<1>6. CASE \/ TranspileFails(r) \/ TouchFailed(r) \/ CompileFails(r) \/ ReplaceFailed(r)
           \/ Abandoned(r) \/ TrimEnds(r)
  BY <1>5, <1>6
  DEF TranspileFails, TouchFailed, CompileFails, ReplaceFailed, Abandoned, TrimEnds, Finish,
      Executing, Using, Locked
<1>7. CASE \/ TranspileSucceeds(r) \/ LookupHits(r) \/ LookupMisses(r) \/ Touched(r)
           \/ CompileSucceeds(r) \/ Replaced(r) \/ Reserved(r) \/ BacktestFails(r)
           \/ BacktestSucceeds(r) \/ Released(r) \/ TrimBegins(r) \/ WaitsForGuard(r)
  <2>1. UNCHANGED serviceVars /\ (pc' = pc \/ (pc[r] \in Executing /\ \E to \in Executing : Goes(r, to)))
    BY <1>7, ExecutionGoesOn, Zenon
  <2>2. /\ In(Slotted)' = In(Slotted) /\ In({"queued"})' = In({"queued"})
        /\ In(Executing)' = In(Executing)
    <3>1. CASE pc' = pc
      BY <3>1 DEF In
    <3>2. ASSUME pc[r] \in Executing, NEW to \in Executing, Goes(r, to)
          PROVE  <2>2!:
      <4>1. to \in Slotted /\ to # "queued" /\ pc[r] \in Slotted /\ pc[r] # "queued"
        BY <3>2, PlaceFacts
      <4>2. /\ In(Slotted)' = In(Slotted) \cup {r} /\ In(Executing)' = In(Executing) \cup {r}
            /\ In({"queued"})' = In({"queued"}) \ {r}
        BY <3>2, <4>1, GoesMoves
      <4> QED BY <3>2, <4>1, <4>2 DEF In
    <3> QED BY <2>1, <3>1, <3>2
  <2> QED BY <1>1, <1>4, <2>1, <2>2 DEF serviceVars, e
<1>8. CASE Start(r)
  <2>1. pc[r] = "slot" /\ Goes(r, "transpile") /\ running' = running + 1
        /\ UNCHANGED <<slots, waiting, admitted>>
    BY <1>8 DEF Start
  <2>2. /\ In(Slotted)' = In(Slotted) \cup {r} /\ In(Executing)' = In(Executing) \cup {r}
        /\ In({"queued"})' = In({"queued"}) \ {r}
    BY <2>1, GoesMoves, PlaceFacts
  <2>3. In(Slotted)' = In(Slotted) /\ In({"queued"})' = In({"queued"}) /\ r \notin In(Executing)
    BY <2>1, <2>2, PlaceFacts DEF In
  <2>4. Cardinality(In(Executing) \cup {r}) = e + 1
    BY <1>2, <2>3, FS_AddElement DEF e
  <2> QED BY <1>1, <1>4, <2>1, <2>2, <2>3, <2>4
<1>9. CASE QueueTimesOut(r)
  <2>1. admitted' = admitted - 1 /\ running' = running
    BY <1>9 DEF QueueTimesOut
  <2>2. CASE pc[r] = "slot" /\ GiveBack(r, "done")
    <3>1. In(Executing) \ {r} = In(Executing) /\ pc[r] \in Slotted
      BY <2>2, PlaceFacts DEF In
    <3> QED BY <1>1, <2>1, <2>2, <3>1, GiveBackAccount DEF SlotInv, SlotsAreAccounted, e
  <2>3. CASE /\ pc[r] = "queued" /\ Goes(r, "done") /\ slots' = slots
             /\ \E i \in DOMAIN waiting : waiting[i] = r /\ waiting' = RemoveAt(waiting, i)
    <3>1. PICK i \in DOMAIN waiting : waiting[i] = r /\ waiting' = RemoveAt(waiting, i)
      BY <2>3
    <3>2. /\ In(Slotted)' = In(Slotted) /\ In(Executing)' = In(Executing)
          /\ In({"queued"})' = In({"queued"}) \ {r}
      <4>1. pc'[r] = "done" /\ \A s \in Request : s # r => pc'[s] = pc[s]
        BY <2>3, GoesMoves
      <4> QED BY <2>3, <4>1, PlaceFacts DEF In
    <3>3. /\ waiting' \in Seq(Request) /\ Len(waiting') = Len(waiting) - 1
          /\ DOMAIN waiting' = 1..(Len(waiting) - 1) /\ DOMAIN waiting = 1..Len(waiting)
          /\ \A j \in 1..(Len(waiting) - 1) : waiting'[j] = IF j < i THEN waiting[j] ELSE waiting[j + 1]
      BY <1>3, <3>1, RemoveAtProperties, LenProperties
    <3>4. \A j \in DOMAIN waiting' : \E k \in DOMAIN waiting : k # i /\ waiting'[j] = waiting[k]
      <4> SUFFICES ASSUME NEW j \in DOMAIN waiting'
                   PROVE  \E k \in DOMAIN waiting : k # i /\ waiting'[j] = waiting[k]
        OBVIOUS
      <4>1. CASE j < i
        BY <1>3, <3>1, <3>3, <4>1
      <4>2. CASE ~(j < i)
        BY <1>3, <3>1, <3>3, <4>2, SMTT(40)
      <4> QED BY <4>1, <4>2
    <3>5. \A k \in DOMAIN waiting : k # i => \E j \in DOMAIN waiting' : waiting'[j] = waiting[k]
      <4> SUFFICES ASSUME NEW k \in DOMAIN waiting, k # i
                   PROVE  \E j \in DOMAIN waiting' : waiting'[j] = waiting[k]
        OBVIOUS
      <4>1. CASE k < i
        BY <1>3, <3>1, <3>3, <4>1
      <4>2. CASE k > i
        <5>1. k - 1 \in 1..(Len(waiting) - 1) /\ ~(k - 1 < i) /\ (k - 1) + 1 = k
          BY <1>3, <3>1, <3>3, <4>2
        <5> QED BY <3>3, <5>1
      <4> QED BY <1>3, <3>1, <3>3, <4>1, <4>2
    <3>6. ToSet(waiting') = ToSet(waiting) \ {r}
      <4>1. \A k \in DOMAIN waiting : waiting[k] = r => k = i
        BY <3>1 DEF Waiters
      <4> QED BY <3>1, <3>4, <3>5, <4>1 DEF ToSet
    <3>7. slots' = slots /\ slots = 0
      BY <1>1, <2>3, <3>1, EmptySeq
    <3> QED
      BY <1>1, <1>3, <2>1, <3>2, <3>3, <3>6, <3>7 DEF SlotInv, SlotsAreAccounted, n, e
  <2> QED BY <1>9, <2>2, <2>3 DEF QueueTimesOut
<1>10. CASE Arrive(r)
  <2>1. pc[r] = "new" /\ r \notin In(Slotted) /\ r \notin In(Executing) /\ r \notin In({"queued"})
    BY <1>10, PlaceFacts DEF Arrive, In
  <2>2. CASE Goes(r, "done") /\ UNCHANGED serviceVars
    <3>1. /\ In(Slotted)' = In(Slotted) /\ In(Executing)' = In(Executing)
          /\ In({"queued"})' = In({"queued"})
      BY <2>1, <2>2, GoesMoves, PlaceFacts
    <3> QED BY <1>1, <1>4, <2>2, <3>1 DEF serviceVars, e
  <2>3. CASE /\ ~Overloaded /\ admitted' = admitted + 1 /\ running' = running
             /\ slots > 0 /\ waiting = <<>>
             /\ Goes(r, "slot") /\ slots' = slots - 1 /\ waiting' = waiting
    <3>1. /\ In(Slotted)' = In(Slotted) \cup {r} /\ In(Executing)' = In(Executing)
          /\ In({"queued"})' = In({"queued"})
      <4>1. pc'[r] = "slot" /\ \A s \in Request : s # r => pc'[s] = pc[s]
        BY <2>3, GoesMoves
      <4> QED BY <2>1, <4>1, PlaceFacts DEF In
    <3>2. IsFiniteSet(In(Slotted)') /\ Cardinality(In(Slotted)') = n + 1
      BY <1>1, <2>1, <3>1, FS_AddElement DEF n
    <3> QED BY <1>1, <1>3, <2>3, <3>1, <3>2 DEF SlotInv, SlotsAreAccounted, Overloaded, e
  <2>4. CASE /\ ~Overloaded /\ admitted' = admitted + 1 /\ running' = running
             /\ ~(slots > 0 /\ waiting = <<>>)
             /\ Goes(r, "queued") /\ waiting' = Append(waiting, r) /\ slots' = slots
    <3>1. /\ In(Slotted)' = In(Slotted) /\ In(Executing)' = In(Executing)
          /\ In({"queued"})' = In({"queued"}) \cup {r}
      <4>1. pc'[r] = "queued" /\ \A s \in Request : s # r => pc'[s] = pc[s]
        BY <2>4, GoesMoves
      <4> QED BY <2>1, <4>1, PlaceFacts DEF In
    <3>2. /\ Len(waiting') = Len(waiting) + 1
          /\ Len(waiting) + 1 \in DOMAIN waiting' /\ waiting'[Len(waiting) + 1] = r
          /\ \A i \in DOMAIN waiting : i \in DOMAIN waiting' /\ waiting'[i] = waiting[i]
          /\ \A i \in DOMAIN waiting' : i \in DOMAIN waiting \/ i = Len(waiting) + 1
      BY <1>3, <2>4, JoinProperties
    <3>3. ToSet(waiting') = ToSet(waiting) \cup {r}
      BY <3>2 DEF ToSet
    <3>4. slots = 0
      BY <1>1, <2>4
    <3> QED BY <1>1, <1>3, <2>4, <3>1, <3>2, <3>3, <3>4 DEF SlotInv, SlotsAreAccounted, Overloaded, n, e
  <2> QED BY <1>10, <2>2, <2>3, <2>4 DEF Arrive
<1> QED BY <1>6, <1>7, <1>8, <1>9, <1>10 DEF Step

LEMMA SlotInvInit == Init => SlotInv
<1> SUFFICES ASSUME Init PROVE SlotInv
  OBVIOUS
<1>1. /\ pc = [r \in Request |-> "new"] /\ admitted = 0 /\ running = 0
      /\ slots = MaxConcurrency /\ waiting = <<>> /\ MaxConcurrency \in Nat /\ MaxQueue \in Nat
  BY ServiceAssumption DEF Init
<1>2. In(Slotted) = {} /\ In(Executing) = {} /\ In({"queued"}) = {}
  BY <1>1, PlaceFacts DEF In
<1>3. ToSet(waiting) = {} /\ Len(waiting) = 0
  BY <1>1, EmptySeq DEF ToSet
<1>4. IsFiniteSet(In(Slotted)) /\ Cardinality(In(Slotted)) = 0 /\ Cardinality(In(Executing)) = 0
  BY <1>2, FS_EmptySet, Zenon
<1>5. ToSet(waiting) = In({"queued"})
  BY <1>2, <1>3
<1>6. /\ slots + Cardinality(In(Slotted)) = MaxConcurrency
      /\ running = Cardinality(In(Executing)) /\ admitted = Cardinality(In(Slotted)) + Len(waiting)
      /\ admitted <= MaxConcurrency + MaxQueue
  BY <1>1, <1>3, <1>4
<1> QED BY <1>1, <1>4, <1>5, <1>6 DEF SlotInv, SlotsAreAccounted
-----------------------------------------------------------------------------
(* The guard of the files, the artifacts and their reservations.           *)

\* Where a request has or wants the guard, where it keeps the guard while a thread
\* works, and where it makes an artifact.
Guarded == {"lookup", "touch", "replace", "reserve", "abandon", "release", "trim", "trimming"}
Held == {"touch", "reserve", "trimming"}
Making == {"compile", "replace", "reserve"}

\* Those in the queue of the guard are where they need it, and whoever left it to
\* a thread is the first.
GuardInv ==
  /\ guard \in Seq(Request)
  /\ \A i \in DOMAIN guard : pc[guard[i]] \in Guarded
  /\ \A i, j \in DOMAIN guard : guard[i] = guard[j] => i = j
  /\ \A r \in Request : pc[r] \in Held => guard # <<>> /\ Head(guard) = r

\* Where a reservation is: in use, or left by a touch that raised.
Holding == Using \cup {"broken"}
Holds(k) == {r \in In(Holding) : key[r] = k}

\* Reservations count the uses and what such touches left, what a trim spares is what is reserved, and what
\* has just been published is there until it is reserved.
FileInv ==
  /\ DOMAIN files \subseteq Key /\ \A k \in DOMAIN files : files[k] \in Nat
  /\ active \in [Key -> Nat] /\ exempt \in [Request -> SUBSET Key]
  /\ \A k \in Key : IsFiniteSet(Holds(k)) /\ active[k] = Cardinality(Holds(k))
  /\ \A r \in Request : pc[r] = "trimming" => exempt[r] = {k \in Key : active[k] # 0}
  /\ \A r \in Request : pc[r] = "reserve" => key[r] \in DOMAIN files
  /\ InUseIsKept

CacheInv == ServiceInv /\ SlotInv /\ GuardInv /\ FileInv

\* A step that has nothing to do with the files.
Apart(r) ==
  /\ guard' = guard /\ UNCHANGED fileVars
  /\ pc[r] \notin Guarded /\ pc'[r] \notin Held
  /\ pc'[r] \in Using <=> pc[r] \in Using
  /\ pc[r] # "broken" /\ pc'[r] # "broken"
  /\ pc'[r] \in Making => pc[r] \in Making

\* A step with the guard.
Guards(r) ==
  \/ LookupHits(r) \/ LookupMisses(r) \/ Touched(r) \/ TouchFailed(r)
  \/ Replaced(r) \/ ReplaceFailed(r) \/ Reserved(r)
  \/ Abandoned(r) \/ Released(r) \/ TrimBegins(r) \/ TrimEnds(r)

\* What a step has to do with the guard, and what it does to the others.
LEMMA GuardKinds ==
  ASSUME Types, Waiters, NEW r \in Request, Arrive(r) \/ Step(r)
  PROVE  /\ key' = key /\ now' = now
         /\ Apart(r) \/ WaitsForGuard(r) \/ Guards(r)
         /\ \A s \in Request : s # r => pc'[s] = pc[s] \/ (pc[s] = "queued" /\ pc'[s] = "slot")
<1>1. key' = key /\ now' = now /\ pc \in [Request -> PCs]
  BY StepKinds DEF Types
<1>2. \A s \in Request : s # r => pc'[s] = pc[s] \/ (pc[s] = "queued" /\ pc'[s] = "slot")
  BY PlacesStep
<1> USE DEF Guarded, Held, Using, Making
<1>3. CASE Arrive(r)
  <2>1. pc[r] = "new" /\ guard' = guard /\ UNCHANGED fileVars
    BY <1>3 DEF Arrive, cacheVars
  <2>2. pc'[r] \in {"done", "slot", "queued"}
    BY <1>1, <1>3 DEF Arrive, Goes
  <2> QED BY <1>1, <1>2, <2>1, <2>2 DEF Apart
<1>4. CASE Start(r)
  BY <1>1, <1>2, <1>4 DEF Start, Goes, cacheVars, Apart
<1>5. CASE QueueTimesOut(r)
  <2>1. pc[r] \in {"queued", "slot"} /\ pc'[r] = "done" /\ guard' = guard /\ UNCHANGED fileVars
    BY <1>1, <1>5, GiveBackMoves DEF QueueTimesOut, Goes, cacheVars
  <2> QED BY <1>1, <1>2, <2>1 DEF Apart
<1>6. CASE TranspileFails(r) \/ CompileFails(r)
  <2>1. pc[r] \in {"transpile", "compile"} /\ pc'[r] = "done" /\ guard' = guard /\ UNCHANGED fileVars
    BY <1>6, GiveBackMoves DEF TranspileFails, CompileFails, Finish, Ends, cacheVars
  <2> QED BY <1>1, <1>2, <2>1 DEF Apart
<1>7. CASE TranspileSucceeds(r)
  <2>1. pc[r] = "transpile" /\ pc'[r] = "lookup" /\ guard' = guard /\ UNCHANGED fileVars
    BY <1>1, <1>7 DEF TranspileSucceeds, Goes
  <2> QED BY <1>1, <1>2, <2>1 DEF Apart
<1>8. CASE CompileSucceeds(r)
  <2>1. pc[r] = "compile" /\ pc'[r] = "replace" /\ guard' = guard /\ UNCHANGED fileVars
    BY <1>1, <1>8 DEF CompileSucceeds, Goes, cacheVars
  <2> QED BY <1>1, <1>2, <2>1 DEF Apart
<1>9. CASE BacktestFails(r) \/ BacktestSucceeds(r)
  <2>1. pc[r] = "backtest" /\ pc'[r] \in {"abandon", "release"} /\ guard' = guard /\ UNCHANGED fileVars
    BY <1>1, <1>9 DEF BacktestFails, BacktestSucceeds, Goes, cacheVars
  <2> QED BY <1>1, <1>2, <2>1 DEF Apart
<1> QED
  BY <1>1, <1>2, <1>3, <1>4, <1>5, <1>6, <1>7, <1>8, <1>9 DEF Step, Guards

\* Where r goes with the guard, and whether it keeps it.
LEMMA GuardPlaces ==
  ASSUME Types, Waiters, NEW r \in Request, Guards(r)
  PROVE  /\ MayEnter(r) /\ pc[r] \in Guarded
         /\ \/ KeepGuard(r) /\ pc'[r] \in Guarded
            \/ LeaveGuard(r) /\ pc'[r] \notin Held
         /\ LookupHits(r) => pc[r] = "lookup" /\ pc'[r] = "touch"
         /\ LookupMisses(r) => pc[r] = "lookup" /\ pc'[r] = "compile"
         /\ Touched(r) => pc[r] = "touch" /\ pc'[r] = "backtest"
         /\ TouchFailed(r) => pc[r] = "touch" /\ pc'[r] = "broken"
         /\ Replaced(r) => pc[r] = "replace" /\ pc'[r] = "reserve"
         /\ ReplaceFailed(r) => pc[r] = "replace" /\ pc'[r] = "done"
         /\ Reserved(r) => pc[r] = "reserve" /\ pc'[r] = "backtest"
         /\ Abandoned(r) => pc[r] = "abandon" /\ pc'[r] = "done"
         /\ Released(r) => pc[r] = "release" /\ pc'[r] = "trim"
         /\ TrimBegins(r) => pc[r] = "trim" /\ pc'[r] = "trimming"
         /\ TrimEnds(r) => pc[r] = "trimming" /\ pc'[r] = "done"
<1>1. pc \in [Request -> PCs]
  BY DEF Types
<1> USE DEF Guarded, Held
<1>2. /\ LookupHits(r) => pc[r] = "lookup" /\ pc'[r] = "touch" /\ MayEnter(r) /\ KeepGuard(r)
      /\ LookupMisses(r) => pc[r] = "lookup" /\ pc'[r] = "compile" /\ MayEnter(r) /\ LeaveGuard(r)
  BY <1>1 DEF LookupHits, LookupMisses, MayLookUp, Goes, Hit, Miss
<1>3. /\ Touched(r) => pc[r] = "touch" /\ pc'[r] = "backtest" /\ MayEnter(r) /\ LeaveGuard(r)
      /\ Replaced(r) => pc[r] = "replace" /\ pc'[r] = "reserve" /\ MayEnter(r) /\ KeepGuard(r)
      /\ Reserved(r) => pc[r] = "reserve" /\ pc'[r] = "backtest" /\ MayEnter(r) /\ LeaveGuard(r)
  BY <1>1 DEF Touched, Replaced, Reserved, Goes, Touch, Replace, Reserve
<1>4. /\ Released(r) => pc[r] = "release" /\ pc'[r] = "trim" /\ MayEnter(r) /\ LeaveGuard(r)
      /\ TrimBegins(r) => pc[r] = "trim" /\ pc'[r] = "trimming" /\ MayEnter(r) /\ KeepGuard(r)
  BY <1>1 DEF Released, TrimBegins, Goes, Release, BeginTrim
<1>5. /\ Abandoned(r) => pc[r] = "abandon" /\ pc'[r] = "done" /\ MayEnter(r) /\ LeaveGuard(r)
      /\ TrimEnds(r) => pc[r] = "trimming" /\ pc'[r] = "done" /\ MayEnter(r) /\ LeaveGuard(r)
  BY GiveBackMoves DEF Abandoned, TrimEnds, Finish, Ends, Release, EndTrim
<1>6. /\ TouchFailed(r) => pc[r] = "touch" /\ pc'[r] = "broken" /\ MayEnter(r) /\ LeaveGuard(r)
      /\ ReplaceFailed(r) => pc[r] = "replace" /\ pc'[r] = "done" /\ MayEnter(r) /\ LeaveGuard(r)
  BY GiveBackMoves DEF TouchFailed, ReplaceFailed, Finish, Ends, TouchFails, ReplaceFails
<1> QED BY <1>2, <1>3, <1>4, <1>5, <1>6 DEF Guards

\* The others come to no place near the files.
LEMMA OthersApart ==
  ASSUME NEW r \in Request,
         \A s \in Request : s # r => pc'[s] = pc[s] \/ (pc[s] = "queued" /\ pc'[s] = "slot")
  PROVE  \A s \in Request : s # r =>
           /\ \A P \in {Guarded, Held, Using, Making, {"trimming"}, {"reserve"}} : pc'[s] \in P <=> pc[s] \in P
BY DEF Guarded, Held, Using, Making

\* Every step of a request keeps the queue of the guard in order.
LEMMA GuardStep ==
  ASSUME Types, Waiters, GuardInv, NEW r \in Request, Arrive(r) \/ Step(r)
  PROVE  GuardInv'
<1>1. /\ \A s \in Request : s # r => /\ pc'[s] \in Guarded <=> pc[s] \in Guarded
                                     /\ pc'[s] \in Held <=> pc[s] \in Held
      /\ Apart(r) \/ WaitsForGuard(r) \/ Guards(r)
  <2>1. \A s \in Request : s # r => pc'[s] = pc[s] \/ (pc[s] = "queued" /\ pc'[s] = "slot")
    BY GuardKinds
  <2> QED BY <2>1, GuardKinds DEF Guarded, Held
<1>2. /\ guard \in Seq(Request) /\ Len(guard) \in Nat /\ DOMAIN guard = 1..Len(guard)
      /\ \A i \in DOMAIN guard : guard[i] \in Request /\ guard # <<>>
      /\ guard # <<>> => Head(guard) = guard[1] /\ 1 \in DOMAIN guard
  <2>1. guard \in Seq(Request)
    BY DEF GuardInv
  <2>2. Len(guard) \in Nat /\ DOMAIN guard = 1..Len(guard) /\ (guard = <<>> <=> Len(guard) = 0)
    BY <2>1, LenProperties, EmptySeq
  <2>3. \A i \in DOMAIN guard : guard[i] \in Request
    BY <2>1, <2>2, ElementOfSeq
  <2>4. guard # <<>> => Head(guard) = guard[1] /\ 1 \in DOMAIN guard
    BY <2>1, TailProperties
  <2> QED BY <2>1, <2>2, <2>3, <2>4
<1>3. CASE Apart(r)
  <2>1. \A i \in DOMAIN guard : guard[i] # r
    BY <1>3 DEF Apart, GuardInv
  <2> QED BY <1>1, <1>2, <1>3, <2>1 DEF Apart, GuardInv
<1>4. CASE WaitsForGuard(r)
  <2>1. pc' = pc /\ guard' = Append(guard, r) /\ pc[r] \in Guarded /\ guard # <<>>
        /\ \A i \in DOMAIN guard : guard[i] # r
    BY <1>4 DEF WaitsForGuard, JoinGuard, Waits, MayLookUp, Guarded, ToSet
  <2>2. /\ guard' \in Seq(Request) /\ guard' # <<>> /\ guard'[Len(guard) + 1] = r
        /\ \A i \in DOMAIN guard : guard'[i] = guard[i]
        /\ \A i \in DOMAIN guard' : i \in DOMAIN guard \/ i = Len(guard) + 1
        /\ Head(guard') = Head(guard)
    BY <1>2, <2>1, JoinProperties
  <2>3. \A i \in DOMAIN guard' : pc'[guard'[i]] \in Guarded
    BY <2>1, <2>2 DEF GuardInv
  <2>4. \A i, j \in DOMAIN guard' : guard'[i] = guard'[j] => i = j
    BY <2>1, <2>2 DEF GuardInv
  <2> QED BY <2>1, <2>2, <2>3, <2>4 DEF GuardInv
<1>5. CASE Guards(r)
  <2>1. MayEnter(r) /\ pc[r] \in Guarded
    BY <1>5, GuardPlaces
  <2>2. \A s \in Request : s # r => pc'[s] \notin Held
    <3> SUFFICES ASSUME NEW s \in Request, s # r, pc'[s] \in Held PROVE FALSE
      OBVIOUS
    <3>1. guard # <<>> /\ Head(guard) = s
      BY <1>1 DEF GuardInv
    <3> QED BY <2>1, <3>1 DEF MayEnter
  <2>3. CASE KeepGuard(r) /\ pc'[r] \in Guarded
    <3>1. CASE guard = <<>>
      <4>1. guard' = <<r>>
        BY <2>3, <3>1 DEF KeepGuard
      <4>2. <<r>> \in Seq(Request) /\ DOMAIN <<r>> = {1} /\ <<r>>[1] = r /\ <<r>> # <<>> /\ Head(<<r>>) = r
        BY SMTT(30)
      <4> QED BY <2>2, <2>3, <4>1, <4>2 DEF GuardInv
    <3>2. CASE guard # <<>>
      <4>1. guard' = guard /\ Head(guard) = r
        BY <2>1, <2>3, <3>2 DEF KeepGuard, MayEnter
      <4> QED BY <1>1, <1>2, <2>2, <2>3, <3>2, <4>1 DEF GuardInv
    <3> QED BY <3>1, <3>2
  <2>4. CASE LeaveGuard(r) /\ pc'[r] \notin Held
    <3>1. CASE guard = <<>>
      <4>1. guard' = <<>> /\ DOMAIN guard' = {}
        BY <2>4, <3>1 DEF LeaveGuard
      <4> QED BY <1>2, <2>2, <2>4, <3>1, <4>1 DEF GuardInv
    <3>2. CASE guard # <<>>
      <4>1. guard' = Tail(guard) /\ guard[1] = r /\ 1 \in DOMAIN guard
        BY <1>2, <2>1, <2>4, <3>2 DEF LeaveGuard, MayEnter
      <4>2. /\ guard' \in Seq(Request)
            /\ \A i \in DOMAIN guard' : i + 1 \in DOMAIN guard /\ guard'[i] = guard[i + 1] /\ i \in Nat /\ i # 0
        BY <1>2, <3>2, <4>1, TailProperties, LenProperties
      <4>3. \A i \in DOMAIN guard' : guard'[i] # r
        BY <4>1, <4>2 DEF GuardInv
      <4>4. \A i \in DOMAIN guard' : pc'[guard'[i]] \in Guarded
        BY <1>1, <1>2, <4>2, <4>3 DEF GuardInv
      <4>5. \A i, j \in DOMAIN guard' : guard'[i] = guard'[j] => i = j
        BY <4>2 DEF GuardInv
      <4> QED BY <2>2, <2>4, <4>2, <4>4, <4>5 DEF GuardInv
    <3> QED BY <3>1, <3>2
  <2> QED BY <1>5, <2>3, <2>4, GuardPlaces
<1> QED BY <1>1, <1>3, <1>4, <1>5
-----------------------------------------------------------------------------
\* What a step does to those who hold a reservation of a key.
LEMMA HoldsMove ==
  ASSUME NEW r \in Request, key' = key,
         \A s \in Request : s # r => (pc'[s] \in Holding <=> pc[s] \in Holding),
         NEW k \in Key, IsFiniteSet(Holds(k))
  PROVE  /\ IsFiniteSet(Holds(k)') /\ Cardinality(Holds(k)) \in Nat
         /\ (k # key[r] \/ (pc'[r] \in Holding <=> pc[r] \in Holding)) => Holds(k)' = Holds(k)
         /\ pc'[r] \in Holding /\ pc[r] \notin Holding /\ k = key[r] =>
              Cardinality(Holds(k)') = Cardinality(Holds(k)) + 1
         /\ pc'[r] \notin Holding /\ pc[r] \in Holding /\ k = key[r] =>
              Cardinality(Holds(k)') = Cardinality(Holds(k)) - 1
<1>1. Cardinality(Holds(k)) \in Nat
  BY FS_CardinalityType
<1>2. /\ Holds(k) = {s \in Request : pc[s] \in Holding /\ key[s] = k}
      /\ Holds(k)' = {s \in Request : pc'[s] \in Holding /\ key[s] = k}
  BY DEF Holds, In
<1>3. ASSUME k # key[r] \/ (pc'[r] \in Holding <=> pc[r] \in Holding)
      PROVE  Holds(k)' = Holds(k)
  BY <1>2, <1>3
<1>4. ASSUME pc'[r] \in Holding, pc[r] \notin Holding, k = key[r]
      PROVE  IsFiniteSet(Holds(k)') /\ Cardinality(Holds(k)') = Cardinality(Holds(k)) + 1
  <2>1. Holds(k)' = Holds(k) \cup {r} /\ r \notin Holds(k)
    BY <1>2, <1>4
  <2> QED BY <2>1, FS_AddElement
<1>5. ASSUME pc'[r] \notin Holding, pc[r] \in Holding, k = key[r]
      PROVE  IsFiniteSet(Holds(k)') /\ Cardinality(Holds(k)') = Cardinality(Holds(k)) - 1
  <2>1. Holds(k)' = Holds(k) \ {r} /\ r \in Holds(k)
    BY <1>2, <1>5
  <2> QED BY <2>1, FS_RemoveElement
<1> QED BY <1>1, <1>3, <1>4, <1>5

\* Every step with the guard reserves for a use that begins, gives back that of one
\* that ends, or leaves the reservation of a touch that raised.
LEMMA ActiveStep ==
  ASSUME Types, FileInv, NEW r \in Request, key' = key,
         \A s \in Request : s # r => (pc'[s] \in Holding <=> pc[s] \in Holding),
         \/ active' = active /\ (pc'[r] \in Holding <=> pc[r] \in Holding)
         \/ active' = [active EXCEPT ![key[r]] = @ + 1] /\ pc'[r] \in Holding /\ pc[r] \notin Holding
         \/ active' = [active EXCEPT ![key[r]] = @ - 1] /\ pc'[r] \notin Holding /\ pc[r] \in Holding
  PROVE  /\ active' \in [Key -> Nat]
         /\ \A k \in Key : IsFiniteSet(Holds(k)') /\ active'[k] = Cardinality(Holds(k)')
<1>1. /\ active \in [Key -> Nat] /\ key[r] \in Key
      /\ \A k \in Key : IsFiniteSet(Holds(k)) /\ active[k] = Cardinality(Holds(k))
  BY DEF Types, FileInv
<1>2. CASE active' = active /\ (pc'[r] \in Holding <=> pc[r] \in Holding)
  BY <1>1, <1>2, HoldsMove
<1>3. CASE active' = [active EXCEPT ![key[r]] = @ + 1] /\ pc'[r] \in Holding /\ pc[r] \notin Holding
  BY <1>1, <1>3, HoldsMove
<1>4. CASE active' = [active EXCEPT ![key[r]] = @ - 1] /\ pc'[r] \notin Holding /\ pc[r] \in Holding
  <2>1. r \in Holds(key[r])
    BY <1>4 DEF Holds, In
  <2>2. active[key[r]] # 0
    BY <1>1, <2>1, FS_EmptySet
  <2> QED BY <1>1, <1>4, <2>2, HoldsMove
<1> QED BY <1>2, <1>3, <1>4

\* What is used is reserved.
LEMMA UsedIsReserved ==
  ASSUME Types, FileInv, NEW s \in Request, pc[s] \in Using
  PROVE  active[key[s]] # 0 /\ key[s] \in Key
<1>1. s \in Holds(key[s]) /\ key[s] \in Key
  BY DEF Holds, Holding, In, Types
<1>2. IsFiniteSet(Holds(key[s])) /\ active[key[s]] = Cardinality(Holds(key[s]))
  BY <1>1 DEF FileInv
<1> QED BY <1>1, <1>2, FS_EmptySet

\* No two are past the lookup of one key.
LEMMA LockedAlone ==
  ASSUME ServiceInv, NEW r \in Request, NEW s \in Request, key[r] = key[s], pc[s] \in Locked,
         pc[r] \in Locked \/ MayLookUp(r)
  PROVE  r = s
<1>1. pc[r] \in Section /\ pc[s] \in Section
  BY Regions DEF MayLookUp
<1>2. lock[r] = lock[s]
  BY <1>1 DEF ServiceInv, Table
<1>3. HasLock(r, lock[r]) /\ HasLock(s, lock[s])
  BY DEF ServiceInv, Queues, MayLookUp
<1> QED BY <1>2, <1>3 DEF HasLock

\* Every step of a request keeps what is used reserved and published.
LEMMA FileStep ==
  ASSUME CacheInv, NEW r \in Request, Arrive(r) \/ Step(r)
  PROVE  FileInv'
<1>1. /\ Types /\ Waiters /\ ServiceInv /\ SlotInv /\ GuardInv /\ FileInv
      /\ key \in [Request -> Key] /\ now \in Nat
  BY DEF CacheInv, ServiceInv, Types
<1>2. key' = key /\ (Apart(r) \/ WaitsForGuard(r) \/ Guards(r))
  BY <1>1, GuardKinds
<1>3. \A s \in Request : s # r =>
        /\ pc'[s] \in Held <=> pc[s] \in Held
        /\ pc'[s] \in Using <=> pc[s] \in Using
        /\ pc'[s] \in Holding <=> pc[s] \in Holding
        /\ pc'[s] \in Making <=> pc[s] \in Making
        /\ pc'[s] = "trimming" <=> pc[s] = "trimming"
        /\ pc'[s] = "reserve" <=> pc[s] = "reserve"
  <2>1. \A s \in Request : s # r => pc'[s] = pc[s] \/ (pc[s] = "queued" /\ pc'[s] = "slot")
    BY <1>1, GuardKinds
  <2> QED BY <2>1 DEF Held, Using, Holding, Making
<1>4. /\ DOMAIN files \subseteq Key /\ \A k \in DOMAIN files : files[k] \in Nat
      /\ active \in [Key -> Nat] /\ exempt \in [Request -> SUBSET Key]
      /\ \A k \in Key : active[k] = Cardinality(Holds(k))
      /\ \A s \in Request : pc[s] = "trimming" => exempt[s] = {k \in Key : active[k] # 0}
      /\ \A s \in Request : pc[s] = "reserve" => key[s] \in DOMAIN files
      /\ \A s, t \in Request : pc[s] \in Using => key[s] \in DOMAIN files /\ (pc[t] \in Making => key[t] # key[s])
  BY <1>1 DEF FileInv, InUseIsKept, In, Making
<1>5. ASSUME /\ DOMAIN files' \subseteq Key /\ \A k \in DOMAIN files' : files'[k] \in Nat
             /\ exempt' \in [Request -> SUBSET Key]
             /\ active' \in [Key -> Nat]
             /\ \A k \in Key : IsFiniteSet(Holds(k)') /\ active'[k] = Cardinality(Holds(k)')
             /\ \A s \in Request : pc'[s] = "trimming" => exempt'[s] = {k \in Key : active'[k] # 0}
             /\ \A s \in Request : pc'[s] = "reserve" => key[s] \in DOMAIN files'
             /\ \A s, t \in Request : pc'[s] \in Using =>
                  key[s] \in DOMAIN files' /\ (pc'[t] \in Making => key[t] # key[s])
      PROVE  FileInv'
  BY <1>2, <1>5 DEF FileInv, InUseIsKept, In, Making
<1> DEFINE Reserves ==
             \/ active' = active /\ (pc'[r] \in Using <=> pc[r] \in Using)
             \/ active' = [active EXCEPT ![key[r]] = @ + 1] /\ pc'[r] \in Using /\ pc[r] \notin Using
             \/ active' = [active EXCEPT ![key[r]] = @ - 1] /\ pc'[r] \notin Using /\ pc[r] \in Using
<1>6. ASSUME \/ Reserves /\ pc[r] # "broken" /\ pc'[r] # "broken"
             \/ active' = active /\ pc'[r] \in Holding /\ pc[r] \in Holding
             \/ active' = active /\ pc' = pc
      PROVE  /\ active' \in [Key -> Nat]
             /\ \A k \in Key : IsFiniteSet(Holds(k)') /\ active'[k] = Cardinality(Holds(k)')
  <2>1. \/ active' = active /\ (pc'[r] \in Holding <=> pc[r] \in Holding)
        \/ active' = [active EXCEPT ![key[r]] = @ + 1] /\ pc'[r] \in Holding /\ pc[r] \notin Holding
        \/ active' = [active EXCEPT ![key[r]] = @ - 1] /\ pc'[r] \notin Holding /\ pc[r] \in Holding
    BY <1>6 DEF Holding
  <2> QED BY <1>1, <1>2, <1>3, <2>1, ActiveStep
<1>7. CASE Apart(r)
  <2>1. /\ files' = files /\ active' = active /\ exempt' = exempt
        /\ pc'[r] # "trimming" /\ pc'[r] # "reserve" /\ (pc'[r] \in Using <=> pc[r] \in Using)
        /\ pc[r] # "broken" /\ pc'[r] # "broken"
        /\ pc'[r] \in Making => pc[r] \in Making
    BY <1>7 DEF Apart, fileVars, Held
  <2> QED BY <1>3, <1>4, <1>5, <1>6, <2>1
<1>8. CASE WaitsForGuard(r)
  <2>1. files' = files /\ active' = active /\ exempt' = exempt /\ pc' = pc
    BY <1>8 DEF WaitsForGuard, fileVars
  <2> QED BY <1>4, <1>5, <1>6, <2>1
<1>9. CASE Guards(r)
  <2>1. \A s \in Request : s # r => pc[s] \notin Held /\ pc'[s] \notin Held /\ pc'[s] \notin {"trimming", "reserve"}
    <3>1. MayEnter(r)
      BY <1>1, <1>9, GuardPlaces
    <3> QED BY <1>1, <1>3, <3>1 DEF MayEnter, GuardInv, Held
  <2>2. CASE LookupHits(r)
    <3>1. /\ MayLookUp(r) /\ pc[r] = "lookup" /\ pc'[r] = "touch" /\ key[r] \in DOMAIN files
          /\ active' = [active EXCEPT ![key[r]] = @ + 1] /\ files' = files /\ exempt' = exempt
      BY <1>1, <1>9, <2>2, GuardPlaces DEF LookupHits, Hit
    <3>2. \A t \in Request : pc[t] \in Making => key[t] # key[r]
      <4>1. \A t \in Request : pc[t] \in Making => pc[t] \in Locked /\ t # r
        BY <3>1 DEF Making, Locked
      <4> QED BY <1>1, <3>1, <4>1, LockedAlone
    <3>3. pc'[r] \in Using /\ pc[r] \notin Using /\ pc'[r] \notin Making /\ pc'[r] # "trimming" /\ pc'[r] # "reserve"
          /\ pc[r] # "broken" /\ pc'[r] # "broken"
      BY <3>1 DEF Using, Making
    <3> QED BY <1>3, <1>4, <1>5, <1>6, <2>1, <3>1, <3>2, <3>3
  <2>3. CASE LookupMisses(r)
    <3>1. /\ pc[r] = "lookup" /\ pc'[r] = "compile" /\ key[r] \notin DOMAIN files
          /\ active' = active /\ files' = files /\ exempt' = exempt
      BY <1>1, <1>9, <2>3, GuardPlaces DEF LookupMisses, Miss, fileVars
    <3>2. pc'[r] \notin Using /\ pc[r] \notin Using /\ pc'[r] # "trimming" /\ pc'[r] # "reserve"
          /\ pc[r] # "broken" /\ pc'[r] # "broken"
      BY <3>1 DEF Using
    <3> QED BY <1>3, <1>4, <1>5, <1>6, <2>1, <3>1, <3>2
  <2>4. ASSUME files' = Modified(key[r], now)
        PROVE  /\ DOMAIN files' = DOMAIN files \cup {key[r]} /\ DOMAIN files' \subseteq Key
               /\ \A k \in DOMAIN files' : files'[k] \in Nat
    BY <1>1, <1>4, <2>4 DEF Modified
  <2>5. CASE Touched(r)
    <3>1. /\ pc[r] = "touch" /\ pc'[r] = "backtest" /\ files' = Modified(key[r], now)
          /\ active' = active /\ exempt' = exempt
      BY <1>1, <1>9, <2>5, GuardPlaces DEF Touched, Touch
    <3>2. pc'[r] \in Using /\ pc[r] \in Using /\ pc'[r] \notin Making /\ pc'[r] # "trimming" /\ pc'[r] # "reserve"
          /\ pc[r] # "broken" /\ pc'[r] # "broken"
      BY <3>1 DEF Using, Making
    <3> QED BY <1>3, <1>4, <1>5, <1>6, <2>1, <2>4, <3>1, <3>2
  <2>6. CASE Replaced(r)
    <3>1. /\ pc[r] = "replace" /\ pc'[r] = "reserve" /\ files' = Modified(key[r], now)
          /\ active' = active /\ exempt' = exempt
      BY <1>1, <1>9, <2>6, GuardPlaces DEF Replaced, Replace
    <3>2. pc'[r] \notin Using /\ pc[r] \notin Using /\ pc[r] \in Making /\ pc'[r] # "trimming"
          /\ pc[r] # "broken" /\ pc'[r] # "broken"
      BY <3>1 DEF Using, Making
    <3> QED BY <1>3, <1>4, <1>5, <1>6, <2>1, <2>4, <3>1, <3>2
  <2>7. CASE Reserved(r)
    <3>1. /\ pc[r] = "reserve" /\ pc'[r] = "backtest" /\ files' = files /\ exempt' = exempt
          /\ active' = [active EXCEPT ![key[r]] = @ + 1]
      BY <1>1, <1>9, <2>7, GuardPlaces DEF Reserved, Reserve
    <3>2. \A t \in Request : t # r /\ pc[t] \in Making => key[t] # key[r]
      <4>1. pc[r] \in Locked /\ \A t \in Request : pc[t] \in Making => pc[t] \in Locked
        BY <3>1 DEF Making, Locked
      <4> QED BY <1>1, <4>1, LockedAlone
    <3>3. pc'[r] \in Using /\ pc[r] \notin Using /\ pc'[r] \notin Making /\ pc'[r] # "trimming" /\ pc'[r] # "reserve"
          /\ pc[r] # "broken" /\ pc'[r] # "broken"
      BY <3>1 DEF Using, Making
    <3> QED BY <1>3, <1>4, <1>5, <1>6, <2>1, <3>1, <3>2, <3>3
  <2>8. CASE Abandoned(r) \/ Released(r)
    <3>1. /\ pc[r] \in {"abandon", "release"} /\ pc'[r] \in {"done", "trim"}
          /\ files' = files /\ exempt' = exempt /\ active' = [active EXCEPT ![key[r]] = @ - 1]
      BY <1>1, <1>9, <2>8, GuardPlaces DEF Abandoned, Released, Release
    <3>2. pc'[r] \notin Using /\ pc[r] \in Using /\ pc'[r] \notin Making /\ pc'[r] # "trimming" /\ pc'[r] # "reserve"
          /\ pc[r] # "broken" /\ pc'[r] # "broken"
      BY <3>1 DEF Using, Making
    <3> QED BY <1>3, <1>4, <1>5, <1>6, <2>1, <3>1, <3>2
  <2>9. CASE TrimBegins(r)
    <3>1. /\ pc[r] = "trim" /\ pc'[r] = "trimming" /\ files' = files /\ active' = active
          /\ exempt' = [exempt EXCEPT ![r] = {k \in Key : active[k] # 0}]
      BY <1>1, <1>9, <2>9, GuardPlaces DEF TrimBegins, BeginTrim
    <3>2. pc'[r] \notin Using /\ pc[r] \notin Using /\ pc'[r] \notin Making /\ pc'[r] # "reserve"
          /\ pc[r] # "broken" /\ pc'[r] # "broken"
      BY <3>1 DEF Using, Making
    <3>3. exempt' \in [Request -> SUBSET Key] /\ exempt'[r] = {k \in Key : active[k] # 0}
      BY <1>4, <3>1
    <3> QED BY <1>3, <1>4, <1>5, <1>6, <2>1, <3>1, <3>2, <3>3
  <2>10. CASE TrimEnds(r)
    <3>1. /\ pc[r] = "trimming" /\ pc'[r] = "done" /\ EndTrim(r) /\ active' = active
          /\ exempt' = [exempt EXCEPT ![r] = {}]
      BY <1>1, <1>9, <2>10, GuardPlaces DEF TrimEnds, EndTrim
    <3>2. PICK sorted \in SortedFiles, n \in 0..Cardinality(DOMAIN files) :
            files' = [k \in Left(sorted, n, exempt[r]) |-> files[k]]
      BY <3>1 DEF EndTrim
    <3>3. DOMAIN files' \subseteq DOMAIN files /\ \A k \in DOMAIN files' : files'[k] = files[k]
      BY <3>2 DEF Left
    <3>4. \A k \in DOMAIN files \cap exempt[r] : k \in DOMAIN files'
      BY <3>2 DEF Left
    <3>5. pc'[r] \notin Using /\ pc[r] \notin Using /\ pc'[r] \notin Making /\ pc'[r] # "trimming" /\ pc'[r] # "reserve"
          /\ pc[r] # "broken" /\ pc'[r] # "broken"
      BY <3>1 DEF Using, Making
    <3>6. \A s \in Request : pc[s] \in Using => key[s] \in DOMAIN files'
      BY <1>1, <1>4, <3>1, <3>4, UsedIsReserved
    <3>7. exempt' \in [Request -> SUBSET Key]
      BY <1>4, <3>1
    <3> QED BY <1>3, <1>4, <1>5, <1>6, <2>1, <3>1, <3>3, <3>5, <3>6, <3>7
  <2>11. CASE TouchFailed(r)
    <3>1. /\ pc[r] = "touch" /\ pc'[r] = "broken" /\ files' = files
          /\ active' = active /\ exempt' = exempt
      BY <1>1, <1>9, <2>11, GuardPlaces DEF TouchFailed, TouchFails, fileVars
    <3>2. pc'[r] \in Holding /\ pc[r] \in Holding /\ pc'[r] \notin Using /\ pc'[r] \notin Making
          /\ pc'[r] # "trimming" /\ pc'[r] # "reserve"
      BY <3>1 DEF Holding, Using, Making
    <3> QED BY <1>3, <1>4, <1>5, <1>6, <2>1, <3>1, <3>2
  <2>12. CASE ReplaceFailed(r)
    <3>1. /\ pc[r] = "replace" /\ pc'[r] = "done" /\ files' \in {files, Modified(key[r], now)}
          /\ active' = active /\ exempt' = exempt
      BY <1>1, <1>9, <2>12, GuardPlaces DEF ReplaceFailed, ReplaceFails
    <3>2. pc'[r] \notin Using /\ pc[r] \notin Using
          /\ pc[r] # "broken" /\ pc'[r] # "broken"
          /\ pc'[r] \notin Making /\ pc'[r] # "trimming" /\ pc'[r] # "reserve"
      BY <3>1 DEF Using, Making
    <3>3. DOMAIN files' \subseteq Key /\ DOMAIN files \subseteq DOMAIN files'
          /\ \A k \in DOMAIN files' : files'[k] \in Nat
      BY <1>4, <2>4, <3>1
    <3> QED BY <1>3, <1>4, <1>5, <1>6, <2>1, <3>1, <3>2, <3>3
  <2> QED BY <1>9, <2>2, <2>3, <2>5, <2>6, <2>7, <2>8, <2>9, <2>10, <2>11, <2>12 DEF Guards
<1> QED BY <1>2, <1>7, <1>8, <1>9

LEMMA CacheInvInit == Init => CacheInv
<1> SUFFICES ASSUME Init PROVE CacheInv
  OBVIOUS
<1>1. /\ pc = [r \in Request |-> "new"] /\ guard = <<>>
      /\ active = [k \in Key |-> 0] /\ exempt = [r \in Request |-> {}]
      /\ \E kept \in SUBSET Key : files = [k \in kept |-> 0]
  BY DEF Init, CacheInit
<1>2. ServiceInv /\ SlotInv
  BY ServiceInvInit, SlotInvInit
<1>3. GuardInv
  <2>1. guard \in Seq(Request) /\ DOMAIN guard = {}
    BY <1>1
  <2> QED BY <1>1, <2>1 DEF GuardInv, Held
<1>4. DOMAIN files \subseteq Key /\ \A k \in DOMAIN files : files[k] \in Nat
  BY <1>1
<1>5. \A k \in Key : IsFiniteSet(Holds(k)) /\ active[k] = Cardinality(Holds(k))
  <2>1. \A k \in Key : Holds(k) = {}
    BY <1>1 DEF Holds, Holding, In, Using
  <2> QED BY <1>1, <2>1, FS_EmptySet
<1>6. InUseIsKept
  BY <1>1 DEF InUseIsKept, In, Using
<1>7. FileInv
  BY <1>1, <1>4, <1>5, <1>6 DEF FileInv
<1> QED BY <1>2, <1>3, <1>7 DEF CacheInv

LEMMA CacheInvStep == CacheInv /\ [Next]_vars => CacheInv'
<1> SUFFICES ASSUME CacheInv, [Next]_vars PROVE CacheInv'
  OBVIOUS
<1>1. ServiceInv'
  BY ServiceInvStep DEF CacheInv
<1>2. ASSUME NEW r \in Request, Arrive(r) \/ Step(r)
      PROVE  SlotInv' /\ GuardInv' /\ FileInv'
  BY <1>2, SlotStep, GuardStep, FileStep DEF CacheInv, ServiceInv
<1>3. CASE Tick \/ UNCHANGED vars
  <2>1. /\ pc' = pc /\ key' = key /\ guard' = guard /\ files' = files /\ active' = active
        /\ exempt' = exempt /\ slots' = slots /\ waiting' = waiting
        /\ running' = running /\ admitted' = admitted
    BY <1>3 DEF Tick, vars, cacheVars, fileVars, requestVars, serviceVars
  <2>2. SlotInv' /\ GuardInv'
    BY <2>1 DEF CacheInv, SlotInv, SlotsAreAccounted, In, GuardInv
  <2>3. FileInv'
    <3>1. InUseIsKept' /\ \A k \in Key : Holds(k)' = Holds(k)
      BY <2>1 DEF CacheInv, FileInv, InUseIsKept, Holds, In
    <3> QED BY <2>1, <3>1 DEF CacheInv, FileInv
  <2> QED BY <1>1, <2>2, <2>3 DEF CacheInv
<1> QED BY <1>1, <1>2, <1>3 DEF Next, CacheInv

\* The slots, the locks, the guard and the files are right at every instant.
LEMMA CacheInvariance == Spec => []CacheInv
BY CacheInvInit, CacheInvStep, PTL DEF Spec
-----------------------------------------------------------------------------
\* Whatever the number of requests and the ways they end: a slot is given back
\* once, and what run() counts is what there is.
THEOREM SlotAccounting == Spec => []SlotsAreAccounted
<1>1. CacheInv => SlotsAreAccounted
  BY DEF CacheInv, SlotInv
<1> QED BY <1>1, CacheInvariance, PTL

\* No trim takes an artifact from a request that runs from it, and nobody publishes
\* over it, although acquire(), trim() and commit_and_acquire() let others run
\* while their threads work.
THEOREM UsedIsKept == Spec => []InUseIsKept
<1>1. CacheInv => InUseIsKept
  BY DEF CacheInv, FileInv
<1> QED BY <1>1, CacheInvariance, PTL

\* A reservation is that of a running request or what acquire() leaves when its touch
\* raises, and a lock object in the table is that of a request in its section: no
\* other way an execution ends leaves either behind.
THEOREM NoLeftovers == Spec => []NothingIsLeftBehind
<1>1. CacheInv => NothingIsLeftBehind
  <2> SUFFICES ASSUME CacheInv PROVE NothingIsLeftBehind
    OBVIOUS
  <2>1. Types /\ Queues /\ Table /\ \A k \in Key : active[k] = Cardinality(Uses(k) \cup Leaks(k))
    <3>1. \A k \in Key : Uses(k) \cup Leaks(k) = Holds(k)
      BY DEF Uses, Leaks, Holds, Holding, In
    <3> QED BY <3>1 DEF CacheInv, ServiceInv, FileInv
  <2>2. {"lookup"} \cup Locked = Section
    BY DEF Section
  <2>3. \A r \in In(Section) : key[r] \in DOMAIN locks /\ locks[key[r]] = lock[r]
    BY <2>1 DEF In, Table
  <2>4. ASSUME NEW k \in DOMAIN locks
        PROVE  \E r \in In(Section) : key[r] = k
    <3> DEFINE l == locks[k]
    <3>1. l \in Request /\ queue[l] # <<>> /\ key[Head(queue[l])] = k
      BY <2>1 DEF Types, Table
    <3>2. Head(queue[l]) \in Request /\ pc[Head(queue[l])] \in Section
      BY <2>1, <3>1, QueueFacts DEF Queues
    <3> QED BY <3>1, <3>2 DEF In
  <2> QED BY <2>1, <2>2, <2>3, <2>4 DEF NothingIsLeftBehind
<1> QED BY <1>1, CacheInvariance, PTL
-----------------------------------------------------------------------------
(* What a trim takes.                                                      *)

\* The artifacts in order of their age, each once.
LEMMA SortedFacts ==
  ASSUME FileInv, NEW sorted \in SortedFiles
  PROVE  /\ Cardinality(DOMAIN files) \in Nat
         /\ \A i \in 1..Cardinality(DOMAIN files) : sorted[i] \in DOMAIN files
         /\ \A k \in DOMAIN files : \E i \in 1..Cardinality(DOMAIN files) : sorted[i] = k
         /\ \A i, j \in 1..Cardinality(DOMAIN files) :
              (sorted[i] = sorted[j] => i = j) /\ (i < j => files[sorted[i]] <= files[sorted[j]])
<1> DEFINE F == DOMAIN files
           N == Cardinality(F)
<1>1. IsFiniteSet(F) /\ N \in Nat
  <2>1. F \in SUBSET Key /\ IsFiniteSet(Key)
    BY CacheAssumption DEF FileInv
  <2>2. IsFiniteSet(F)
    BY <2>1, FS_Subset
  <2> QED BY <2>2, FS_CardinalityType
<1>2. /\ sorted \in [1..N -> F] /\ \A i, j \in 1..N : i # j => sorted[i] # sorted[j]
      /\ \A i, j \in DOMAIN sorted : i < j => \/ files[sorted[i]] < files[sorted[j]]
                                              \/ files[sorted[i]] = files[sorted[j]]
  BY Zenon DEF SortedFiles, SetToSeqs
<1>3. \A k \in F : files[k] \in Nat
  BY DEF FileInv
<1> HIDE DEF N, F
<1>4. \A i, j \in 1..N : i < j => files[sorted[i]] <= files[sorted[j]]
  BY <1>2, <1>3
<1>5. IsFiniteSet(1..N) /\ Cardinality(1..N) = N
  BY <1>1, FS_Interval
<1>6. sorted \in Injection(1..N, F)
  BY <1>2 DEF Injection, IsInjective
<1>7. sorted \in Surjection(1..N, F)
  BY <1>1, <1>5, <1>6, FS_Injection DEF N
<1>8. \A k \in F : \E i \in 1..N : sorted[i] = k
  BY <1>7 DEF Surjection
<1> QED BY <1>1, <1>2, <1>4, <1>8 DEF N, F

\* What the loop of _trim_sync takes, in the order of age, until it is within the limits.
LEMMA TrimStep ==
  ASSUME FileInv, NEW r \in Request, EndTrim(r)
  PROVE  LET gone == DOMAIN files \ DOMAIN files'
             left == DOMAIN files' \ exempt[r]
         IN  /\ gone \cap exempt[r] = {}
             /\ \A g \in gone, k \in left : files[g] <= files[k]
             /\ WithinLimits(DOMAIN files') \/ left = {}
             /\ gone # {} => \E g \in gone : ~WithinLimits(DOMAIN files' \cup {g})
<1> DEFINE F == DOMAIN files
           N == Cardinality(F)
           spared == exempt[r]
<1>1. PICK sorted \in SortedFiles, n \in 0..N :
        StopsAfter(sorted, n, spared) /\ files' = [k \in Left(sorted, n, spared) |-> files[k]]
  BY DEF EndTrim
<1>2. /\ N \in Nat /\ n \in Nat /\ n <= N
      /\ \A i \in 1..N : sorted[i] \in F
      /\ \A k \in F : \E i \in 1..N : sorted[i] = k
      /\ \A i, j \in 1..N : (sorted[i] = sorted[j] => i = j) /\ (i < j => files[sorted[i]] <= files[sorted[j]])
  BY <1>1, SortedFacts
<1>3. DOMAIN files' = Left(sorted, n, spared)
  BY <1>1
<1>4. /\ n = N \/ WithinLimits(Left(sorted, n, spared))
      /\ \A m \in 0..(n - 1) : ~WithinLimits(Left(sorted, m, spared))
  BY <1>1 DEF StopsAfter
<1> HIDE DEF F, N, spared
<1>5. \A m \in 0..N, k \in F : k \in Left(sorted, m, spared) <=> k \in spared \/ \A i \in 1..m : sorted[i] # k
  BY DEF Left, F
<1>6. \A m \in 0..N : Left(sorted, m, spared) \subseteq F
  BY DEF Left, F
<1>7. \A g \in F : g \notin DOMAIN files' => g \notin spared /\ \E i \in 1..n : sorted[i] = g
  BY <1>2, <1>3, <1>5
<1>8. \A k \in DOMAIN files' : k \in F /\ (k \notin spared => \E j \in 1..N : j > n /\ sorted[j] = k)
  BY <1>2, <1>3, <1>5, <1>6
<1>9. ASSUME NEW g \in F, g \notin DOMAIN files', NEW k \in DOMAIN files', k \notin spared
      PROVE  files[g] <= files[k]
  <2>1. PICK i \in 1..n : sorted[i] = g
    BY <1>7, <1>9
  <2>2. PICK j \in 1..N : j > n /\ sorted[j] = k
    BY <1>8, <1>9
  <2>3. i \in 1..N /\ i < j
    BY <1>2, <2>2
  <2> QED BY <1>2, <2>1, <2>2, <2>3
<1>10. WithinLimits(DOMAIN files') \/ DOMAIN files' \subseteq spared
  <2> SUFFICES ASSUME n = N PROVE DOMAIN files' \subseteq spared
    BY <1>3, <1>4
  <2> QED BY <1>2, <1>8
<1>11. ASSUME NEW g \in F, g \notin DOMAIN files'
       PROVE  \E h \in F \ DOMAIN files' : ~WithinLimits(DOMAIN files' \cup {h})
  <2> DEFINE I == {i \in 1..n : sorted[i] \notin spared}
             m == Max(I)
  <2>1. I \in SUBSET Nat /\ I # {} /\ \A i \in I : i <= n
    BY <1>2, <1>7, <1>11
  <2>2. m \in I /\ \A i \in I : m >= i
    BY <1>2, <2>1, MaxOfNats
  <2> HIDE DEF m
  <2>3. m \in 1..n /\ m \in 1..N /\ sorted[m] \notin spared /\ sorted[m] \in F
    BY <1>2, <2>2
  <2>4. m - 1 \in 0..(n - 1) /\ m - 1 \in 0..N /\ n \in 0..N
    BY <1>2, <2>3
  <2>5. sorted[m] \notin DOMAIN files'
    BY <1>3, <1>5, <2>3, <2>4
  <2>6. Left(sorted, m - 1, spared) = DOMAIN files' \cup {sorted[m]}
    <3>1. ASSUME NEW k \in F
          PROVE  k \in Left(sorted, m - 1, spared) <=> k \in DOMAIN files' \/ k = sorted[m]
      <4>1. CASE k \in spared
        BY <1>3, <1>5, <2>4, <4>1
      <4>2. CASE k \notin spared
        <5>1. PICK j \in 1..N : sorted[j] = k
          BY <1>2
        <5>2. k \in Left(sorted, m - 1, spared) <=> j > m - 1
          BY <1>2, <1>5, <2>3, <2>4, <4>2, <5>1
        <5>3. k \in DOMAIN files' <=> j > n
          BY <1>2, <1>3, <1>5, <2>4, <4>2, <5>1
        <5>4. k = sorted[m] <=> j = m
          BY <1>2, <2>3, <5>1
        <5>5. j <= n => j <= m
          BY <1>2, <2>2, <4>2, <5>1
        <5> QED BY <1>2, <2>3, <5>2, <5>3, <5>4, <5>5
      <4> QED BY <4>1, <4>2
    <3> QED BY <1>3, <1>6, <2>3, <2>4, <3>1
  <2> QED BY <1>4, <2>3, <2>4, <2>5, <2>6
<1> QED BY <1>7, <1>9, <1>10, <1>11 DEF F, spared

\* Whatever the sizes and the limits: what a trim evicts was not reserved when it
\* began, is the least recently used, and no more than needed; what it leaves over
\* the limits is reserved.
THEOREM TrimsTheOldest == Spec => TrimIsLRU
<1>1. ASSUME CacheInv, [Next]_vars, NEW r \in Request, pc[r] = "trimming", pc'[r] = "done"
      PROVE  EndTrim(r)
  <2>1. ~(Tick \/ UNCHANGED vars)
    BY <1>1 DEF Tick, vars
  <2>2. PICK s \in Request : Arrive(s) \/ Step(s)
    BY <1>1, <2>1 DEF Next
  <2>3. Types /\ Waiters
    BY <1>1 DEF CacheInv, ServiceInv
  <2>4. s = r
    BY <1>1, <2>2, <2>3, GuardKinds
  <2>5. ~Apart(r) /\ ~WaitsForGuard(r)
    BY <1>1 DEF Apart, Guarded, WaitsForGuard
  <2>6. Guards(r)
    BY <2>2, <2>3, <2>4, <2>5, GuardKinds
  <2>7. TrimEnds(r)
    BY <1>1, <2>3, <2>6, GuardPlaces DEF Guards
  <2> QED BY <2>7 DEF TrimEnds
<1>2. CacheInv /\ [Next]_vars =>
        \A r \in Request :
          pc[r] = "trimming" /\ pc'[r] = "done" =>
            LET gone == DOMAIN files \ DOMAIN files'
                left == DOMAIN files' \ exempt[r]
            IN  /\ gone \cap exempt[r] = {}
                /\ \A g \in gone, k \in left : files[g] <= files[k]
                /\ WithinLimits(DOMAIN files') \/ left = {}
                /\ gone # {} => \E g \in gone : ~WithinLimits(DOMAIN files' \cup {g})
  BY <1>1, TrimStep DEF CacheInv
<1> QED BY <1>2, CacheInvariance, PTL DEF Spec, TrimIsLRU
=============================================================================
