----------------------------- MODULE CompileCache -----------------------------
(***************************************************************************)
(* The cache of compiled strategies (compile_cache.py): a lock object for  *)
(* every key that is being looked up or compiled, the guard of the files,  *)
(* the artifacts and their reservations.  The requests of BacktestService  *)
(* call its operations.                                                    *)
(*                                                                         *)
(* asyncio runs one task at a time and switches only where a task waits.   *)
(* A lock therefore is the queue of the tasks that want it, its head has   *)
(* it, and a section without an await is one step.  The statistics are     *)
(* left out.                                                               *)
(***************************************************************************)
EXTENDS Integers, SequencesExt

CONSTANTS
  Request,     \* the requests that will be made, each once
  Key,         \* cache keys
  Size,        \* size of the artifact of each key
  MaxEntries,  \* max_entries
  MaxBytes     \* max_bytes

ASSUME CacheAssumption ==
  /\ IsFiniteSet(Key)   \* they are digests
  /\ Size \in [Key -> Nat]
  /\ MaxEntries \in Nat \ {0} /\ MaxBytes \in Nat \ {0}

VARIABLES
  locks,       \* _locks: the lock object of a key, named by the request that made it
  queue,       \* for each lock object who has it and who waits
  references,  \* for each lock object _LockState.references
  guard,       \* _files_guard: who has it and who waits
  files,       \* the artifacts by key, with their mtime
  active,      \* _active: reservations of each key
  exempt       \* the keys a running trim must leave alone

lockVars == <<locks, queue, references>>
fileVars == <<files, active, exempt>>
cacheVars == <<lockVars, guard, fileVars>>
-----------------------------------------------------------------------------
(* compile_lock(): its beginning, and its end.                             *)

\* The lock object that r finds or makes.
LockFor(r, k) == IF k \in DOMAIN locks THEN locks[k] ELSE r

EnterLock(r, k) ==
  LET l == LockFor(r, k)
  IN  /\ locks' = [x \in DOMAIN locks \cup {k} |-> IF x = k THEN l ELSE locks[x]]
      /\ queue' = [queue EXCEPT ![l] = Append(@, r)]
      /\ references' = [references EXCEPT ![l] = @ + 1]

HasLock(r, l) == queue[l] # <<>> /\ Head(queue[l]) = r

\* Wrong: the lock object is forgotten as soon as it is released.
ForgetLock(r, k, l) ==
  /\ queue' = [queue EXCEPT ![l] = Tail(@)]
  /\ references' = [references EXCEPT ![l] = @ - 1]
  /\ locks' = [x \in DOMAIN locks \ {k} |-> locks[x]]

LeaveLock(r, k, l) ==
  /\ queue' = [queue EXCEPT ![l] = Tail(@)]
  /\ references' = [references EXCEPT ![l] = @ - 1]
  /\ locks' = IF references'[l] = 0 THEN [x \in DOMAIN locks \ {k} |-> locks[x]] ELSE locks
-----------------------------------------------------------------------------
(* _files_guard.                                                           *)

\* r has the guard, or takes it now.
MayEnter(r) == guard # <<>> => Head(guard) = r
Waits(r) == guard # <<>> /\ r \notin ToSet(guard)

JoinGuard(r) == Waits(r) /\ guard' = Append(guard, r)
KeepGuard(r) == guard' = IF guard = <<>> THEN <<r>> ELSE guard
LeaveGuard(r) == guard' = IF guard = <<>> THEN <<>> ELSE Tail(guard)
-----------------------------------------------------------------------------
(* acquire(), commit_and_acquire(), release(), trim().                     *)

\* acquire: a hit is reserved before the thread that touches it is awaited.
Hit(r, k) ==
  /\ MayEnter(r) /\ k \in DOMAIN files
  /\ active' = [active EXCEPT ![k] = @ + 1]
  /\ KeepGuard(r)
  /\ UNCHANGED <<files, exempt>>

Miss(r, k) ==
  /\ MayEnter(r) /\ k \notin DOMAIN files
  /\ LeaveGuard(r)
  /\ UNCHANGED fileVars

\* Modified(k, t): the artifact of k is there, with mtime t.
Modified(k, t) == [x \in DOMAIN files \cup {k} |-> IF x = k THEN t ELSE files[x]]

\* The thread of acquire, and what acquire does after it.
Touch(r, k, t) ==
  /\ MayEnter(r)
  /\ files' = Modified(k, t)
  /\ LeaveGuard(r)
  /\ UNCHANGED <<active, exempt>>

\* os.utime raises: acquire has reserved, and its caller never learns of it.  The
\* artifact is there still: this server alone removes artifacts.
TouchFails(r) ==
  /\ MayEnter(r)
  /\ LeaveGuard(r)
  /\ UNCHANGED fileVars

\* Wrong: the guard is given back between publishing and reserving.
ReplaceOnly(r, k, t) ==
  /\ MayEnter(r)
  /\ files' = Modified(k, t)
  /\ LeaveGuard(r)
  /\ UNCHANGED <<active, exempt>>

\* The threads of commit_and_acquire: os.replace and chmod.
Replace(r, k, t) ==
  /\ MayEnter(r)
  /\ files' = Modified(k, t)
  /\ KeepGuard(r)
  /\ UNCHANGED <<active, exempt>>

\* os.replace raises, or chmod when the artifact is there; nothing is reserved.
ReplaceFails(r, k, t) ==
  /\ MayEnter(r)
  /\ files' \in {files, Modified(k, t)}
  /\ LeaveGuard(r)
  /\ UNCHANGED <<active, exempt>>

Reserve(r, k) ==
  /\ MayEnter(r)
  /\ active' = [active EXCEPT ![k] = @ + 1]
  /\ LeaveGuard(r)
  /\ UNCHANGED <<files, exempt>>

Release(r, k) ==
  /\ MayEnter(r)
  /\ active' = [active EXCEPT ![k] = @ - 1]
  /\ LeaveGuard(r)
  /\ UNCHANGED <<files, exempt>>

\* trim: what is reserved now is left alone by the thread that follows.
BeginTrim(r) ==
  /\ MayEnter(r)
  /\ exempt' = [exempt EXCEPT ![r] = {k \in Key : active[k] # 0}]
  /\ KeepGuard(r)
  /\ UNCHANGED <<files, active>>

Bytes(kept) == MapThenSumSet(LAMBDA k : Size[k], kept)
WithinLimits(kept) == Cardinality(kept) <= MaxEntries /\ Bytes(kept) <= MaxBytes

\* entries.sort(): by mtime, then by size; the order of paths is not modelled.
SortedFiles ==
  {s \in SetToSeqs(DOMAIN files) :
     \A i, j \in DOMAIN s :
       i < j => \/ files[s[i]] < files[s[j]]
                \/ files[s[i]] = files[s[j]] /\ Size[s[i]] <= Size[s[j]]}

\* What the loop of _trim_sync has left after n rounds.
Left(sorted, n, spared) == DOMAIN files \ ({sorted[i] : i \in 1..n} \ spared)

\* Wrong: what is in use does not count against the limits.
StopsAfterIdle(sorted, n, spared) ==
  /\ n = Cardinality(DOMAIN files) \/ WithinLimits(Left(sorted, n, spared) \ spared)
  /\ \A m \in 0..(n - 1) : ~WithinLimits(Left(sorted, m, spared) \ spared)

\* It stops at the first round that finds it within the limits.
StopsAfter(sorted, n, spared) ==
  /\ n = Cardinality(DOMAIN files) \/ WithinLimits(Left(sorted, n, spared))
  /\ \A m \in 0..(n - 1) : ~WithinLimits(Left(sorted, m, spared))

EndTrim(r) ==
  /\ MayEnter(r)
  /\ \E sorted \in SortedFiles, n \in 0..Cardinality(DOMAIN files) :
       /\ StopsAfter(sorted, n, exempt[r])
       /\ files' = [k \in Left(sorted, n, exempt[r]) |-> files[k]]
  /\ exempt' = [exempt EXCEPT ![r] = {}]
  /\ LeaveGuard(r)
  /\ UNCHANGED active
-----------------------------------------------------------------------------
CacheInit ==
  /\ locks = <<>>
  /\ queue = [l \in Request |-> <<>>] /\ references = [l \in Request |-> 0]
  /\ guard = <<>>
  /\ \E kept \in {S \in SUBSET Key : WithinLimits(S)} :   \* of an earlier server
       files = [k \in kept |-> 0]
  /\ active = [k \in Key |-> 0] /\ exempt = [r \in Request |-> {}]
=============================================================================
