---------------------------- MODULE BacktestService ----------------------------
(***************************************************************************)
(* The requests of the backtest server (server.py): admission, the wait    *)
(* for a slot, and the three processes of an execution around the compile  *)
(* cache.                                                                  *)
(*                                                                         *)
(* A step is what a task does between two waits.  _state_lock and          *)
(* _lock_guard are never held over an await, so they are always free.      *)
(* Processes take time; what the server does itself, on files too, takes   *)
(* none that the clock shows.  A process that ends at its deadline has     *)
(* ended just before.                                                      *)
(***************************************************************************)
EXTENDS CompileCache

CONSTANTS
  MaxConcurrency,    \* max_concurrency
  MaxQueue,          \* max_queue
  QueueTimeout,      \* queue_timeout_seconds
  ExecutionTimeout,  \* execution_timeout_seconds
  MaxArrival         \* bound: the last time a request arrives

ASSUME ServiceAssumption ==
  /\ MaxConcurrency \in Nat \ {0} /\ MaxQueue \in Nat
  /\ QueueTimeout \in Nat \ {0} /\ ExecutionTimeout \in Nat \ {0}
  /\ MaxArrival \in Nat

VARIABLES
  now,       \* the clock of the event loop
  pc,        \* where each request is
  key,       \* the cache key of what it transpiles to
  lock,      \* the lock object it has or waits for
  by,        \* its queue timeout, then its deadline
  admitted,  \* _admitted
  running,   \* _running
  slots,     \* the free slots of _semaphore
  waiting    \* the waiters of _semaphore, in order

serviceVars == <<admitted, running, slots, waiting>>
requestVars == <<key, lock, by>>
vars == <<cacheVars, now, pc, requestVars, serviceVars>>

Goes(r, to) == pc' = [pc EXCEPT ![r] = to]

\* The clock does not pass a deadline.
InTime(r) == now < by[r]
-----------------------------------------------------------------------------
(* run(): admission and the slot.                                          *)

Overloaded == admitted >= MaxConcurrency + MaxQueue

\* _admit, and the start of the wait for a slot.
Arrive(r) ==
  /\ pc[r] = "new" /\ now <= MaxArrival
  /\ \/ /\ Overloaded
        /\ Goes(r, "done")
        /\ UNCHANGED <<by, serviceVars>>
     \/ /\ ~Overloaded
        /\ admitted' = admitted + 1
        /\ by' = [by EXCEPT ![r] = now + QueueTimeout]
        /\ IF slots > 0 /\ waiting = <<>>
           THEN Goes(r, "slot") /\ slots' = slots - 1 /\ UNCHANGED waiting
           ELSE Goes(r, "queued") /\ waiting' = Append(waiting, r) /\ UNCHANGED slots
        /\ UNCHANGED running
  /\ UNCHANGED <<cacheVars, now, key, lock>>

\* A slot given back goes to the first waiter; r is done, or broken if it has left
\* a reservation behind.
GiveBack(r, end) ==
  IF waiting = <<>>
  THEN /\ slots' = slots + 1
       /\ Goes(r, end)
       /\ UNCHANGED waiting
  ELSE /\ waiting' = Tail(waiting)
       /\ pc' = [pc EXCEPT ![r] = end, ![Head(waiting)] = "slot"]
       /\ UNCHANGED slots

\* Wrong: a slot is given back that was never acquired.
GiveBackAny(r) ==
  /\ pc[r] = "queued" /\ ~InTime(r)
  /\ slots' = slots + 1 /\ Goes(r, "done")
  /\ \E i \in DOMAIN waiting : waiting[i] = r /\ waiting' = RemoveAt(waiting, i)
  /\ admitted' = admitted - 1
  /\ UNCHANGED <<cacheVars, now, requestVars, running>>

\* The timeout may also find a slot that the task has not taken yet.
QueueTimesOut(r) ==
  /\ pc[r] \in {"queued", "slot"} /\ ~InTime(r)
  /\ \/ /\ pc[r] = "queued"
        /\ Goes(r, "done")
        /\ \E i \in DOMAIN waiting : waiting[i] = r /\ waiting' = RemoveAt(waiting, i)
        /\ UNCHANGED slots
     \/ pc[r] = "slot" /\ GiveBack(r, "done")
  /\ admitted' = admitted - 1
  /\ UNCHANGED <<cacheVars, now, requestVars, running>>

Start(r) ==
  /\ pc[r] = "slot"
  /\ running' = running + 1
  /\ by' = [by EXCEPT ![r] = now + ExecutionTimeout]
  /\ Goes(r, "transpile")
  /\ UNCHANGED <<cacheVars, now, key, lock, admitted, slots, waiting>>

\* The end of run(), with a result or an error.
Ends(r, end) ==
  /\ GiveBack(r, end)
  /\ running' = running - 1 /\ admitted' = admitted - 1
  /\ UNCHANGED <<now, requestVars>>

Finish(r) == Ends(r, "done")
-----------------------------------------------------------------------------
(* _execute_release().                                                     *)

TranspileFails(r) ==
  /\ pc[r] = "transpile"
  /\ Finish(r)
  /\ UNCHANGED cacheVars

TranspileSucceeds(r) ==
  /\ pc[r] = "transpile" /\ InTime(r)
  /\ EnterLock(r, key[r])
  /\ lock' = [lock EXCEPT ![r] = LockFor(r, key[r])]
  /\ Goes(r, "lookup")
  /\ UNCHANGED <<guard, fileVars, now, key, by, serviceVars>>

MayLookUp(r) == pc[r] = "lookup" /\ HasLock(r, lock[r])

LookupHits(r) ==
  /\ MayLookUp(r)
  /\ Hit(r, key[r])
  /\ Goes(r, "touch")
  /\ UNCHANGED <<lockVars, now, requestVars, serviceVars>>

LookupMisses(r) ==
  /\ MayLookUp(r)
  /\ Miss(r, key[r])
  /\ Goes(r, "compile")
  /\ UNCHANGED <<lockVars, now, requestVars, serviceVars>>

Touched(r) ==
  /\ pc[r] = "touch"
  /\ Touch(r, key[r], now)
  /\ LeaveLock(r, key[r], lock[r])
  /\ Goes(r, "backtest")
  /\ UNCHANGED <<now, requestVars, serviceVars>>

\* The exception of acquire() leaves before the try that releases what it reserved.
TouchFailed(r) ==
  /\ pc[r] = "touch"
  /\ TouchFails(r)
  /\ LeaveLock(r, key[r], lock[r])
  /\ Ends(r, "broken")

\* Wrong: the lock is not given back when the compiler fails.
CompileFailsLocked(r) ==
  /\ pc[r] = "compile"
  /\ Finish(r)
  /\ UNCHANGED cacheVars

CompileFails(r) ==
  /\ pc[r] = "compile"
  /\ LeaveLock(r, key[r], lock[r])
  /\ Finish(r)
  /\ UNCHANGED <<guard, fileVars>>

CompileSucceeds(r) ==
  /\ pc[r] = "compile" /\ InTime(r)
  /\ Goes(r, "replace")
  /\ UNCHANGED <<cacheVars, now, requestVars, serviceVars>>

Replaced(r) ==
  /\ pc[r] = "replace"
  /\ Replace(r, key[r], now)
  /\ Goes(r, "reserve")
  /\ UNCHANGED <<lockVars, now, requestVars, serviceVars>>

ReplaceFailed(r) ==
  /\ pc[r] = "replace"
  /\ ReplaceFails(r, key[r], now)
  /\ LeaveLock(r, key[r], lock[r])
  /\ Finish(r)

Reserved(r) ==
  /\ pc[r] = "reserve"
  /\ Reserve(r, key[r])
  /\ LeaveLock(r, key[r], lock[r])
  /\ Goes(r, "backtest")
  /\ UNCHANGED <<now, requestVars, serviceVars>>

BacktestFails(r) ==
  /\ pc[r] = "backtest"
  /\ Goes(r, "abandon")
  /\ UNCHANGED <<cacheVars, now, requestVars, serviceVars>>

BacktestSucceeds(r) ==
  /\ pc[r] = "backtest" /\ InTime(r)
  /\ Goes(r, "release")
  /\ UNCHANGED <<cacheVars, now, requestVars, serviceVars>>

\* Wrong: a failed backtest keeps its reservation.
AbandonedReserved(r) ==
  /\ pc[r] = "abandon"
  /\ Finish(r)
  /\ UNCHANGED cacheVars

\* A failed execution ends here.
Abandoned(r) ==
  /\ pc[r] = "abandon"
  /\ Release(r, key[r])
  /\ Finish(r)
  /\ UNCHANGED lockVars

Released(r) ==
  /\ pc[r] = "release"
  /\ Release(r, key[r])
  /\ Goes(r, "trim")
  /\ UNCHANGED <<lockVars, now, requestVars, serviceVars>>

TrimBegins(r) ==
  /\ pc[r] = "trim"
  /\ BeginTrim(r)
  /\ Goes(r, "trimming")
  /\ UNCHANGED <<lockVars, now, requestVars, serviceVars>>

\* The report is parsed after the trim, and accepted or not.
TrimEnds(r) ==
  /\ pc[r] = "trimming"
  /\ EndTrim(r)
  /\ Finish(r)
  /\ UNCHANGED lockVars

\* The guard of the files is taken: r queues for it.
WaitsForGuard(r) ==
  /\ pc[r] \in {"touch", "replace", "reserve", "abandon", "release", "trim", "trimming"} \/ MayLookUp(r)
  /\ JoinGuard(r)
  /\ UNCHANGED <<lockVars, fileVars, now, pc, requestVars, serviceVars>>
-----------------------------------------------------------------------------
Step(r) ==
  \/ QueueTimesOut(r) \/ Start(r)
  \/ TranspileFails(r) \/ TranspileSucceeds(r)
  \/ LookupHits(r) \/ LookupMisses(r) \/ Touched(r) \/ TouchFailed(r)
  \/ CompileFails(r) \/ CompileSucceeds(r) \/ Replaced(r) \/ ReplaceFailed(r) \/ Reserved(r)
  \/ BacktestFails(r) \/ BacktestSucceeds(r) \/ Abandoned(r) \/ Released(r)
  \/ TrimBegins(r) \/ TrimEnds(r) \/ WaitsForGuard(r)

\* What a request may wait for while the clock goes on.
Quiet(r) ==
  \/ pc[r] \in {"new", "done", "broken"}
  \/ pc[r] \in {"queued", "transpile", "compile", "backtest"} /\ InTime(r)
  \/ pc[r] = "lookup" /\ ~HasLock(r, lock[r])

Tick ==
  /\ \A r \in Request : Quiet(r)
  /\ now < MaxArrival + QueueTimeout + 2 * ExecutionTimeout
  /\ now' = now + 1
  /\ UNCHANGED <<cacheVars, pc, requestVars, serviceVars>>

Init ==
  /\ CacheInit
  /\ now = 0
  /\ pc = [r \in Request |-> "new"]
  /\ key \in [Request -> Key] /\ lock = [r \in Request |-> r] /\ by = [r \in Request |-> 0]
  /\ admitted = 0 /\ running = 0 /\ slots = MaxConcurrency /\ waiting = <<>>

Next == Tick \/ \E r \in Request : Arrive(r) \/ Step(r)

Spec == Init /\ [][Next]_vars

\* The event loop runs every task that can run, and processes end or are
\* killed at their deadline.
FairSpec == Spec /\ WF_vars(Tick) /\ \A r \in Request : WF_vars(Step(r))
=============================================================================
