-------------------------- MODULE BacktestProperties --------------------------
(***************************************************************************)
(* What the backtest server and its compile cache promise.                 *)
(***************************************************************************)
EXTENDS BacktestService

\* Where a request has the lock of its key, where it counts on an artifact,
\* where it counts as running, and where it occupies a slot.
Locked == {"touch", "compile", "replace", "reserve"}
Using == {"touch", "backtest", "abandon", "release"}
Executing == {"transpile", "lookup", "trim", "trimming"} \cup Locked \cup Using
Slotted == {"slot"} \cup Executing
PCs == {"new", "queued", "done", "broken"} \cup Slotted

In(pcs) == {r \in Request : pc[r] \in pcs}
Uses(k) == {r \in In(Using) : key[r] = k}

\* What will never be released: the reservations of touches that raised.
Leaks(k) == {r \in In({"broken"}) : key[r] = k}

-----------------------------------------------------------------------------
\* Slots are given back once, whatever ends a request: every slot is free or
\* occupied, none is free while somebody waits, and the two counters that
\* admission and /readyz go by are right.
SlotsAreAccounted ==
  /\ slots + Cardinality(In(Slotted)) = MaxConcurrency
  /\ ToSet(waiting) = In({"queued"}) /\ (slots > 0 => waiting = <<>>)
  /\ running = Cardinality(In(Executing))
  /\ admitted = Cardinality(In(Slotted)) + Len(waiting)
  /\ admitted <= MaxConcurrency + MaxQueue

\* Concurrent misses of one key are deduplicated: two requests never look up
\* or compile the same key at once, so none overwrites what the other made.
OneCompilerPerKey ==
  \A r, s \in In(Locked) : key[r] = key[s] => r = s

\* An artifact that a request runs from is neither evicted nor replaced.
InUseIsKept ==
  \A r \in In(Using) :
    /\ key[r] \in DOMAIN files
    /\ \A s \in In({"compile", "replace", "reserve"}) : key[s] # key[r]

\* Through all ways a request can end, exceptions of the cache's own file operations
\* among them: every use is reserved once, and a reservation that is of no use is one
\* that acquire() made before its touch raised.  That one alone stays for ever; every
\* other end releases what it reserved, and lock objects do not outlive those who
\* need them.
NothingIsLeftBehind ==
  /\ \A k \in Key : active[k] = Cardinality(Uses(k) \cup Leaks(k))
  /\ DOMAIN locks = {key[r] : r \in In({"lookup"} \cup Locked)}
  /\ \A r \in In({"lookup"} \cup Locked) : locks[key[r]] = lock[r]

\* A trim removes the least recently used artifacts, only while the limits are
\* exceeded, and none that was in use when it began; what is left over the
\* limits is in use.
TrimIsLRU ==
  [][\A r \in Request :
       pc[r] = "trimming" /\ pc'[r] = "done" =>
         LET gone == DOMAIN files \ DOMAIN files'
             left == DOMAIN files' \ exempt[r]
         IN  /\ gone \cap exempt[r] = {}
             /\ \A g \in gone, k \in left : files[g] <= files[k]
             /\ WithinLimits(DOMAIN files') \/ left = {}
             /\ gone # {} => \E g \in gone : ~WithinLimits(DOMAIN files' \cup {g})]_vars

\* The wait for another request's compilation is not bounded by the deadline,
\* yet it is by that of the other: an execution ends within twice the timeout.
EndsWithinTwiceTheTimeout ==
  \A r \in In(Executing) : now <= by[r] + ExecutionTimeout

\* Every request that was made is answered.
EveryRequestEnds == \A r \in Request : pc[r] # "new" ~> pc[r] \in {"done", "broken"}
=============================================================================
