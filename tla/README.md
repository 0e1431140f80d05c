# A formal model of pineforge-data

TLA+ modules that model the parts of this repository that carry its own
protocols, TLC configurations that check them on small instances, and theorems
that TLAPS proves for every value of the constants.

Check one run with `tlc -config MCJournalTicks.cfg MCJournal.tla`, the proofs of
one module with `tlapm JournalProofs.tla`.

## 1. The system

`pineforge-data` feeds PineScript strategies with market data. These are its
parts; conversion and validation code around them keeps no state.

| component | sources (under `src/`) | state | operations |
|---|---|---|---|
| durable journal | `native/feed/src/state.cpp`, `atomic_file` and `write_all` of `core.cpp` | `cursor.json`, checkpoints and segments by base index; in memory the verified cursor, the committed cursor, the staged lines, the retained segments | initialize, recover, anchor, stage, flush, rotate (seal), retain (expire), scan, the lookups by minute, id and index |
| session loop | `session.cpp` (`Session`, `stream`, `run_feed`) | last batch time, the sink | emit, publish, salvage, replay |
| FeedSession | `session.cpp:99-314` | pending prints, healing page, closed minutes | connected, heal, drain, closed, put |
| FenceSession | `session.cpp:316-550` | pending prints, the fence and its candle proof | connected, advance, close, heal, page |
| venues | `venue.hpp`, `binance.cpp`, `okx.cpp`, `bybit.cpp` | none | REST pages, klines and socket frames as common values |
| transport | `transport.cpp` | reader thread, queue, reconnect budget, request quota | run, push, take, body |
| client server | `serve.cpp` | clients with their queues, status, listener | publish, commit, stop, snapshot, catch-up, expiry |
| warmup export | `export.cpp` | the chain of ids | archive days and REST tail joined into bars |
| compile cache | `src/pineforge_data/compile_cache.py` | locks by key, reservations, artifact files | lookup, commit, acquire, release, trim |
| backtest service | `src/pineforge_data/server.py` | semaphore, running and waiting counts | admit, run, execute, cancel, time out |
| CCXT provider | `providers/ccxt.py` | cursor of a request; `since` and a window of seen identities of a stream | fetch bars by page, poll trades |
| macro provider | `providers/fxmacrodata.py` | page, attempts and observations of a request | fetch observations by page, with retries |
| harness and Docker runtime | `cli/backtest.py`, `docker_runtime.py` | the open provider, the mounted directory, the cid file and the container | warmup and limit, run by container or server, timeout |
| release chain | `scripts/release_adapter.py`, `scripts/release_chain/*.py` | what GitHub, PyPI and the hub hold; the jobs themselves keep nothing | reconcile, open, supersede, update and merge pull requests, publish idempotently, report |
| the rest | `models.py`, `backtest.py`, `engine.py`, other providers, `main.cpp` | none over time | validation, one-shot reads, argument parsing |

How they interact. A venue adapter turns socket frames of the transport's queue
and REST pages into prints and klines. A session decides which messages follow
(`put`, `closed`, `advance`), proves each closed minute against the exchange's
own kline and hands every message to `State::stage`. `stream()` commits what was
staged while the queue was busy (`flush`), and the session publishes what the
commit returned: to standard output (one consumer, which restarts the process
with `--output-from <its index>`) or to the hub (many clients, which read the
journal's files until they are live). The Python service is separate: it admits
backtest requests, compiles a strategy through the cache under a per-key lock
and runs the container with a deadline. The harness takes bars from a provider
and has them run by that service or by a container of its own. The release chain
ties the package to releases of the engine: its two programs never call each
other, they meet in pull requests, tags, assets and uploads.

What is hard in it. The journal promises *persist before publish* across kills,
power losses and failing system calls, and deletes its oldest part while it
runs. The sessions order prints that the socket loses, repeats and reorders,
against REST answers that are behind. The pump, the hub and the journal readers
run on three threads over shared state. The service shares files, locks and
slots between requests that interleave at every `await`, fail anywhere and run
out of time. The providers read page by page from an exchange that goes on. The
release chain acts on what it read a moment ago, and any job can break off.

What makes each part correct:

- journal: nothing published is ever lost or changed; no crash makes a later
  start refuse its own files; expiry keeps what a reconnect has to read again;
  a consumer gets each message once and in order.
- sessions: the ids of a stream are gapless, minutes close in order and only
  with every print they have, no print enters a closed minute, and an exchange
  that revises nothing is not accused of it, unless what REST shows of a minute
  still trails when the minute is judged by it.
- pump: each connection is verified before its messages count; a reader that
  hears nothing gives up.
- hub: every client sees a contiguous stream or is told why not.
- cache and service: artifacts in use are never evicted, locks, slots and
  reservations are given back exactly once, a request ends in bounded time.
- providers: no bar is open, missing or surplus; a trade is delivered once; no
  macro value is dated before it was known.
- harness: no container is left running.
- release chain: what is published was tested as it landed, a rejected release
  stays out, and a receipt that was told is true.

## 2. Modules

| module | what it is |
|---|---|
| `DurableStream` | what the journal promises to one consumer: a log that grows, a first retained index, what the consumer has |
| `Journal` | the journal with its files, the process that owns it, its crashes and the consumer |
| `JournalProperties` | types, safety, liveness, the refinement mapping to `DurableStream` |
| `MCJournal` | two instances and one counterexample |
| `Ordering` | the increasing order of a set of numbers, as `sorted` returns it and a service lists it |
| `NatSetLemmas` | the least and the greatest element of a set of indices, and its order |
| `JournalProofs` | facts about sequences and about what recovery verifies; type correctness; persist before publish; what is retained can be read, at every step; every cursor tells the truth about its stream; lookups and expiry; a start is never refused; the protected window; the refinement of `DurableStream` |
| `Venue` | an exchange as the sessions see it: a tape of prints, candles, REST answers that trail |
| `WebSocketPump` | the reader thread, its bounded queue and its budget of reconnects |
| `Session` | FeedSession and FenceSession, composed with `Venue` and `WebSocketPump` |
| `SessionProperties`, `MCSession` | the log against the tape, alarms, verification of connections, liveness; the tapes that are explored |
| `SessionProofs` | every safety property of the sessions |
| `ClientServer` | `serve`: the hub, a thread for each client, readers of the journal's files, snapshots |
| `ClientServerProperties`, `MCClientServer` | types, safety, the action property of the goodbye, liveness; two instances |
| `ClientServerProofs` | every safety property of the client server |
| `CompileCache` | the locks by key, the guard of the files, artifacts and reservations: the operations that requests call |
| `BacktestService` | the requests of the server, composed with the cache |
| `BacktestProperties`, `MCBacktest` | safety, the action property of a trim, liveness; two instances |
| `BacktestProofs` | every safety property of the service: mutual exclusion by key, the bound on an execution, slots, reservations, trims |
| `CcxtProvider` | bars by page and trades by poll, with the exchange that answers |
| `Harness` | a backtest from the command line to the end of its container, composed with `CcxtProvider` |
| `HarnessProperties`, `MCHarness` | bars, containers, the stream of trades, its liveness; one instance |
| `HarnessProofs` | no container is left, the bars are those asked for, no trade that was listed on time is passed over or delivered twice |
| `FxMacroData` | macro observations by page, with the publisher and the service that collects revisions |
| `FxMacroDataProperties`, `MCFxMacroData` | what a fetch tells against what was public; one instance |
| `FxMacroDataProofs` | both properties of the macro provider |
| `ReleaseContract` | what an update, a bump and a rollback make of a source tree |
| `ReleaseChain` | the adapter, the publisher and the world between their steps |
| `ReleaseProperties`, `MCRelease` | safety, action properties, liveness; one instance and one counterexample |
| `ReleaseProofs` | every safety property of the release chain |

### Journal: state and code

`files` is what a process sees of the journal directory and of `cursor.json`;
`disk` is what has been made safe by an fsync of the file and of its directory.
`mem` is the `State` object: `cursor` (`cursor_`, with the staged lines),
`durable` (`durable_`, the committed one), `staged`, `segments` (by base index:
the checkpoint fields retention looks at), `unusable`, and besides it
`written` (lines of the batch that reached the segment), `outbox` (committed
lines not yet written out) and `dying` (an `Error` is unwinding). `pc` names the
next system call. `ledger` is what the consumer has, `deaf` says that it is gone.

A line has length one, so a message index and a byte count are both a length;
`prefix_hash` identifies the sequence it was chained over, so cursors and
checkpoints carry that sequence instead. `last_bar` is determined by `cut`. A
`.tmp` file that a crash leaves has no effect on any later step and is left out.

| action | code |
|---|---|
| `StartFresh`, `WriteCheckpoint`, `CreateSegment`, `ReplaceCursor`, `SyncJournalDir`, `Initialized` | `State::initialize`, `write_checkpoint`, `persist`, `sync_directory` |
| `Resume`, `RecoverRemove`, `RecoverScanned`, `RecoverReplay`, `RecoverFsync` | `State::recover`, the constructor, the check of `--output-from` |
| `Replay`, `PublishLine`, `Published` | `Session::replay`, `publish`, `output_line` |
| `Anchor`, `Anchored`, `Stage` | `State::anchor`, `stage`, `advance` |
| `Flush`, `AppendLine`, `SyncAppended`, `ReplaceCursor`, `Committed` | `State::flush`, `write_all`, `atomic_file` |
| `WriteCheckpoint`, `CreateSegment`, `ReplaceCursor`, `Sealed` | `State::rotate` |
| `ExpireSegment`, `ExpireCheckpoint`, `RetainDone` | `State::retain` |
| `VenueError`, `Salvaged`, `IOFailure`, `OutputLost` | `stream`'s catch, `Session::salvage`, the error paths of `flush` and of the pipe |
| `Kill`, `PowerLoss` | a process or the machine stops between any two system calls |
| `ConsumerDies`, `ConsumerRebuilds` | outside the repository: the pipe breaks; a consumer that expiry left behind starts from a new warmup |

A power loss keeps, for every entry that is not synced, the old or the new
version, independently of the others, and of a segment that is being appended
any length in between. A stop request is a `Kill` between two messages: the
process does nothing on that path that a kill leaves out.

`WriteBack` says whether what a *killed* process left dirty is on disk before
the power can fail. It is TRUE in the passing runs and an assumption of
`PersistBeforePublish`; the run `journal_unsynced_resume` shows what happens
without it.

### Sessions and transport: state and code

`tape` is the exchange's chain of prints: an id is a position, its value the
matched time. A candle stands for the set of its prints, so two candles agree
when they sum up the same prints. `log` is what was staged, `predecessor` the
anchor of the cursor, `mem` what a session object has besides, `stop` why the
last process ended. `link`, `failures`, `heard`, `source` and `queue` are the
pump. A message in the queue is only the connection it came by: what it says is
chosen when it is taken, among all prints and candles of the tape, and so may be
lost, late, repeated or out of order in every way. A REST answer, too, is any
that the exchange can give at any lag, chosen anew at every read: a page is a
run of ids from the one asked for, rows of klines are a run of minutes, and a row
has the prints of its minute up to any one (`Answers`). `proofs` are the candles
that the minutes were closed with: the bars that were emitted, or the proofs of
the cursor; the last `MaxProofs` are compared with REST on every connection
(`Proven`). `settled_klines` reads up to three times more and then judges by the
last answer, so `Connected` judges by any answer: one that agrees, one that
disagrees (a conflict), or none (`Dies`). `historical_minute` and `close_minute`
judge by the one row that they get, and bars mode emits it. `trailed` is a history
variable: the minutes judged by a row that was not yet their candle.

| action | code |
|---|---|
| `Connects`, `HandshakeFails`, `Marks`, `HearsControl`, `HearsData`, `Drained`, `Breaks`, `BreaksUnheard`, `Refused` | `WebSocketPump::run`, `push`: connection, marker, frames, a full queue, the budget |
| `SourceFails`, `Connected`, `Takes…` | `WebSocketPump::take`, `stream()`, `connected` |
| `FenceTakesPrint`, `FenceTakesCandle` | `FenceSession::stage` up to the call of `advance` |
| `LooksAhead`, `FenceHeals`, `FenceEmits`, `FenceCloses`, `AwaitsCandle` | the loop of `FenceSession::advance`: `forward`, `heal`, `emit_trade`, `close_minute` |
| `RangeTakesPrint`, `TakesClosed` | `FeedSession::stage`, `closed` |
| `BarsClose`, `RangeAnchors`, `ClosesHistorical`, `ClosesRange`, `Drains` | the rest of `closed`, `historical_minute`, `drain` |
| `Dies`, `Restarts` | a kill, a REST request that fails, prints or rows that are still missing when the retries end; the constructors |

`mode` is what `make_session` chooses: bars, ids by range (Binance spot), a
fence whose candle is the sum of the prints (OKX), a fence whose candle is not
(USD-M). A process that ends leaves *any* beginning of the log, and the anchor:
this is more than `Journal` allows, which never loses what was committed, so what
holds here holds over it. Left out: the venue's window of history, `--max-messages`,
pings, probes and the lengths of pauses (a connection may break at any time),
and the pacing of HTTP requests.

### Client server: state and code

`ClientServer` takes of the journal what the threads that read its files see:
`lines` in the files, `durable` of them committed, and the segments that are
there (`bases`), which follow `Journal`'s `Flush`, seal and expiry. How a commit
survives a crash is `Journal`'s subject; here a restart finds the committed
lines and segments. Which segments expire is left open: `Expire` may take any
sealed one, oldest first, which covers every budget and protected window.

A step is a section under `Hub::mutex`, a system call on the journal, or a write
to a client. `pc[c]` is what the thread of client `c` does next; `next`, `live`,
`slow` and `queue` are its `Client`, `reader` its `JournalReader`, `head` what it
found published, `line` what it took from its queue. A line has length one.

| action | code |
|---|---|
| `AppendBatch`, `Commit`, `Rotate`, `Expire`, `Retained` | `State::flush`, `rotate`, `retain`, as the readers see them |
| `Publish`, `FanOut` | `Hub::publish` |
| `Published` | the end of a publication: `Hub::commit` follows, or not (`emit` publishes a full batch without it) |
| `Stop`, `Down`, `Restart` | `Hub::stop`, the end of the server or a kill, `serve --resume` |
| `Admit`, `Ready`, `Disconnected` | `admit`, `on_ready`, `on_connection_close` |
| `Snapshot`, `CollectsLine` | `snapshot_page`, `snapshot_prefix` |
| `Check`, `CaughtUp`, `SendsLine`, `Halts` | `serve_client` until the client is live |
| `Lists`, `Opens`, `Skips`, `AtEnd`, `Continues`, `Fails` | `JournalReader::seek`, `open`, `next` and their I/O errors |
| `Expired`, `Retries`, `GivesUp` | the wait for a released line that is not there |
| `Takes`, `Sends`, `Leaves`, `Dies` | `serve_client` once it is live |

`start` and `ledger` are the consumer, outside the repository, as the README of
the feed describes it: it asks for what follows its ledger, and begins again
from a warmup when its cursor has expired. A write that fails, or blocks for ten
seconds, ends the connection at any point. Listing a directory is one step: the
segment of an index below the head was there before the listing began, so a
listing that overlaps a seal or an expiry finds what an atomic one could.

### Backtest service: state and code

asyncio runs one task at a time and switches only where a task waits, so a step
is what a task does between two waits. `pc[r]` names what request `r` waits for
or does next. `_state_lock` and `_lock_guard` are never held over an `await`:
they are always free when somebody comes for them and are left out. A lock that
is held over an `await` is the FIFO queue of the tasks that want it, whose head
has it: `queue[l]` for the lock objects of `compile_lock`, which are named by
the request that made them (`locks` is the table `_locks`, `references` the
count in `_LockState`), and `guard` for `_files_guard`. `waiting` and `slots`
are the semaphore.

| action | code |
|---|---|
| `Arrive`, `QueueTimesOut`, `Start`, `Finish` | `_admit`, the wait for the semaphore, the counters and `finally` clauses of `run` |
| `TranspileFails`, `TranspileSucceeds` | the first process of `_execute_release`, and `compile_lock.__aenter__` |
| `LookupHits`, `Touched`, `TouchFailed` | `acquire` on a hit: reserved, then touched in a thread, which may raise |
| `LookupMisses`, `CompileFails`, `CompileSucceeds`, `Replaced`, `ReplaceFailed`, `Reserved` | `acquire` on a miss, the compiler process, `commit_and_acquire`, whose threads may raise |
| `BacktestFails`, `BacktestSucceeds`, `Abandoned`, `Released` | the backtest process and the `finally: release` around it |
| `TrimBegins`, `TrimEnds` | `trim`: what is reserved is exempt from the thread `_trim_sync` |
| `WaitsForGuard` | a task queues for `_files_guard` |
| `Tick` | the event loop's clock, when no task can run |

Time. A process takes time, up to its deadline; what the server itself does,
in threads too, takes none that the clock shows. A process that ends exactly at
its deadline has ended just before it. `Quiet` is what a request may wait for
while the clock goes on.

Abstractions. A request is its cache key, which `Init` chooses, because source,
flags and data matter only through it. The artifacts an earlier server left are
within the limits. Requests are not cancelled: the HTTP server answers every
request it has read, and nothing in the repository cancels the task. The
artifact's mtime is the clock, and ties are broken by size as `entries.sort()`
does; ties of both are broken either way. Of the exceptions that file operations
raise, the model has those of `os.utime` in `acquire` and of `os.replace` and
`chmod` in `commit_and_acquire`. One server owns the cache directory, so an
artifact whose touch raised is still there; a trim that raises, and the removal
of artifacts by somebody else, are left out. Statistics, and `lookup`, `commit`
and `use`, which the server does not call, are left out.

### Harness and CCXT provider: state and code

A process runs one backtest or consumes one stream of trades (`Init` chooses).
`fetch` is a request of bars (`observed_at_ms`, `cursor`, what was kept);
`since`, `pollSince`, `page`, `seen` and `emitted` are `stream_trades`; `open`,
`workspace`, `cid` and `container` are what the harness has to give back.

| action | code |
|---|---|
| `Resolves`, `Selects`, `ProviderFails`, `ServerAnswers` | `run_harness` with its `finally` clauses |
| `Requests` (`FetchesPage`) | the loop of `fetch_bars`, once around |
| `EnsuresImage`, `WritesInputs`, `TimesOut` | `DockerBacktestRuntime.run`, `ensure_image`, `_remove_timed_out_container` |
| `OpensCid`, `CreatesContainer`, `WritesCid`, `StartsContainer`, `CompletesRun` | external: what the docker command does, in its order |
| `Streaming` (`Polls`, `Takes`) | the loop of `stream_trades` |
| `Goes` (`Ticks`), `Listing` (`Lists`) | external: the exchange's clock and its trades |

External, and assumed of an exchange: it honours `since`, answers with the oldest
first, fills a page of trades unless it has no more, and names a candle by its
opening. Candles of a page may be fewer than asked for, and the open one is among
them. `docker rm` succeeds. A container that was created and not started when the
timeout struck may remain: `NoStrayContainer` is about running ones. The docker
command ends when its container does, or by the timeout: one that dies by itself
while the container runs on, which `run` takes for a failed container
(`docker_runtime.py:202-219`), is left out. `Frame` is a
fixed length: calendar months, whose warmup only asks for more, are left out.
`CcxtAssumption` asks for a window of identities no shorter than a page, which
the defaults satisfy and the constructor does not check.

### Macro provider: state and code

`truth` is what the publisher made public of each period and when, `records`
what the service lists (the first release, and what it collected of revisions:
late, as snapshots, without times), `fetch` the request, `known` a history
variable: what the service could have told when the request began.

| action | code |
|---|---|
| `Begins`, `Page`, `Refused` | `fetch_observations`, `_get_page` with its retries and offset |
| `Observed`, `Vintages`, `AvailableAt` (operators) | `_vintages`, `_available_at_ms`, the dictionary of periods and vintages |
| `Ticks`, `Publishes`, `ListsRecord`, `Collects` | external: clock, publisher, service |

Left out: entries of one record that share an availability time (the order of the
answer decides there), records with assumed release times (the provider skips
them), the counters of what was skipped. The announcement of a record is its
first release; a record without revisions stands for its own value.

### Release chain: state and code

`main` is the list of commits, `prs` and `branches` are the App's, `pypi`,
`releases` and `latest` what the registries hold, `job` the adapter, `publisher`
the publisher, `runs` its completed runs, `told` what the hub was last told. A
distribution is the commit it was built from. Dispatches have no effect of their
own: any job may start at any time, which covers lost, late and repeated ones.

| action | code |
|---|---|
| `Decides` (`DecidesRelease`, `DecidesBump`, `DecidesRollback`) | `reconcile` and the two operator commands up to their first request that writes |
| `Pushes`, `Opens`, `Supersedes`, `Inspects`, `UpdatesBranch`, `Records`, `Merges` | `create_pr`, the closing of obsolete pull requests, `maybe_merge` |
| `Publication`, `Reports`, `Retains`, `AdapterFails` | `publication`, `collect` and the report job, the receipt kept with the package; a step that fails |
| `Prepare`, `GithubRelease`, `CreatesTag`, `UploadAsset`, `Preflight`, `Upload`, `VerifyPublication`, `MovesLatest`, `Refused`, `PublisherFails` | `publishing.py`, job after job of `release.yml` |
| `HubReleases`, `Push`, `Edit`, `MergedByHand`, `CandidateCI`, `CandidateRerun`, `MainCI`, `MainRerun` | external: the hub, people and CI |

External, and assumed: branch protection takes only an up-to-date head with a
successful check; merges are squashed; jobs of one concurrency group do not
overlap. What the adapter reads before a write is one step, and the world moves
between any two steps; the pull requests a proposal supersedes stay those that
were listed when it was decided (`job.old`). The publisher checks and writes in
steps of their own, so that main, the hub and the registries move between
`current_intent` and the write it guards. A bump or a rollback that an operator
started tells the hub nothing (`job.manual`: the report of `release.yml:465-477`
leaves the input `hub` at its default, false). Of receipts only nothing,
progress and verified are told apart; of a failed run only its source; the wheel
is uploaded before the sdist; versions are numbers in their order. The incident
issue and the texts of events, manifests and receipts are left out.

What is published need not be unedited. `maybe_merge` asks GitHub to update a
branch and then records whatever head it polls next
(`automation.py:278-288`). A commit that a person adds in between is recorded as
generated (`Edit` between `UpdatesBranch` and `Records`), although
`docs/releasing.md:47-48` says that human or unrecorded commits stop automation.
The App still refuses to merge it (`assert_patch`), a person who merges it has it
published, and `TestedLanding` therefore says that the head was recorded and
tested, and not that it was generated.

What is told need not stay the last word before it is kept. `already_verified`
(`reporting.py:116-130`) looks for the receipt that `retain` keeps with the
release. A job that has told `verified` and breaks before `retain` leaves none,
and until a later run keeps one a `failed` or `superseded` of the same event goes
to the hub after it (`Reports`, `AdapterFails`, `Reports`). `docs/releasing.md:187-188`
and `docs/release-receipt-report.md:93-94` say that a target that was verified
never gets one. `KeptReceiptsHold` says what the code does guarantee: a receipt
that is kept was told, nothing else is told after it, and what it says is still
served.

## 3. Runs

| run | instance | what it shows |
|---|---|---|
| `journal_ticks` | ticks, minutes of two positions, segments of one line, budget of two, four messages, two starts, two faults of any kind | types, persist before publish, no refusal, the protected window, exact expiry lookups, complete minute lookups, refinement of `DurableStream` |
| `journal_bars` | bars, segments of two lines, batches of two, expiry by age, six messages, three starts, three faults of any kind, under fairness | what is retained can be read, with batches that cross segments; every committed message reaches the consumer |
| `journal_unsynced_resume` | two bars, one kill, `WriteBack` FALSE | the violation described below |
| `session` | every mode; every tape of three prints that are not all in one of three minutes, and three tapes that go back in time; minutes of length two, pages, buffer and queue of two, one proof, two failed connections, under fairness | the log is the tape, alarms only where time went back, a row trailed or a minute is empty, verified connections, silence ends the stream |
| `server_sharing` | two consumers, both may be live, queues of one line, three lines in two or more commits, snapshots of two lines | types and queue limits, contiguous ledgers, queues that hold exactly the rest, complete snapshots, goodbyes that lose nothing |
| `server_serving` | one consumer with two requests, a restart, four lines, queue of two, under fairness | honest expiry across reconnects, every client is served or told why not |
| `backtest_requests` | four requests, two keys of different size, limits for one artifact, two slots, one queue place | accounting of slots and admissions, one compiler per key, artifacts in use are kept, nothing is left behind, executions end within twice the timeout, a trim is LRU |
| `backtest_answers` | three requests, under fairness | every request is answered |
| `harness` | a clock to six, candles of two ticks, pages of two, a window of two, four trades up to one tick late, warmup and limit up to two, under fairness | bars are exact, beyond the limit too, no stray container, ticks once and in order, none passed over, every trade arrives |
| `macro` | two periods, two values, pages of two, one retry, one or two pages, three publications, three revisions, a clock to two | vintages are true, every change is told |
| `release_chain` | two releases of the hub (from an empty chain, or both already published), bumps and rollbacks, two pull requests, one act of people, one job or CI run that fails | six properties: what is published, told and proposed |
| `release_superseded` | two releases, two pull requests, nothing fails, under fairness | the violation described below |

Why the bounds of the journal are enough. Segments of one line with a budget of two lines make
the second message seal and the third expire, so four messages reach an expiry
in the middle of a minute, one whose segment holds the newest print, and a
journal whose first segment starts inside, before and at a minute. Two starts
give an initialization that crashed and the one that takes over. Two faults give
every pair: a kill during a recovery from a power loss, an I/O error during the
salvage of a venue error, a consumer that dies during a replay; `journal_bars`
has every triple. `CHECK_DEADLOCK`
is FALSE because a stream that has reached `MaxIndex` is quiet for ever.

Why the bounds of the sessions are enough. Three prints after the predecessor
make every shape of two minutes: full, empty, one print each, a print behind the
last minute; a page of two ends inside a minute and at its border; with one proof
the older of two closed minutes is compared with its prints alone; a buffer of
two overflows with a fence in it; a queue of two is full with the marker of the
next connection waiting. The three tapes that go back do so within a minute,
behind a fence and behind the start. Connections are two by turns, which tells
neighbours apart. There is no bound on restarts, reads, connections or messages:
the state is finite without one, and deadlock is checked.

Why the bounds of the client server are enough. Three lines seal, expire and
commit at different moments of one client's catch-up: a segment ends, is
replaced by its successor and vanishes before the listing, between listing and
open, while it is open, and before its successor is opened. A queue of one line
overflows with a commit of two. Two consumers, which `Symmetry` may exchange,
are live, catching up and asking for a snapshot in every combination; there are
as many places as consumers, so the client limit, which only refuses, is not
reached. The consumer of `server_serving` comes back with its ledger after any
end of its first request, also to a producer that was restarted. `CHECK_DEADLOCK`
is FALSE because nothing is left to produce after `MaxIndex`.

Why the bounds of the service are enough. Two slots and one queue place make
the third request wait and the fourth overload; three requests can want one key,
so a lock has an owner, a waiter and one that comes while the lock object is
being dropped; two keys make a trim choose while another key is compiled or
reserved. `MaxArrival` is the last time a request comes. `Tick` stops at
`MaxArrival + QueueTimeout + 2 * ExecutionTimeout`, when every request has ended
(`EndsWithinTwiceTheTimeout`), so the bound hides nothing. Requests differ in
nothing but their keys, which `Init` chooses in every way, and the safety run is
reduced by that symmetry; the liveness run is not. `CHECK_DEADLOCK` is FALSE
because a server whose requests are all answered is quiet.

Why the bounds of the providers are enough. Six ticks hold three candles and the
open one, with gaps in every place; pages of two end before, at and behind the
start and the limit. Four trades fill two pages, crowd one time, repeat an
identity that the window of two has forgotten, and come late between a poll and
the rows it reads. Two periods on pages of one or two records move when the older
is listed second; two values make a revision that is taken back. `CHECK_DEADLOCK`
is FALSE because a backtest and a fetch end, and an exchange may have nothing
more to list.

Why the bounds of the release chain are enough. Two releases make each other
stale at every step, three versions leave room for a rollback or a bump on top of
them, one act of people is a push, an edit or a merge by hand at every moment,
and one failure breaks any job or CI run, after which jobs start again.
`CHECK_DEADLOCK` is FALSE because nothing may be left to release.

Fairness. Each `FairSpec` says what the code's scheduling gives:

- journal: weak fairness of `Working`, everything that the process and its
  operator do without new input. A live process is scheduled by the operating
  system, and the deployment restarts a process that ended and rebuilds a
  consumer that was told it had expired. Producing and faults are not fair.
- sessions: weak fairness of `ReadsOn`, since the reader's pauses end and silence
  ends a connection that was never heard; and of `SessionStep \/ GivesUp`, since
  every retry of REST has a deadline. Messages, breaks, kills and restarts are
  not fair.
- client server: weak fairness of each thread (`Serving`) and of what follows an
  append until it is published; strong fairness of `GivesUp`, since a clock ends
  the wait that the thread keeps returning to. Producing, expiry, stopping,
  failing and asking are not fair.
- service: each request's `Step` and `Tick` are weakly fair. The event loop
  resumes every task that can run, a process ends or is killed at its deadline,
  and the clock goes on. Arrivals are not fair.
- harness: weak fairness of `Streaming`: a consumer that takes its ticks keeps
  the generator polling. The exchange is not fair.
- release chain: CI runs end, a job that was started goes on, and jobs start
  again and again, as dispatches and completed runs make them; strong fairness
  where a competing job can disable one.

Mutants. For each property of a passing run a definition of the model has a
variant, marked `Wrong:`, that a plausible error in the code would produce (an
unsynced append, a resume that replays everything retained, a lock object that is
forgotten while it is waited for, a minute that closes without its fence, a
cursor that starts after the newest trade); with it in place of the right one TLC
finds the property violated.

### What the runs found

`journal_unsynced_resume`: the README of the feed says that a line is published
only after `cursor.json` was replaced and its directory fsynced
(`src/native/feed/README.md:397-399`). A process that is killed between the
rename and that fsync leaves a cursor that the next process reads and publishes
from, and no step of the resume path fsyncs the state directory
(`State::recover`, `State::State`). If the power fails before the file system
writes the rename back, the consumer holds lines that the journal has not.

`release_superseded`: `docs/releasing.md:5-8` says that stable hub releases
automatically open a pull request, merge and publish. When the second release
becomes ready after the first has merged and before it is uploaded,
`current_intent` (`publishing.py:364`) refuses the first as stale for ever, and
`prepare` refuses the second because the package it replaces was never
published. Neither, nor any later one, is published without people.

`backtest_requests` counts one reservation that nobody gives back. `acquire`
reserves an artifact and then awaits `os.utime` (`compile_cache.py:94-102`); if
that raises, the request ends before the `try` whose `finally` releases
(`server.py:527-535`), and the artifact stays reserved until the server stops,
exempt from every trim, although `docs/server.md:58-59` gives the cache a maximum
of entries and bytes. In the model such a request ends `broken`;
`NothingIsLeftBehind` says that every other way to end leaves nothing.

`session` shows when a venue that revises nothing is accused of it. A connection's
overlap reads a row that disagrees three times more (`session.cpp:30-45`), as
`src/native/feed/README.md:356-359` says; a value that still trails after that
stops the stream with 21 (`session.cpp:137`, `547`). The row that closes a minute
behind a later confirmed one is read again only while it is missing
(`session.cpp:445-455`) or not at all (`243`): one whose value trails ends the
stream at once (`244`, `462`), stays in the buffer and contradicts the candle that
comes later (`497-498`), and, where the candle is not compared with prints, is
emitted as a bar or kept as a proof that the next connection finds changed.
`AlarmsAreTrue` and `LogIsTheTape` except exactly the streams in which such a row
was judged by, and nothing else that lags.

`harness` counts what `--limit` gives. `run_harness` asks the provider for
`limit + warmup` bars (`cli/backtest.py:228`) and never cuts what is at or after
the start to the limit: if quiet times leave the warmup `n` bars short, `n`
requested bars beyond the limit are run. `docs/backtesting.md:76-80` says that
the capacity is added and that warmup may be short, and not what follows from
both; `BarsAreExact` says exactly how many bars there are.

The runs also show that the second attempt of `JournalReader::seek` is never
needed: if the chosen segment is gone, no segment at or below the index is left
(`GoneMeansExpired` in section 4 proves it); and that `EveryTradeArrives` needs
its exception: a full page of trades of one time is asked for again for ever.

## 4. Proofs

`JournalProofs!VerifiedIsChained`: whatever the files are, if `RecoverVerified`
accepts them then every segment holds its slice of the stream that the cursor
names. The argument runs down from the open segment: its lines after its
checkpoint give the cursor's prefix, so the checkpoint begins it, so the segment
before it does. There is no induction over data; the largest base that breaks
the claim is a contradiction. `RecoveredIsReadable` follows: a recovery that
accepts the journal leaves every retained index readable.

`JournalProofs!TypeCorrect` is `Spec => []TypeOK`. Types alone are not
inductive: what a replay reads has the type of a message only because recovery
verified it (`Reading`), a line is appended only while there is one
(`Appending`), and an fsync copies a segment only if the open segment exists,
which needs that retention never erases it and that rotation created its
successor first (`OpenSegment`). `TypeInv` is their conjunction.

`JournalProofs!PersistBeforePublish` is `Spec => []PublishedIsDurable` under
`WriteBack = TRUE`. The invariant `PublishInv` says where every message is:
`Safe` (what the consumer has begins the synced stream, which begins the visible
one), `Starting` (what is known before the journal is open) and `Running` (the
cursor is what is committed followed by what is staged; while lines are written
out the committed stream is what the consumer has followed by the outbox).

`JournalProofs!RetainedAlwaysReadable` is `Spec => []RetainedIsReadable`,
with no assumption on `WriteBack`. `RetentionInv` adds to `TypeInv` where the
lines are: the cursor is the committed stream followed by the batch (`Batch`),
the open segment holds its part of the committed stream followed by the part of
the batch that is already appended, and the successor a seal or an
initialization has created is empty (`Layout`). A commit only moves the border
between the two; an expiry takes the first retained base away and leaves
`SegmentFor` of every later index as it was; a recovery starts from what
`RecoveredIsReadable` says.

The second half of `JournalProofs` proves what is left of the journal's safety.
Its first part assumes nothing about `WriteBack`. `Run` says that `advance()` takes a stream
from the fresh state through given states; `HistoryInv` says that every cursor
and checkpoint, in memory, visible and synced, is the end of a run over its own
prefix, that its proofs are minutes the run closed, in order (`Truth`), and that
the states of the retained segments lie on the run of the committed stream
(`Known`). A tear of a file keeps this, because a cursor or checkpoint is
replaced as a whole. As `seq` and `cut` never fall along a run and a message lies
in the minute that is open where it stands (`RunGrows`, `RunMinutes`,
`RunPrints`), `LookupMissesNothing` (`Spec => []LookupIsComplete`) and
`ExpiryIsExactAlways` (`Spec => []ExpiryIsExact`) are facts about one run.

`StartIsNeverRefused` is `Spec => []NeverRefused` under `WriteBack = TRUE`.
`Accepted(f, g, c)` says of two states of the directory, visible and synced, that
whatever mixture of the two a power loss leaves, a start that finds the cursor
`c` accepts it: every segment up to the open one is there in both unless it is
the oldest (an unlink under way), has its checkpoint, ends where the next begins
and holds the lines of the prefix; above it is at most an empty successor.
`Acceptable` says so for both states of `cursor.json`, which suffices
(`AcceptedIsExpected`, `AcceptedIsVerified`; what a replay computes is the run of
`HistoryInv`, `ReplayedRun`). It is inductive only with what the process knows at
each step: which cursor is which (`Cursors`), how far the synced segments lag
behind the visible ones (`Synced`), what an initialization has created
(`Created`) and which names may exist (`Named`). Write-back is needed where a
process is killed between an unlink or a rename and its fsync: the next one
repeats that fsync only if it has something to remove itself, so the two states
could come to differ by two steps.

`WindowIsProtected` is `Spec => []ProtectedWindowIsRetained` under the same
assumption. `Guarded(b, c)` says that nothing before index `b` is of the minute
that `c` has open or of one it has a proof of, and that the newest print is not
before it. The process keeps it for what it retains (`GuardedMemory`), and the
files for a segment that is there whatever a crash leaves (`GuardedFiles`): a
recovery retains what it finds, and decides nothing again. `ExpiredIsGuarded` is
the argument for `retain()`: the checkpoint after the oldest segment is older
than the first proof, and along the run every earlier message is too.

`StreamIsImplemented` is the refinement, `Spec => ImplementsStream`, under
`WriteBack = TRUE`: `log` is what the synced cursor names, `first` the least
synced segment, `seen` the consumer's. `CommitsOrExpires` is the general case: an
fsync, the end of a process or a power loss replaces the synced files by a
mixture of both states, which is a commit, an expiry or nothing. That it is never
a commit and an expiry at once needs `OneAtATime`: the cursors name different
streams only while no segment is dirty. A written line is `Deliver` because
expiry follows the consumer (`Followed`): a live one has everything up to the
least segment, which holds before an expiry for every segment but the one that
begins at the end of the stream, and that one is never the next oldest. For the
same reason a consumer is rebuilt only if the process was restarted with an
index that expiry had left behind while it was gone.

`BacktestProofs!OneCompiler` and `BoundedExecutions` are
`Spec => []OneCompilerPerKey` and `Spec => []EndsWithinTwiceTheTimeout`, for any
set of requests and any keys. Both follow from `ServiceInv`: the queue of a lock
object holds those that are in the section of that lock, each once, and only its
head is past the lookup (`Queues`); the table leads everybody in the section of
a key to one lock object, which serves that key alone, and a fresh one has an
empty queue because the request it is named after has not yet wanted a lock
(`Table`); whoever is ahead in a queue has a deadline at most one timeout later
(`Deadlines`). A step keeps its request's relation to the locks, enters or leaves
(`StepKinds`), so the invariant is proved for three kinds of step and the clock:
the clock goes on only while the head of a queue is within its own deadline,
which bounds everybody behind it.

`SlotAccounting`, `UsedIsKept`, `NoLeftovers` and the action property
`TrimsTheOldest` follow from `CacheInv`, which adds three parts. `SlotInv`: the
free slots and those that hold one make `MaxConcurrency`, and `running` and
`queued` count the requests in their sections. `GuardInv`: the queue of the guard
of the files holds requests that want it, each once, and whoever left it to a
thread is the head, so nobody else changes artifacts or reservations meanwhile.
`FileInv`: `active` counts the uses of each key and what failed touches left, a trim spares exactly what was
reserved when it began, and an artifact that was just published is there until
it is reserved. Counting a set from which one request leaves, or to which one
comes, is one lemma each; nothing is proved by induction over sets.

`ClientServerProofs` proves every safety property of the client server, for any
number of clients and any limits: `ContiguousLedgers`, `ExactQueues`,
`HonestExpiry`, `CompleteSnapshots` and the action property `CompleteGoodbyes`
follow from `ServerInv`. The segments that are there are the last of those that
ever were (`Segments`), so whoever finds its segment gone knows that every line
up to its own is gone (`GoneMeansExpired`). A reader is within the segment it
has open, and one that still seeks has its index within that segment
(`Within`), so it finds the end of a file only where its client is, with a
segment after it (`AtEndKeeps`). What a consumer has leads to the index it is
served next (`Has`), from where a live client's queue goes on to the head
(`Queued`). A client's step touches that client alone (`ServingIsAlone`), so the
invariant is proved for one client and the producer.

`HarnessProofs!NoContainerIsLeft` is `Spec => []NoStrayContainer`: a running
container has been named in the cid file, the provider is open only while bars
are fetched, and the directory is there only for the docker command
(`ContainerInv`), so whatever step the timeout strikes, `RemovesTimedOut` finds
what runs. `NothingOnTimeIsPassedOver` is `Spec => []NothingIsPassedOver`, for
every page limit, window, lateness and clock. The property is not inductive: a
trade still ahead of `since` must also be as young as every row of the page that
is read, or `since` would move past it. `NoneIsPassed` says so, a poll
establishes it because a page cut to its limit has the oldest
(`IsTradesPage`), and what the window of identities suppresses was delivered
before (`SeenWasDelivered`).

`HarnessProofs!NoTickTwice` is `Spec => []StreamIsExact`. Every poll lists the
newest time once more, so what keeps a trade from being delivered again is the
window of identities, and the window forgets. It forgets nothing that can come
back: no page goes past the first `PageLimit` trades of a time, whichever poll
they came with (`Foremost`), so at most a page of ticks have the newest time
(`FewAreForemost`), and the window has the newest ticks, as many as it holds
(`Window`), which is a page at least (`CcxtAssumption`, `WindowRemembers`).

`HarnessProofs!BarsAreAsAsked` is `Spec => []BarsAreExact`, for every command
line and whatever the exchange does between the pages. While pages come, the
fetch has every closed bar from its start to the cursor (`Asked`, `PageIsTaken`),
although a page may be short and has the open candle; when it ends, no bar is
left, or there are as many as asked for (`Exhausted`). The limit keeps the first
of them (`FetchedIsFirst`), and what they are short of the warmup before the start they
have more from it on. That the bars before the start are no more than the
warmup, so that they take none of the limit, needs that candles open at multiples
of `Frame` (`WarmupIsBounded`). What `sorted` returns is the one increasing order
of a set (`Ordered`); that a finite set of numbers has one is proved from the
least size that would not (`AnOrderExists` in `NatSetLemmas`).

`FxMacroDataProofs` proves both properties of the macro provider, for any
periods, values, sizes of page and schedule of publications, collections and
retries. `NothingIsDatedBack` is `Spec => []VintagesAreTrue`. The publications
of a period follow one another (`Chronicle`), and what was public at a time stays
so, because whatever is published later is younger than that time
(`PublicRemains`). Every entry the service lists is `Sound`: if it has a time, its value
was public then; one without a time is no candidate. So every value `Vintages`
considers was public at the time it is considered for (`CandidatesAreSound`), and
a period had one value at a time (`OneIsPublic`).

`NoChangeIsLeftOut` is `Spec => []EveryChangeIsTold`. That a value which could be
told at a time has an observation at or before it is the argument of the earliest
candidate since which the value stood (`AVintageStands`). A page tells every
change of the periods it returns, and takes back nothing that was told, even when
it tells a period once more with vintages collected since (`PageTells`). Between
two pages a period may come to be listed and move the others on, never back
(`PlacesMoveOn`): the offset passes no period that the pages have not returned,
and `FetchInv` says that what was known is told once the offset is past its
period (`Place` counts the listed periods that are not greater).

`SessionProofs` proves every safety property of the sessions, for any tape with
any length of minute, and any lag of REST, size of page, queue and budget.
`TheLogIsTheTape` and `TheAlarmsAreTrue` follow from `SessionInv`. `Sound` says,
for each line of the log, that what precedes it is a run of ids from the
predecessor on and a run of minutes from the start on, all of whose prints are
there (`Chain`), and that the line goes on with one of the two (`Extends`).
`Anchored` says that the predecessor is the last print before the start.
`InHand` says what the process may have in memory: only prints of the tape, none
below the next one if time does not go back, and of the open minute exactly what
is committed. `Excused` names the minutes that may lack a print: one behind the
fence, where the candle is not their sum or a row trailed. `Kept` and `InStock`
say that a candle a minute was closed with, or one in hand, is the tape's or came
by a row that trailed. A healing or a drain appends a page at once: that appending a run
of prints or of minutes keeps the log sound is proved from the least position at
which it would not (`AppendTicks`, `AppendTimes`). An alarm compares two of these
facts: a print that does not fit means that time went back (`FittingRun`,
`Misfit`), and a candle that disagrees that time went back or a row trailed.

`ConnectionsAreVerified` needs `PumpInv` alone: each message came by the
connection of the one before it unless it is a marker, and an open connection is
that of the last message. What the session does to the queue is one of three
effects (`Quits`, `Leaves`, `TakesOne`), and the reader's steps only append.

`ReleaseProofs` proves every safety property of the release chain, for any
number of releases, versions, pull requests, acts of people and breaks. The
properties follow from `ReleaseInv`. Almost everything rests on what a step can
do to main, the branches and the pull requests: `Effects` lists nine kinds
(`EffectsStep`: nothing, a push, an edit, a landing, a branch, an opening, a
closing, an update, a record), and the invariant is proved for each kind instead
of each action. `TreesInv`: along main a tree is the one before it or a `Step`
from it, so versions grow and rejections stay. `BranchInv`: a branch is a
`Proposal` of the commit it stands on, and a release that is proposed was not on
main up to that commit. A pull request lands only on the commit its branch
stands on, which is why `OnceInv` (a release comes to main once, or by a
rollback) survives a merge at any moment. `PrsInv`: an open pull request stands
on a tree like that of the commit its marker names, and a name belongs to one
pull request that is open or landed (`Alive`), across the crash between the push
of a branch and the opening of its pull request. `JobInv` is what the adapter
still knows to be true of a world that moves between its requests. `PublicInv`:
what the publisher works on is `Public`, it landed a pull request, was tested as
it landed and replaces what is public whole. A public commit stays so, because
main and the landed pull requests are only added to (`LandedKeptStep`) and files
on PyPI and tags are never replaced (`StoreGrowsStep`), so what `prepare` checked is
still true at the upload. `ReceiptsAreTrue` needs that nothing comes between
`publication` and the report but steps that keep what is served (`ServedKept`).
`KeptReceiptsAreTrue` needs the same one step longer: a job that goes on to keep a
receipt has told it (`JobInv`), the version it landed with serves that release,
and a kept receipt carries both facts along (`ReceiptsStep`), because a version's
files and tag are never replaced and `MayTell` looks at what is kept.

The only assumptions are those of `JournalAssumption`, `CacheAssumption`,
`ServiceAssumption`, `ClientServerAssumption`, `CcxtAssumption`,
`HarnessAssumption`, `MacroAssumption`, `VenueAssumption`, `PumpAssumption`,
`SessionAssumption` and `ReleaseAssumption`
(TLC evaluates them in every run) and, where it is named, `WriteBack = TRUE`.
That the keys of artifacts are finitely many is part of `CacheAssumption`: they
are digests.

Every safety property and every action property that a passing run checks is
proved. The liveness properties (`CommittedIsDelivered`,
`EveryRequestEnds`, `EveryClientIsServed`, `EveryTradeArrives`,
`SilenceEndsTheStream`) are model-checked only: they are out of the prover's
reach.

## 5. Not modelled

- Decimals, aggregates and hashes (`core.cpp`) are arithmetic without state; a
  candle is the set of its prints here, and a hash is what it was chained over.
- The venues' dialects, JSON, HTTP, command lines, configuration files, the data
  model and the release contract's validation are functions on text, which the
  repository's own tests reach.
- The warmup export joins archives and REST in one pass, without concurrency, and
  nothing here reads what it writes.
- `backtest.py` and `engine.py` call a compiled strategy's C interface step by
  step; what such a call does is the engine's, outside the repository.
- Tabular, local, SQL and registry providers are one-shot reads.
- Of the compile cache, `lookup`, `commit` and `use`, which the server does not
  call, and the statistics.
- The composition of `Session` with `Journal` and of `Journal` with
  `ClientServer` is by what each takes of the other: a session's process leaves
  any beginning of its log, a client's readers see the files as `Flush`, seal and
  expiry leave them. The product of two of them is out of TLC's reach.
