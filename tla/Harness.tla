------------------------------ MODULE Harness ------------------------------
(***************************************************************************)
(* cli/backtest.py: bars from a provider, cut to the warmup and the        *)
(* requested window, and their backtest in a container (docker_runtime.py) *)
(* or by a server (server_client.py).  The container is created, named in  *)
(* the cid file and started by the docker command, which a timeout kills   *)
(* at any of these steps.                                                  *)
(***************************************************************************)
EXTENDS CcxtProvider

CONSTANTS
    Warmups,       \* --warmup-bars
    Limits         \* --limit, 0 for none

ASSUME HarnessAssumption == Warmups \subseteq Nat /\ Limits \subseteq Nat

VARIABLES
    args,        \* the command line: start, end, limit, warmup
    pc,          \* where run_harness is
    open,        \* the provider was created and not closed
    bars,        \* what is handed to the engine
    workspace,   \* the temporary directory, mounted into the container, is there
    cid,         \* the cid file: absent, empty, written
    container    \* none, created, running

dockerVars == <<workspace, cid, container>>
harnessVars == <<args, pc, open, bars, dockerVars>>
vars == <<now, candles, fetch, streamVars, harnessVars>>

Ended == {"done", "failed"}

----------------------------------------------------------------------------
(* run_harness().                                                          *)

\* warmup_request_start_ms() for frames of a fixed length.
WarmupStart == Max({0, args.start - Frame * args.warmup})

\* Wrong: the warmup takes from the requested limit.
BareLimit == args.limit

RequestLimit == IF args.limit = 0 THEN 0 ELSE args.limit + args.warmup

Resolves ==
    /\ pc = "resolve"
    /\ open' = TRUE
    /\ BeginsFetch(WarmupStart, args.end, RequestLimit)
    /\ pc' = "fetch"
    /\ UNCHANGED <<now, candles, streamVars, args, bars, dockerVars>>

\* The provider is closed, however the requests end.
Closes == open' = FALSE

\* The elements of a sequence at some of its places.
Elements(s, places) == [k \in 1..Cardinality(places) |-> s[Ordered(places)[k]]]

\* The last of the bars before the start, and those from it on.
Selected ==
    LET before == Elements(Fetched, {i \in DOMAIN Fetched : Fetched[i] < args.start})
        requested == Elements(Fetched, {i \in DOMAIN Fetched : Fetched[i] >= args.start})
        kept == Min({args.warmup, Len(before)})
    IN  IF requested = <<>> THEN <<>>
        ELSE SubSeq(before, Len(before) - kept + 1, Len(before)) \o requested

\* Without a requested bar, or a strategy to read, there is nothing to run.
Selects ==
    /\ pc = "fetch" /\ fetch.pc = "done"
    /\ Closes
    /\ bars' = Selected
    /\ pc' \in {"failed"} \cup (IF Selected = <<>> THEN {} ELSE {"server", "image"})
    /\ UNCHANGED <<now, candles, fetch, streamVars, args, dockerVars>>

\* The exchange or the lookup of the market fails.
ProviderFails ==
    /\ pc = "fetch" /\ fetch.pc = "page"
    /\ Closes
    /\ pc' = "failed"
    /\ UNCHANGED <<now, candles, fetch, streamVars, args, bars, dockerVars>>

\* FastApiBacktestClient.run(): an answer with a runtime and a report, or an error.
ServerAnswers ==
    /\ pc = "server"
    /\ pc' \in Ended
    /\ UNCHANGED <<now, candles, fetch, streamVars, args, open, bars, dockerVars>>

----------------------------------------------------------------------------
(* DockerBacktestRuntime.run().                                            *)

\* The image after the policy: what is not there, or always, is pulled, if that succeeds.
There(policy, exists, pulled) ==
    IF policy = "always" \/ (policy = "missing" /\ ~ exists) THEN pulled ELSE exists

\* ensure_image(); docker itself may be missing.
EnsuresImage ==
    /\ pc = "image"
    /\ \E policy \in {"always", "missing", "never"}, exists, pulled \in BOOLEAN :
           pc' \in {"failed"} \cup (IF There(policy, exists, pulled) THEN {"inputs"} ELSE {})
    /\ UNCHANGED <<now, candles, fetch, streamVars, args, open, bars, dockerVars>>

\* write_release_inputs() and release_environment(): the bars have to increase, and the
\* image has to support the options.  The directory goes on an error.
WritesInputs ==
    /\ pc = "inputs"
    /\ \/ /\ \A i \in 1..(Len(bars) - 1) : bars[i] < bars[i + 1]
          /\ workspace' = TRUE
          /\ pc' = "create"
       \/ workspace' = FALSE /\ pc' = "failed"
    /\ UNCHANGED <<now, candles, fetch, streamVars, args, open, bars, cid, container>>

\* The docker command makes the cid file, ...
OpensCid ==
    /\ pc = "create" /\ cid = "absent"
    /\ cid' = "empty"
    /\ UNCHANGED <<now, candles, fetch, streamVars, args, pc, open, bars, workspace,
                   container>>

\* ... has the container created, ...
CreatesContainer ==
    /\ pc = "create" /\ cid = "empty" /\ container = "none"
    /\ container' = "created"
    /\ UNCHANGED <<now, candles, fetch, streamVars, args, pc, open, bars, workspace, cid>>

\* ... writes its name, ...
WritesCid ==
    /\ pc = "create" /\ container = "created" /\ cid = "empty"
    /\ cid' = "written"
    /\ UNCHANGED <<now, candles, fetch, streamVars, args, pc, open, bars, workspace,
                   container>>

\* ... and has it started.
StartsContainer ==
    /\ pc = "create" /\ container = "created" /\ cid = "written"
    /\ container' = "running"
    /\ UNCHANGED <<now, candles, fetch, streamVars, args, pc, open, bars, workspace, cid>>

\* The container ends, whatever its phases made of it, and removes itself; the
\* temporary directory goes before the report is read.
CompletesRun ==
    /\ pc = "create" /\ container = "running"
    /\ container' = "none"
    /\ workspace' = FALSE /\ cid' = "absent"
    /\ pc' \in Ended
    /\ UNCHANGED <<now, candles, fetch, streamVars, args, open, bars>>

\* Wrong: the name is looked for when the directory has gone.
RemovesNothing == container

\* _remove_timed_out_container(): the one that the cid file names.
RemovesTimedOut == IF cid = "written" THEN "none" ELSE container

\* The timeout kills the docker command, not the container.
TimesOut ==
    /\ pc = "create"
    /\ container' = RemovesTimedOut
    /\ workspace' = FALSE /\ cid' = "absent"
    /\ pc' = "failed"
    /\ UNCHANGED <<now, candles, fetch, streamVars, args, open, bars>>

DockerRun == OpensCid \/ CreatesContainer \/ WritesCid \/ StartsContainer \/ CompletesRun

----------------------------------------------------------------------------
(* A process either runs a backtest or consumes the stream of trades.      *)

Opens == {t \in 0..MaxNow : t % Frame = 0}

NoArgs == [start |-> 0, end |-> 1, limit |-> 0, warmup |-> 0]

Backtest ==
    /\ pc = "resolve"
    /\ candles \in SUBSET Opens
    /\ now \in 0..MaxNow
    /\ args \in [start : 0..MaxNow, end : 1..MaxNow, limit : Limits, warmup : Warmups]
    /\ args.start < args.end
    /\ since = 0

Live ==
    /\ pc = "live"
    /\ candles = {}
    /\ now = 0
    /\ args = NoArgs
    /\ since \in {0, 1}

Init ==
    /\ Backtest \/ Live
    /\ trades = <<>> /\ fetch = NoRequest
    /\ pollSince = since /\ page = <<>> /\ seen = <<>> /\ emitted = <<>>
    /\ open = FALSE /\ bars = <<>>
    /\ workspace = FALSE /\ cid = "absent" /\ container = "none"

Goes == pc \notin Ended /\ Ticks

Requests == pc = "fetch" /\ FetchesPage /\ UNCHANGED harnessVars

Listing ==
    /\ pc = "live"
    /\ \E ts \in 0..now : \E key \in KeysAt(ts) : Lists(ts, key)
    /\ UNCHANGED harnessVars

Streaming == pc = "live" /\ Streams /\ UNCHANGED harnessVars

Next ==
    \/ Goes /\ UNCHANGED harnessVars
    \/ Listing \/ Streaming
    \/ Resolves \/ Requests \/ Selects \/ ProviderFails
    \/ ServerAnswers
    \/ EnsuresImage \/ WritesInputs \/ DockerRun \/ TimesOut

Spec == Init /\ [][Next]_vars

\* A consumer that takes its ticks keeps the poll going.
FairSpec == Spec /\ WF_vars(Streaming)
=============================================================================
