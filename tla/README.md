# A verification model of Tiros

Tiros measures IPFS: it uploads to and downloads from a Kubo node, requests
CIDs from public gateways, loads websites over HTTP and through Kubo, and
drives service worker gateways in a browser. Every result becomes a row in a
database. This directory holds TLA+ modules translated from the Go source,
TLC configurations that check them on small instances, and proofs that TLAPS
checks for every instance. Paths below are relative to the repository's root
(`src/` here).

## 1. Inventory

**Trace receiver** (`pkg/kubo/trace_receiver.go`). A gRPC server that Kubo
exports its OTLP spans to.
State: the matchers under a RWMutex, an unbuffered request channel, a shutdown
channel. Operations: `Export`, `Reset`, `Shutdown`, and the installation of a
matcher by `Upload` and `Download`. Hard: `Export` matches after the unlock,
blocks in its send, ignores its context; `Reset` drains without waiting.
Correct: a handler hands over only what was asked for, never stays blocked for
ever, and loses nothing of the running measurement.

**Kubo measurement loop** (`cmd/tiros/cmd_probe_kubo.go`, `pkg/kubo/kubo.go`).
State: the iteration, the running measurement and its parser goroutine, the
timer and the contexts. Operations: wait, upload, two downloads, resets,
inserts, shutdown. It drives the receiver and Kubo. Hard: three goroutines and
two timers per measurement, late and repeated traces, cancellation at any
point, deferred calls in reverse order. Correct: one row per measurement with
its own times, cold downloads, the run ends.

**Trace parsing** (`pkg/kubo/trace_parse.go`). Fills `UploadResult` and
`DownloadResult` from spans. Hard: which span is whose, and when a result is
complete.

**CID providers** (`pkg/cid_provider.go`). A static list with an unsynchronised
index, a shuffled embedded list with an atomic counter, a query of the
Bitswap sniffer's tables; two more that no command uses. Hard: concurrent
callers. Correct: a CID of the list, evenly.

**Gateway probe** (`cmd/tiros/cmd_probe_gateways.go`). Workers in an errgroup,
a refresher that replaces the gateway list under a mutex, shared providers and
a shared `err`. Hard: a list that changes under iteration, partial failure,
the end of the run. Correct: every gateway of the copy gets its passes, every
probe its row, and nothing is inserted after the close.

**Websites probe** (`cmd/tiros/cmd_probe_websites.go`, `pkg/ws`) with **provider
lookup** (`Kubo.FindProviders`). Two producers and a main loop over two
unbuffered channels. Hard: sends that watch nothing, two closings in any order,
lookups that break off and are retried, answers and lists that repeat an entry, a
Kubo that outlives the command and whose store must be cold. Correct: every
result is recorded, the providers of a site are those of one complete answer, and
a warm measurement has a known cause.

**Service worker probe** (`pkg/sw/serviceworker.go`,
`cmd/tiros/cmd_probe_serviceworker.go`). State: the requests of two DevTools
targets in maps under `listenMu`, three contexts, a wait group of body fetches,
and the loop of the command. Operations: one callback per event, a goroutine
per body, `isProbeDone` after every page event, `buildProbeResult`. Hard: the
events of two targets in any order, a listener attached late, a wait group that
grows while it is waited for, bodies that never come, and a timeout, a lost
browser and the final answer racing for the end. Correct: a row without an
error is final, each row is what the maps held whatever order they are visited
in, every probe ends with a row.

**Server timing** (`pkg/sw/server_timing.go`). One scan over the metrics of a
header fills parallel columns and scalar projections. Hard: repeated metrics,
ties, the system kept next to its time. Correct: the projections are those of
the whole header. (`ParseCacheStatus` in `pkg/utils.go` is a table.)

**Database clients** (`pkg/db/db.go`). A ClickHouse client with batch
inserters (flush every ten minutes, fifteen seconds to close), an NDJSON client
with a directory per minute, a no-op client.

**Commands** (`cmd/tiros/cmd.go`, `cmd_probe.go`) and **JavaScript
measurements** (`pkg/js`): flags, logging, scripts.

## 2. Modules

| Module | Models | Builds on |
|---|---|---|
| `TraceReceiver` | `trace_receiver.go` and the two statements that install a matcher | |
| `TraceReceiver_proofs` | theorems about the receiver with any client | extends `TraceReceiver` |
| `KuboProbe` | `cmd_probe_kubo.go`, `Upload`, `Download`, `Reset`, the parsers | extends `TraceReceiver` |
| `KuboProbe_proofs` | theorems about `KuboProbe` | extends it and `TraceReceiver_proofs` |
| `CIDProviders` | the static and the controlled provider | |
| `GatewayProbe` | `cmd_probe_gateways.go`, the sniffer's provider by its outcomes | extends `CIDProviders` |
| `GatewayProbe_proofs` | theorems about `GatewayProbe` and `CIDProviders` | extends `GatewayProbe` |
| `WebsitesProbe` | `cmd_probe_websites.go`, `WebsiteProbe.Run`, `FindProviders` | |
| `WebsitesProbe_proofs` | theorems about `WebsitesProbe` | extends `WebsitesProbe` |
| `ServerTiming` | `ParseServerTimings` | |
| `ServerTiming_proofs` | lemmas about one step of its scan | extends `ServerTiming` |
| `ServiceWorkerProbe` | `serviceworker.go`, `cmd_probe_serviceworker.go` | extends `ServerTiming` |
| `ServiceWorkerProbe_proofs` | theorems about `ServiceWorkerProbe` | extends it and `ServerTiming_proofs` |
| `MeasurementCycle` | what a command promises of its measurements, abstractly | implemented by three commands |
| `MC...` | the instances TLC checks | |

### TraceReceiver

`hpc` is where each `Export` call is: `arrived` before the read lock,
`matching` after the unlock with its snapshot `hsnap`, `sending` in the select.
A receive (`Deliver`) takes a blocked handler's request; `CloseShutdown` and
`CloseChan` are the statements of `Shutdown`, each with what it does to blocked
handlers. A select whose send case names a closed channel panics; with both
channels closed Go picks either case, so `MatchSpans` may go both ways.
`RecvSpec` is the receiver's protocol: handlers, and a client that has at most
one matcher installed and neither receives nor subscribes after the shutdown.
Dumping a request to a file and forwarding it touch no other state.

### KuboProbe

`pc` walks through `probeKuboAction`. A measurement is `hash` (`GetCID`, uploads
only), `subscribe` (matcher, parser goroutine, timer), `call` (the add or cat),
`collect` (wait for the parser), `clear` and `drain` (`Receiver.Reset`),
`insert`. `parser` holds the parser goroutine and how it ended, `timer`
`parseTimeout`, `expired` the context of a download. The deferred calls run
after the loop: `closeDB`, then `Shutdown`.

A span is its kind, the measurement that caused it (`op`) and its trace, so
that every field of a result and a row names its origin. Kubo exports a batch
at any time after the call that causes it, as often as it likes and in any
order, or never. The order of spans inside a batch is the order they ended in.

### CIDProviders

A call is broken into its memory accesses. The static index is a plain `int`:
where the source reads it again the build may reuse the register, so both values
are possible (`held`, `staticIdx`); `picked` is the CID a call read at its
beginning and returns at its end. The controlled provider adds and indexes in
two steps. A CID is its position in its provider's list. The 32-bit counter
overflows after 2^31 calls, which no run makes.

### GatewayProbe

`wpc` is where each worker is. `AssignErr` and `CheckErr` are separate steps
because `err` is the variable of `probeGatewaysAction` that every worker's
closure assigns. `CheckTornErr` is the data race itself: a read during another
worker's two-word store may pair the type of one error with the data of
another, which `errors.Is` dereferences. `gateways` is replaced by the
refresher (`RefreshFetch`, `RefreshSwap`) with any part of the table, as a
query whose rows end early is not an error. `pass` counts the four requests of
a gateway in the order of the two loops. A request is its success. A selection
(`selected`, and `cid` of a row) is a source and a CID of that source, the one the
provider's call returned; the sniffer answers with one of `SnifferCIDs`, with
`Undef`, or with an error and either of them.

### WebsitesProbe

`probes` is the flag, zero included, and `websites` the shuffled list, one of
`Lists`: it may be empty, and a site may be on it twice, as neither the flag nor the
query of the table rules that out. Rows of providers are counted for each
position of the list.
`ppc` and `slot` are `measureWebsites`, `slot` counting through its three loops;
`fpc`, `site`, `retry` and `pending` are `findAllProviders`; `mpc`, `open` and
`current` are the main loop. The sends are rendezvous (`SendProbe`,
`SendProvider`). An answer of Kubo (`Answers`) says how often each provider was
named: `FindProviders` appends every event to `providerPeers` and hands over all of
them. `pending` is what is left of it, `found` the answers that were read to their
end. `cached` is Kubo's block store, which holds anything when the command
starts; `leftover` is what was there then and, after the first `Kubo.Reset`, what
the last one failed to remove. What Chrome reports and the agents and
addresses of providers fill columns only.

### ServerTiming

`metrics` is the header, `at` how far the scan is, `timing` the row under
construction. A metric is its wire name, its duration and the first part of its
description; a nil metric is skipped, as in the code.

### ServiceWorkerProbe

`pc` walks through `probeServiceWorkerAction`: `select`, one turn of `gateway`
per gateway, then `Run` (`navigate` to `gateways`), the scan of the header
(`timings`) and `insert`. In `Run`, `listen` waits for the listener's context,
`waiting` and `woken` are the two halves of `WaitGroup.Wait` (blocked, and woken
but not yet past the check that panics when the counter has grown again), and
`routers` and `gateways` are the loops of `buildProbeResult`, which visit the
maps in any order with the lock held. `spin` is the loop over a body that
`json.Decoder` cannot read.

`ctx` is the probe's context and the browser's: alive, lost with the browser
(the probe's own context is not done then), or done with an error. chromedp
looks at a listener's context before each call; the callback it then calls may
wait for `listenMu` while the context ends, and runs all the same. `Called` is
that: a callback runs while the context is not done, and once more after
(`late`, bounded by `LateCalls`). `Listening` is where page events are heard,
`Heard` where the service worker's are; each page event ends with the verdict of
`isProbeDone` (`Asked`), which depends on the order in which it meets the final
documents. `target` is `handleAttachedToTarget`: enabled before it listens, so
that answers may be missed (`RequestFinishes` of a request never heard of).
`net` is what the browser has told of a request, `fetch` the goroutine of its
body. Requests are numbered in the order they are heard of; an answer is a
status (200, 404) and, from a gateway, a time to first byte, any integer: the
browser may give zero, which the loop also takes for "none yet". 499 is the
status of a cancelled request, -1 the number of providers when no router was
heard of. What a probe holds is dropped when `Run` returns (`Forget`), and what
only its callbacks still touch once the result is being built (`TakeLock`):
nothing reads it any more. A panic in `Run` or in `buildProbeResult` unwinds
through the deferred close of the database client (`panicking`, `CloseDB`).

### MeasurementCycle

The abstract specification: a goroutine is between two measurements, measuring,
or holds a measurement that is not recorded yet; it stops at any point; the
client is closed only when it has stopped. `CyclePhase` in `KuboProbe` and
`ServiceWorkerProbe` maps `pc` to these phases (`CycleSpec`); `GatewayProbe` maps
the `wpc` of each worker (`WorkersCycle`), and "closed" to the close by main.
The abstract steps say nothing of several goroutines, so that the refinement by
a worker holds only because main waits for the group. A measurement that
failed must become a row as well, except where the code returns.

## 3. Runs

| Run | Question | Bounds |
|---|---|---|
| `kubo_upload` | Do two uploads get their own, complete rows, one each, from late, repeated and reordered traces, and is the loop a client of the receiver's protocol? | 2 iterations, 1 handler, 10 batches |
| `kubo_handlers` | Do two handlers that race the subscription, the reset and the shutdown miss, keep or leak anything, panic only in the shutdown, and are downloads cold? | upload and 2 downloads, 2 CIDs, 2 handlers |
| `kubo_live` | Do handlers return, cancelled runs stop and downloads end, does a run record the iterations asked for, and whose lookups fill a row? | upload and 2 downloads, 1 handler, a lookup that meets both downloads |
| `kubo_failed_add` | Does a failed add continue? (it does not) | 1 upload |
| `kubo_found` | Are the provider times a download's own? (not always) | 2 downloads of one CID |
| `gateway_refresh` | Does each gateway get its passes while the list is replaced and workers fail? | 2 workers, 2 gateways, 1 iteration |
| `gateway_static` | Are providers shared soundly by workers, are the rows of an iteration of one CID, and does a run in which none failed end with every row? | 2 workers, 1 gateway, 2 iterations, 2 static and 2 controlled CIDs, no cancellation |
| `gateway_live` | Does a failure or a cancellation end an endless run? | 2 workers, 1 gateway |
| `static_race` | Does the static provider always return a CID? (it may panic) | as `gateway_static` |
| `gateway_shared_err` | Is every request for a CID? (not after a swallowed error) | 2 workers, 2 gateways |
| `websites` | Is every result recorded, are the providers those of one complete answer, is every send received whichever channel closes first, what makes a measurement warm, does a cancelled run end? | lists of 0 to 2 sites, one with a site twice, any store at the start, 1 provider named up to twice, up to 2 probes and 2 rounds |
| `sw_probe` | Do rows without an error hold the final answer, are the map loops independent of their order, which probes can meet the wait group's panic, does every probe and a cancelled command end? | 2 documents, 2 routers, 2 fetches (3 of them in one probe), 1 provider, times 0 to 2, late callback of the worker, 2 headers, 1 gateway, endless run |

Three runs also ask whether the command implements `MeasurementCycle`:
`kubo_upload` and `sw_probe` check `CycleSpec`, `gateway_refresh` `WorkersCycle`.

Why the bounds are enough. A hazard of the Kubo loop needs one measurement
that leaves something behind and one that meets it: two uploads, or two
downloads of one CID, and one iteration in mode `both` has an upload before
them. Two handlers are needed for one to block while the other is between its
snapshot and its send. Batches have one span or the pairs a parser could
confuse. Both races in the gateway probe need two workers, and `err` and the
index one call each; the second iteration lets an index left out of range be
read. Two gateways let one fail and the other go on. Four passes and three
retries are the code's own. `websites` has two sites so that one is looked up
while the other is measured; a warm measurement needs a site measured twice,
which two rounds, two probes of a list of one, or a list that repeats it give, or a
Kubo that was warm before. One provider named twice is enough for an answer with
more than one hand-over, between which main records and the other producer goes
on. `gateway_static` is not cancelled (`MayCancel`): its properties are about what
providers return and about runs that end well, and the other two passing gateway runs
have the cancellation. In `sw_probe` each of the
properties about order is a matter of two requests: two documents (a redirect
and the final one, or two final ones), two routers (any two statuses, a
success, an error and a cancellation in either order), two fetches (times that
differ, tie or are zero); a third request lets the kinds meet. `LateCalls` has the
service worker's listener only: its late event can start a fetch while `Run`
waits. The page's late event can at most change the documents of a probe that
already ends with an error or a lost browser, which no property of the run tells
apart; the theorems have both. One provider listed by two routers is counted
once or twice. The headers hold every code, a repeated resolve, ties of blocks
in both directions, a repeated provider and a nil. More gateways repeat the
same cycle with nothing carried over but the row, which is reset.
An endless run (`MaxIter = 0`) counts its iterations to one and keeps no rows,
which leaves its state finite without touching its control. Workers, gateways,
handlers, CIDs, sites and peers are symmetric in the safety runs;
no run that checks liveness uses symmetry.

## 4. Fairness

- `KuboProbe`: the measurement goroutine (every call has a deadline or answers),
  the parser's timer and cancellation, the expiry of a download, and each
  handler, parser receive and drain are weakly fair: the runtime schedules every
  goroutine and a channel serves blocked senders in order. Kubo owes nothing:
  `KuboExports` has no fairness. Neither has `Cancel`.
- `GatewayProbe`: the workers and the main goroutine are weakly fair, as
  requests, queries and inserts return. `StopWaiting` is strongly fair: in an
  endless run the timer is ready too each time the worker comes back to its
  select, and Go picks among ready cases at random. The refresher owes nothing.
- `WebsitesProbe`: the main loop is weakly fair and serves both senders (strong
  fairness of the two sends, for the same reason). Chrome and Kubo may hang in a
  measurement or a lookup, which have no deadline of their own; the producers
  are fair only once the context is cancelled.
- `ServiceWorkerProbe`: the loop, `Run` and the timeout are weakly fair. A body
  fetch is only sure to end once its context is done (`FetchStep` after the
  timeout, a cancellation or the loss of the browser). `StopIterating` is
  strongly fair, as in the gateway probe. The browser owes no event at all.

## 5. Proofs

Six modules hold proofs. Every theorem is for all values of the constants that
the named assumptions admit, and rests on nothing else. What is proved is
every safety property that a passing run checks, refinements included, and, of
each divergence of section 6, the condition under which it can occur. Only
model-checked are the liveness properties (`ExportReturns`, `CancelStops`,
`DownloadEnds`, `FailureStopsRun`, `ProbeEnds`, and `FailedAddContinues`, which is
refuted): they rest on fairness and `ENABLED`, which the prover does not handle.
Three safety properties are proved and have no run, because a refinement that a
run checks covers them: `NothingBlocksAfterShutdown` and `HandedOverWasAskedFor`
follow from `RecvSpec`, and that nobody is at work when the client is closed, the
point of `NoInsertAfterClose`, is part of `WorkersCycle`.

### TraceReceiver

Proved of `RecvSpec` alone, for every set of handlers, all requests and any
client that subscribes to one trace at a time and shuts down once, from
`RequestsAssumption`: `ReceiverTypes`, `ReceiverUnblocks` (no handler is blocked
after the shutdown), `ReceiverSparesBlocked` (closing the channel panics none
that was), `ReceiverHandsOverMatches` (what is handed over was asked for) and
`ReceiverPanicsLate` (only a shut down receiver panics a handler). The inductive
invariant `Receiver` adds what these need of each other: a handler past its
read has a matcher in its snapshot, trace 0 is never subscribed to, and the
request channel is closed after the shutdown channel.

### KuboProbe

For every set of handlers, requests and CIDs, every mode and every number of
iterations, from `RequestsAssumption` and `KuboAssumption` (spans carry the
trace of their measurement, the only-hash add of `GetCID` none):

- `TypeCorrect`: `TypeOK`.
- `QuietOutside`: outside a measurement no parser runs and no matcher is
  installed, during one only its own is.
- `KuboFollowsReceiver`: `Spec => RecvSpec`. The loop is a client of the
  receiver, so that `HandedOverIsAskedFor`, `BlockedExportSurvives` and
  `ExportPanicsLate` are the receiver's own theorems.
- `NothingBlocks`: no handler is blocked once the receiver is shut down.
- `NoTraceIsMissed`: a handler drops no span of the measurement in flight.
- `RowPerMeasurement`, `ProvideOfRowIsOwn`, `SuccessfulRowIsComplete`: the rows.
- `EndedRunIsComplete` (`RunsAsPlanned`): the rows are those of whole iterations,
  and a run that ends well has all it was asked for.
- `FoundIsOfSameCID`: provider times come from a lookup of the row's CID.
  `FoundIsOwnUnlessRepeated`: they are the row's own as long as no CID was
  downloaded twice, so that `kubo_found` needs what its run has.
- `DownloadsAreCold`: `ColdDownload`.
- `FailedAddWaits`: after a failed add, in a run that is not cancelled, only
  complete traces of the upload end its measurement; `kubo_failed_add` is the
  case in which they never come.
- `KuboCycles`: the loop implements `MeasurementCycle`.

The inductive invariant is built in layers. `Phases` ties `pc` to the parser, the
matchers and the two closed channels; `QuietOutsideMeasurements` alone is not
inductive because it says nothing of when the parser was started or the
receiver shut down. `Handlers` says that a handler which read the matcher of
measurement k holds no span of a later one, as those did not exist when its
request arrived: without it a handler could drop the trace of the running
measurement against an old snapshot. `Results` says that a result under
construction has only provides of the running upload, that `populated` means
both spans are there, and that an error recorded with a provide is flagged.
`Rows` carries this from the insert to every recorded row, with the number of
rows in each phase. `Plan` counts the measurements started (`Counted`): in each
phase their number is fixed by the iteration and the download reached, which
is what makes the kind of the next one known; the rows alone do not say how
many measurements the loop has left. `Founds` adds to the property where a
lookup comes from: those that handlers still hold are of downloads
(`LookupsOfDownloads`), since an upload of the same CID exports none. `Cold` says
in which phases Kubo's store holds no more than the last reset left:
`ColdDownload` speaks of one of them only. `Untimed` says that the timer of a
failed add is stopped. `NextIsReceiverStep` is the lemma that reduces every
step of the program to one receiver operation; the handler layer and
`KuboFollowsReceiver` are proved over it.

### GatewayProbe and CIDProviders

For every set of workers and gateways, both providers and every share, from
`GatewayAssumption` and `ProvidersAssumption`:

- `TypeCorrect`, from `Typed`: a worker that probes has a gateway.
- `ClosedAfterTheLast` (`NoInsertAfterClose`), from `Waited`: no worker exists
  before main has the list, and main closes after the last has returned.
- `OneCID` (`OneCIDPerIteration`), from `Dated`: no row is of an iteration to
  come, and those of the running one name the source and the CID that are selected
  now, whatever the calls of other workers do to the shared providers. The
  property alone does not say when the selection of a row was made.
- `ProbedInFull` (`GatewaysProbedInFull`), from `AllProgress`: for each worker,
  a gateway still to do has no row, a finished one all its passes or a failure,
  and the current one exactly the passes before `pass`. It is stated for
  `MaxIter # 0`, as an endless run keeps no rows in the model.
- `RunInFull` (`RunProbedInFull`), stated likewise: when no worker failed, every
  iteration has its rows. `ProbedInFull` speaks of the running iteration; `Whole`
  keeps it for the finished ones, `Copied` and `Fixed` say which gateways a
  worker's copy holds (all of them with `--gateways`, where no refresher runs), and
  `Started` that a worker past its first wait has begun an iteration.
- `StaticSettles`, from `Settled`: whatever updates the race loses, the
  index is in range once no caller is between its increment and its modulo.
- `OneWorkerGetsItsCID`, from the same: with one worker nothing panics
  (`StaticReturnsACID` holds and the process does not crash), so that
  `static_race` needs two.
- `RowsNameACIDWhereFailuresAreSeen`, from `Named`: every row names a CID if a
  failing selection is an error that nobody else overwrites
  (`FailuresAreSeen`: the sniffer is not asked, or it always answers, or its
  failures are errors and there is one worker). Each case excludes one cause
  of the refutation in `gateway_shared_err`.
- `ControlledEven`, from `Given`: what was served and what calls still owe
  adds up to the counter, divided over the list. The counter alone says
  nothing while calls are between their two steps.
- `WorkersFollowCycle`: every worker implements `MeasurementCycle`.

### WebsitesProbe

For every finite set of sites, every set of lists of them, every set of providers,
every number of probes, rounds and repetitions, from `WebsitesAssumption`:

- `TypeCorrect`, from `Typed`, which adds what the program counters say of the
  value main holds, of the positions of the producers and of the start.
- `Recorded` (`EveryResultIsRecorded`), from `Accounted`: the slots already
  handed over are those recorded, those failed and the one main holds. Without
  the last one a step of main would break the sum.
- `Received` (`SendsAreReceived`), from `Closed` and `Accounted`: main gives up a
  channel only when its producer has closed it, and not both while it runs.
- `RecordedAsFound` (`ProvidersAreThoseFound`), from `Kept` (`KeptAlways`) and
  `Closed` (`ClosedAlways`): for each position of the list and each provider, the
  rows, what main holds and what is pending add up to what the answer named.
  The property alone counts only the rows, which are behind while a hand-over is
  under way. `Reached` says that a position not yet looked up has no answer, so
  that a retry cannot add to one.
- `WarmForAReason` (`WarmHasAReason`), from `Warm`: a site whose blocks are in Kubo
  is left over, is that of a failed measurement, or is being measured; the
  property speaks of the start of a measurement only.

### ServerTiming and ServiceWorkerProbe

For every set of headers, of providers and of times, every number of requests,
gateways and iterations, from `HeadersAssumption` and `ServiceWorkerAssumption`:

- `TypeCorrect`, from `Typed`: a request that was answered, or whose body is
  being fetched, is tracked; `TypeOK` alone would let a body arrive for a request
  without an entry.
- `TimingsMatch` (`TimingsMatchHeader`): inductive by itself, over the lemmas of
  `ServerTiming_proofs` (`FirstStep`, `LeastStep`, `CountStep`), one for each
  kind of projection, which say what one more metric does to it.
- `RouterPrecedence`, `ProvidersCountedOnce`, `FastestKept`, from `BuildInv`:
  the result is untouched until the lock is taken (`Unbuilt`), the loop over the
  routers comes first and has the providers of what it has seen
  (`RoutersFirst`). Every order of visiting the maps is covered, and every set of
  times: `FastestKept` promises the shortest only where no success has time zero.
- `QuietIsFinal` (`QuietResultIsFinal`), from `ReturnInv`: a probe found done has
  a final document and keeps it (`FoundFinal`), since its page events stop;
  past `listen` one of the three contexts has ended (`Awaited`).
- `OnlyDoneRace` (`OnlyDoneProbesRace`), from `RaceInv` and `Awaited`: past `listen`
  the context is done or the probe was found done, so that a fetch that starts
  while `Run` is woken is one of a probe found done, whose worker is still heard,
  or that of the one late event. It holds for any `LateCalls`.
- `ServiceWorkerCycles`: the loop implements `MeasurementCycle`.

## 6. Divergences

Each of these is a run that TLC refutes:

- `kubo_failed_add`: after a failed add `Upload` stops its timer and waits for a
  parser that only that timer, complete traces or the end of the run would end
  (`kubo.go:241`); its comment promises to continue.
- `kubo_found`: a handler that is slower than `Receiver.Reset` blocks until the
  next measurement; if that downloads the same CID it takes the old provider
  times (`trace_parse.go:121`).
- `static_race`: between the increment and the modulo another worker indexes
  the list at its length (`cid_provider.go:56`).
- `gateway_shared_err`: a worker checks the `err` another worker has just set
  to nil and goes on without a CID (`cmd_probe_gateways.go:381`).

Others are in the models but have no run of their own: the add times of an
upload can be those of another `UnixfsAPI.Add` span in the same batch
(`trace_parse.go:39`, against "irrelevant traces are discarded"); a failed
`GetCID` makes `Upload` return nil, which `cmd_probe_kubo.go:316` reads; an empty
sniffer table is `cid.Undef` without an error (`cid_provider.go:118`), so the
`sql.ErrNoRows` branches are never taken; `--controlled.cids` is read nowhere;
`--lookup.providers` guards the measurements instead of the lookups
(`cmd_probe_websites.go:288`); "the next request to that website won't come from
the local kubo node cache" (README line 490) is not kept by a failed measurement,
which skips the reset (`cmd_probe_websites.go:313`), nor by the first measurements
of a run, as nothing is reset before them (143-183) and a cancelled run leaves what
it fetched (309), which `WarmHasAReason` names as its cases; and
`FindProviders` asks Kubo for its own identity instead of the provider's
(`kubo.go:472`).

Of the service worker probe, also in the model without a run of their own:

- A body that is not JSON makes the loop at `serviceworker.go:506` endless, as
  `More` stays true after a syntax error and `Decode` fails again: the lock is
  held for ever and no timeout applies, against "Timeout for each gateway
  request" (`cmd_probe_serviceworker.go:90`). `ProbeEnds` and `CancelStops` name
  this place (`spin`) as their exception.
- A finished request that increments the wait group while `Run` leaves its
  `Wait` panics the process (lines 329 and 430): of a probe found done, or of an
  event whose callback waited for the lock (392) when the timeout came. So does an
  answer without the optional `Timing` (519, 544), which lines 635 and 640 do check.
- A success of time zero is "none yet" to line 545, and any later success
  replaces it, against "Fastest TTFB from any successful trustless gateway
  request" (`db_models.go:197`); line 653 does guard against zero.
  `FastestFetchKept` states the rest.
- A lost browser, or a first document that never got an answer, gives a row
  without an error and, for the latter, with status 0; the column is "null if
  successful" (`db_models.go:200`). A gateway's 504 page is a row without an
  error too.
- The arrival of a body asks `isProbeDone` nothing (451): a probe that lacks
  only that ends by its timeout, with its error.
- A navigation that fails records 0 found providers, which elsewhere means that
  a router answered with none; -1 is the code's "no router".
- `cmd_probe_serviceworker.go:221` reads the controlled share of the gateway
  command.

## 7. Not modelled

- The database clients' insides. The batch inserters are imported, so what they
  hold and when they flush is not in this repository; to the commands an insert
  is recorded or fails. The JSON client's files, truncated by a restart within
  the minute (`db.go:307`), are left out.
- Of trace parsing: the first connected provider, IPNI and the discovery method,
  which choose among the values of a result's own spans
  (`trace_parse.go:153` keeps the discovery time of a provider it visited before
  if the one connected first has none, depending on the order of a map).
- Of the service worker probe: the hosts a `helia-config` in a URL adds, the
  routers' own time to first byte, what is copied from the final answer's
  headers, and `ParseCacheStatus`, a table.
- Of a server timing metric: provider, transport and trailing part.
- What a request, a span or a browser reports beyond success and origin.
- `KuboCIDProvider` and `NoopCIDProvider`: no command uses them.
- `sql.ErrNoRows` after `SelectCID` (`cmd_probe_kubo.go:370`,
  `cmd_probe_gateways.go:389`): no provider returns it.
- The parsers' "channel closed" branches: the receiver is shut down only after
  the loop.
- Commands, flags and logging; `pkg/js` and migrations, which have no control.

## 8. What is left

1. `RowStore`: a log of rows with flush, loss at the close and restart, once the
   source of the batch inserters is available to translate; the commands'
   inserts would be its clients, through `MeasurementCycle`'s `Record`.
2. The remaining choices of `trace_parse.go`, as operators over one result's
   spans with the map order left open.
3. The `helia-config` of a URL, which moves requests between the kinds the
   service worker probe knows while they are in flight.
