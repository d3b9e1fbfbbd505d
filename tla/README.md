# A TLA+ model of the Asserts OpenTelemetry processor

The Asserts processor is an OpenTelemetry collector processor. It enriches the
spans of every batch, derives latency metrics from them, and tail-samples the
traces: per service and request it keeps the slowest error traces and the
slowest slow traces in bounded queues, adds a normal trace now and then, and
flushes the queues to the next consumer on a ticker. Latency thresholds and the
processor's configuration are polled from the Asserts API server while it runs.

The modules in this directory are translated from the Go code in
`src/assertsprocessor`. TLC checks each of them on small instances. Every
invariant, every action property and every refinement a passing run checks is
also proved, for all values of the constants; liveness is only model-checked.
`PROJECT.json` lists the runs, the source lines behind every definition, the
hazards the properties are about, and a mutation of the code each property is
known to notice.

## 1. The system

### Components

| component | code | state | operations |
|---|---|---|---|
| trace queue | `priority_queue.go` | `priorityQueue` slice, `maxSize`, a mutex | `push` (on `container/heap`) |
| request states of a service | `service_queue.go` | map request -> two queues, `requestCount`, RW lock, cache of sampling states | `getRequestState`, `clearRequestStates`, `hasRoom` |
| periodic sampler | `periodic_sampler.go` | `lastSampleTime`, RW lock | `sample` |
| tail sampler, flusher | `sampler.go`, `trace.go` | map service -> request states, ticker, `stop` channel | `sampleTraces`, `captureNormalTraceSample`, flusher loop, `onUpdate` |
| threshold helper | `thresholds.go` | known entities, thresholds per entity, default, ticker, `stop` | `getThreshold`, asynchronous fetches, `onUpdate` |
| configuration refresh | `config_refresh.go`, `factory.go`, `config.go` | `config` pointer, ticker, `stop`, listeners | first fetch, poll, `updateConfig` |
| metric helper, metrics, exporter | `metric_helper.go`, `metrics.go`, `metrics_exporter.go` | registered metrics, labels, cache of request contexts per service, HTTP server | `captureMetrics`, eviction, `onUpdate`, start/stop |
| span enrichment | `span_enrichment.go`, `custom_attribute.go` | compiled rules under an RW lock | `enrichSpan`, `onUpdate` |
| processor | `processor.go` | the shared config | `Start`, `Shutdown`, `consumeTraces`, `onUpdate` |
| trace assembly | `utils.go`, `trace.go` | none | `convertToTraces`, `getMainSpan`, `buildTrace` |
| API client, keys | `asserts_client.go`, `keys.go` | none | `invoke`, key formatting |

### How they interact

- Any number of goroutines run `ConsumeTraces`: enrich, record metrics, then
  `sampleTraces`. They share every map, queue and counter above.
- One flusher goroutine takes a service's whole map of request states under the
  lock and then walks its queues **without** their mutexes.
- One config refresh goroutine calls `isUpdated`/`onUpdate` of five listeners in
  the order enricher, thresholds, metrics, processor, sampler. All of them read
  one shared `*Config` (`pConfig`); each guards its own field.
- One threshold goroutine starts another goroutine per tick; those store what
  the server answers.
- `Shutdown` starts senders on unbuffered `stop` channels.

### What is hard

- Check-then-act across a lock (`getRequestState`, `sample`, the caches).
- A queue looked up before the flusher swapped the map and pushed into later.
- The flusher's unlocked walk over a slice that a push may be changing.
- The sampler's mark on spans whose metrics were captured, and whose trace the
  flusher may be exporting.
- A batch abandoned in the middle because one service is full.
- Listeners that fail half way through an update; `cr.config` being `pConfig`
  itself until a first config is accepted.
- Limits at or below zero, which `Validate` lets through.
- Nothing persists, so there is no recovery; a panic, or a `Fatal` log line, ends
  the collector.

### What makes each component correct

- *Queue*: keeps the slowest traces pushed, up to the limit; drops only when full.
- *Request states*: one sampler per request between two flushes, at most
  `LimitPerService` of them, none lost; counter and map agree.
- *Periodic sampler*: about one sample per interval and request, no interval
  swallowed, the cache of sampling states within its limit.
- *Tail sampler*: a trace is queued at most once, and exported a second time only
  by the walk of a queue into which a late push goes; a queue that may hold
  something is flushed; what is flushed is the slowest; a batch is counted as a
  whole unless a service is full, and nothing is sampled behind the trace that
  met it.
- *Thresholds*: a lookup answers from one table in force; the thresholds the
  server settles on get used.
- *Configuration*: what was accepted is what is live; a refused config is tried
  again; labels and histogram agree.
- *Metric helper*: labels recorded fit the histogram; the metrics of an evicted
  request context are deleted; the cardinality limit holds; what is recorded is
  served.
- *Trace assembly*: every span leaves under the namespace and service it came with.
- *Enrichment*: the most specific rules that yield a value win, and one
  configuration enriches a span.
- *Life cycle*: after `Shutdown` all loops end.

## 2. Modules

| module | what it models |
|---|---|
| `TraceItems` | the traces a queue is given, their latencies, the configured limits and the cap of five |
| `TraceQueue` | what a queue promises: the kept items as a set |
| `HeapQueue` | slice, `container/heap` sift loops, `index` fields; implements `TraceQueue`, whose invariants therefore hold of it |
| `RequestRegistry` | what lookup and clear promise, without locks and counter |
| `RequestStates` | lookup and clear step by step: unlocked load, `hasRoom`, lock, second load, store, count; implements `RequestRegistry` |
| `PeriodicSampler` | `captureNormalSample`: the cache of sampling states of a service, the two looks of `sample`, and the clock |
| `Sampler` | consumers and flusher together, using `RequestRegistry` for each service and `TraceQueue`'s push |
| `ConfigRefresh` | creation, polling, the five listeners, acceptance, stop |
| `Thresholds` | lookups, ticks, overlapping fetches, stop |
| `MetricHelper` | `captureMetrics` of one service, its cache of request contexts, evictions, updates, the exporter's servers |
| `TraceAssembly` | pure: what a turn of `convertToTraces` makes of a span, the traces in the end, and what is exported of one |
| `SpanEnrichment` | pure: compiling span attributes, choosing rules, what they put on a span |
| `Processor` | `Start`, `Shutdown`, the loops, and `consumeTraces` turn by turn by way of the two modules above, with updates in between |
| `HeapQueueProofs` | theorems about `TraceQueue` and `HeapQueue` |
| `RequestStatesProofs`, `PeriodicSamplerProofs`, `SamplerProofs`, `ConfigRefreshProofs`, `ThresholdsProofs`, `MetricHelperProofs`, `ProcessorProofs` | theorems about the module each is named for |
| `MC*` | values of the constants for TLC |

### State and actions against the code

`TraceQueue`. `kept` is the content of `priorityQueue`, `pushed` is history.
`PushWithRoom`, `PushAtLimit`, `PopEmpty` are the branches of `pushUnsafe`;
`PopEmpty` is `heap.Pop` on an empty slice, which panics. The mutex spans all of
`push`, so a push is a step. `HeapQueue` has the slice as a sequence; `Up`,
`Down`, `HeapPush`, `MinLast` are `container/heap`, a library, modelled from how
`pushUnsafe` uses it. A loop of the library is a number of turns (`UpTurn`,
`DownTurn`), a turn after the loop's `break` changing nothing; `After` is the loop
after so many turns.

`RequestStates`. `requestStates`, `requestCount` and the write lock `writer` are
the fields of `serviceQueues`; `pc` says where each goroutine is. The first
`Load` takes no lock and can see the map between `Store` and `Count`, or between
`Swap` and `ResetCount`. In `RequestRegistry` a call takes effect at its load
(`Hit`, `Miss`) and, after a miss, at one later moment (`Find`, `Create`,
`Refuse`). A refusal may concern a request another goroutine has just
registered: `Refuse` has no condition on the request. That weakness is the
code's and is what `Sampler` has to live with.

`PeriodicSampler`. `entry` is the cache, a `ttlcache`, which is a library and
modelled from how the code uses it: `Get` does not find an expired entry, `Len`
counts it, `Set` replaces it and evicts an entry when the cache is full. The
library evicts the least recently used entry, the model any. The cache is never
started, so no action removes an expired entry. `Get`, `Room` or
`TooManyContexts`, and `Set` are the three separate calls of
`captureNormalSample`; `Due` or `NotDue`, and `Write`, are the two critical
sections of `sample`. The clock only moves forward. `made`, `lapsed` and
`grants` are history.

`Sampler`. `registry[s]` is the service's map, `kept` the content of every
queue ever made, `pc`, `traces`, `segment`, `span`, `requestState`, `sampled`
are the locals of a `sampleTraces` call. `Load`/`Resolve` are the lookup,
`GiveUp` the early `return`, `Scan` one span, `ResolveAgain`/`Due`/`NotDue`/
`DuePanics` are `captureNormalSample`, `Count` is `incrTotalCounts`. The
flusher's `Flush`, `Clear`, `OpenErrors`, `Export`, `EndFlush` follow its nested
loops. A push is in up to three steps: `Push`, in which an item is appended or,
at the limit, one is taken out by `heap.Pop`; then `HeapPush`, which appends the
winner of the two; and `Unlock`, when it has risen. `pushing` has the item that
is out of the slice meanwhile, so that a walk that begins between the two (`Open`)
ranges over a slice one shorter, `Slice`. Pushes that hit a queue
being walked are recorded in `raced` and `visible`. `Readings` lets such a walk
have read in each slot any of the items that were there: an item may be read in
two slots and exported twice, which `exports` counts, and another not at all. If
an item was popped, `ExportPanics` is the nil that `Pop` leaves. What a call
that meets a full service leaves behind it, `AfterRefusal`, is nothing: it
returns.
Whether a normal trace is due is a free choice here, which contains what
`PeriodicSampler` allows. An update of a threshold or of `ignoreClientErrors`
may come between any two steps.

`ConfigRefresh`. `pConfig` is the shared `*Config`; `accepted` is `cr.config`
once it is another object. Each listener's `isUpdated` and `onUpdate` are one
step (only this goroutine writes what it compares). `RulesRefused` is a rule
that does not compile, `StopError` an exporter that fails to stop, after the
metrics were unregistered. Labels that prometheus refuses end the process
(`Fatal`). Rules, label lists and bucket lists are opaque values.

`Thresholds`. `Call`, `Load`, `Answer` are the three accesses of
`getThreshold`; a fetch goroutine is `Tick`, `Respond` or `Fail`, one `Store`
per entity in any order, `EndFetch`. A server answer contains the entities it
has thresholds for; an entity it no longer has keeps its old thresholds, as in
the code.

`MetricHelper`. A consumer's call is `Get`, `Room` or `TooManyContexts`,
`BuildLabels` under one read lock, `Set`, and `Record` or `RecordPanics` under
another. `Expire` and `Set` start eviction callbacks, which read the histogram
(`ReadHistogram`) and later delete from it (`DeleteSeries`), without a lock. An
update holds the write lock from `Unregister` to `StopFails` or
`StartExporter`, and cannot be seen by readers in between, but by callbacks and
by the HTTP goroutines. Registry, histogram and server of one registration share
a number. The goroutine of a `start` is `Pick` (it evaluates `exp.httpServer`),
`Listen` or `ListenFails`, and `Serve`; the last three are `net/http`, modelled
from how the exporter uses it. Labels are the list of attribute names alone:
`With` panics when the list differs from the histogram's.

`TraceAssembly`, `SpanEnrichment`. Operators, not state machines. A batch is a
sequence of groups (`ResourceSpans`, the spans of all scopes in one sequence),
and a place in it is the number of a group and of a span in it. `traceById`
with the segments of its traces is one function, from the trace ID and what
`getSegment` compares; `AddSpan` is a turn of the innermost loop. The slices of
spans in a segment are sets and a trace is a set of segments: what this project
states does not depend on their order, except for `getMainSpan`, which `Sampler`
has with its sequences. Compiled rules are functions from targets and keys,
of which the last entry wins, as in the maps of the code. A service
key is the sequence of its parts where the code joins them with `#`; that
parts containing `#`, a service named like a namespace, or one named `default`
collide in the code is not modelled. A regular expression with its replacement
is a function on the tuples of values it matches.

`Processor`. `loops` are the goroutines of flusher, threshold helper and
refresh, `stops` the senders `Shutdown` leaves behind. `TakeSpan` is a turn of
the loops of `convertToTraces`, which come to the places of a batch in order;
`Assembled` is its return. A consumer then takes its spans in any order: traces
come out of a map, and the order within a trace, which the code fixes, is left
open because every span is enriched on its own. `BeginSpan` copies the compiled
rules under the read lock, each `EnrichAttribute` is a turn of the loop over
that copy, in any order, `AddContext` is the end of `enrichSpan`, `Capture` asks
for `CaptureMetrics` and records, `Hand` goes to the sampler or the next consumer.
With sampling the call then goes on in `sampleTraces`: `Mark` puts
`asserts.sample.type` on a span that is an error, slow, or the main span of a
normal sample (`sampler.go:89`, `102`, `171`), and `Return` is its end, which
may come early. Which spans of the batch are marked, with what and in which order
is left open; it contains what `Sampler` decides. `Working` is a consumer that
has not handed its batch over. The sampler and the metric helper are sets here:
their own modules start from what this one hands over.

## 3. Runs

| run | instance | shows |
|---|---|---|
| `heap_queue` | items with equal and distinct latencies, every push order; limits -1, 0, small, above 5 capped | heap order with `index`, and that the slice implements `TraceQueue`: the slowest are kept, only a full queue drops, only a limit of zero panics |
| `request_states` | two callers, three requests with a limit of two, two clears | the counter is the size of the map, samplers stay until they are flushed, refinement of `RequestRegistry`, every lookup returns |
| `periodic_sampler` | two goroutines, two requests and room for one, four states, interval 2, a clock that spans three intervals | no interval is swallowed, a goroutine is granted one sample per interval and makes one state per request, who is refused stays refused |
| `sampler` | two consumers, a service with room for one of two requests and for two items in a queue, three traces that may meet in one queue, one of them over both requests, late pushes, an update of the settings | queued once, exported twice only after a late push, flushed in full, batches settled, only registry steps, queued traces leave |
| `config_refresh` | nine configs and one with bad labels, an exporter that may fail to stop, two changes of what is served | refused updates are retried, accepted is live unless a stop failed, the served config goes live, stop works |
| `thresholds` | two entities, a caller, two overlapping fetches, a change of table, default or reachability | tables belong to their entity, answers come from one table in force, the cache catches up |
| `metric_helper` | two consumers, two contexts and room for one, two calls, an expiry, two updates, an exporter that may fail to stop | labels fit unless an update came between, no series without context in the cache or deletion under way, what is recorded is registered, the current registry is the one served, `Fatal` over the port only after a server was stopped before it served |
| `processor` | two consumers, three batches (two namespaces with a service of one name, two roots, two traces, no service, no namespace, no spans), two configurations, an update, a mark of the sampler, with and without sampling and endpoint | only earlier roots are lost, one configuration per span, metrics as exported but for the mark, loops end |

`periodic_sampler` also bounds what the code does *not* promise. `sample` leaves
`sampleNow` true although its second look fails (`periodic_sampler.go:19`), and
the lookup and `Set` of a state race (`sampler.go:147`), so that racing
goroutines may each be granted a normal trace of one interval;
`OneGrantPerPeriod` and `OneStatePerCaller` say that this is all that can
happen. A request that meets a full cache stays without normal traces, since
expired entries count and are never removed; `RefusedForGood` states it.

Four runs show a statement of the code's own comments that the code does not
keep. Their counterexamples were checked against the source by hand:

| run | statement | what happens |
|---|---|---|
| `flush_all_errors` | "Flush all the errors" (`sampler.go:233`) | a push into a queue taken before the push is never exported |
| `normal_trace_pushed` | "push to the latency queue to prioritize the healthy sample too" (`sampler.go:170`) | the second lookup returns nil after a flush and is dereferenced |
| `config_consumed` | "accepted only when all the listeners consume the config updates without error" (`config_refresh.go:76`) | a later listener overwrites the error |
| `label_panic` | "guard access to config.CaptureAttributesInMetric and latencyHistogram" (`metric_helper.go:38`) | the labels are built under one read lock and recorded under another; an update in between changes the histogram and `With` panics |

Further disagreements are in the models without a run of their own. The early
`return` for a full service (`sampler.go:74`) skips the total count of a trace
that an earlier segment has had sampled, and drops the rest of the batch, traces
of other services too; `TracesSettled` says that nothing else ends a call early,
and that of the traces left uncounted only the first can have been sampled.
An exported span carries `asserts.sample.type`, which the metrics captured of it
cannot have as a label unless it came with it or was configured as a custom
attribute; `CapturedAsExported` says that this mark is all.
A config without span attributes is compared by its custom attributes only
(`RulesUpdated`, `span_enrichment.go:123`), so that removed span attributes stay
compiled although the config is accepted; `SpanAttributesApplied` is about the
rules a config names. It also excepts a refresh in which the exporter has failed
to stop: that config is refused after its rules were compiled, and when the
server goes back to the accepted one nothing differs from it, so that the refused
rules stay. And "reverting to old config" (`metric_helper.go:259`)
never happens, since `metrics.go:98` logs a failed registration with `Fatal`:
the model has the process end there.

One property deserves a remark. `AcceptedIsLive` holds *because* of the
overwritten error: when bad rules come with another change the config is
accepted, so that `cr.config` agrees with what the other listeners took. Its
mutant keeps the first error, the obvious repair, and TLC shows that a config
that is half taken and then refused leaves values live that a return to the old
config does not undo. A repair has to roll back, or to compare with `pConfig`.

### Bounds, and why they are enough

- Two or three goroutines: the races are between one goroutine that looked and
  one or two that change what was seen.
- Two or three requests with a limit of one or two: enough to be full, to be
  emptied by a flush and to be filled by others.
- One service in `sampler` (396,289 states): with a second one the instance, which
  needs a full service and three pushes into one queue, is several times as large.
  The services share nothing but the flusher's order; the theorems about this
  module hold for any number of them, and `QueuedTraceLeaves`, which is only
  model-checked, is about one.
- `MaxCalls`, `MaxExpiries`, `Starts`: two calls are the one that builds labels or
  evicts and the one that is overtaken; one expiry is enough for a callback to
  run late, two updates for a goroutine of the first start to meet the server
  of the next.
- `SamplingStates`: four states are two per goroutine, so that each can make a
  second one.
- One update in `processor`: rules may change once, at any point of any span; the
  two configurations differ for every attribute, so that a mixture shows.
- `FirstServed` and `FirstDefault` fix what the threshold server and the first
  config have at the start; one change of it is enough for a fetch to be
  answered with the old table and another, or a lookup, to meet the new one.
- `MaxClears`, `MaxUpdates`, `MaxChanges`, `MaxTime` bound counters in the guards
  of the environment's or the flusher's steps; each is large enough for a
  goroutine to be overtaken by a flush (a change, an interval) and for another
  to follow.
- `Batches` fixes what consumers are called with; the batches contain a trace
  that is failed or slow by the settings, one over two requests, one that meets a
  full service in its second segment, one behind another in its batch, and a
  segment with internal spans only.
- `SampleTypes` has one value in `processor` (519,036 states): no property tells
  the three apart.
- Two fetches at a time: the HTTP client gives up after five seconds and ticks
  are a minute apart, so that even two are rare.
- Queue capacity up to the cap of five is covered in `heap_queue`; `sampler` uses
  two, at which a third push pops an item while the other is in its slot, so
  that a walk may read one item in two slots.

Deadlock is checked where the system does not end. It is off where calls, clears
or changes run out by their bound, or the process may end.

### Fairness

`FairSpec` assumes only that goroutines which can run do run and that tickers
keep ticking (WF). `RequestStates` needs SF of the callers' steps because a lock
that is free again and again is obtained: `sync.RWMutex` hands over in starvation
mode and a waiting writer holds back new readers. Taking a `stop` message needs
SF because `select` chooses at random among ready cases. Nobody is assumed to
call, to shut down or to update anything; nothing is assumed of the API server,
and the two convergence properties assume it settles in their premise. Liveness
of `Sampler` excepts a collector that has panicked or was stopped. `Processor`
assumes only that a running loop comes back to its `select`, where the sender of
`stop` waits; updates are bounded, so that WF is enough there.

## 4. Proofs

`tlapm` checks all proofs; nothing is left unproved in these modules.

`HeapQueueProofs`, from `LatencyAssumption` and `LimitsAssumption` of
`TraceItems`: `Latency \in [Items -> Int]` and `Limits \subseteq Int`. Neither
the number of items nor the length of the slice is bounded. The library's sift loops are proved from the
bottom. `LeastOf` (a nonempty set of numbers has a least one) gives induction
over the natural numbers for sets, `EveryNumber`, and with it `Loop`: a loop of any
number of turns exists and stays within what one turn keeps. The invariant of
`up` (`Rising`: in order but for the item on its way, whose children are no less than
its parent) and that of `down` (`Sinking`, likewise within the first `n` places) are
kept by each turn, and the item moves until it is settled, so `UpOrders` and
`DownOrders`: the loop leaves a heap. `Rearranged` follows the items through the
swaps: the same ones, each with its index. `RootIsLeast` is where the order of
neighbours becomes a least item, which `HeapPopTakesLeast` takes. `HeapInv` adds to
the checked invariants that an item not yet pushed has index 0, without which
`HeapOrdered` is not kept by a push that turns its own item away.
`HeapImplementsTraceQueue` maps every push to one of `TraceQueue`.

The same module proves what `TraceQueue` promises, of `TraceQueue`'s own
specification, with any state in the place of `kept`. `QueueInv` is the
conjunction of its five invariants and the finiteness of `kept`. It is
inductive as a whole: `KeepsSlowest` alone is not, since a queue that had dropped
a trace and has room again would let a faster one in; `DropsOnlyWhenFull` excludes
that. `HeapKeepsPromises` carries `QueueInv` over to the slice.

`RequestStatesProofs`, from `StatesAssumption` (the flusher is no caller, `None`
is none of the values, the limit is an integer, finitely many requests).
`StatesInv` adds to the checked invariants `WithinLimit` (never more requests
than the limit), `NoSamplerLost` (no sampler a caller holds is overwritten),
`LockInv` (who holds the lock is
where the lock is held), `CallInv` (what a call knows of its request) and
`CountInv` (the map is one ahead of the counter between `Store` and `Count`, and
empty between `Swap` and `ResetCount`), without which `CountIsSize` does not
survive `Count`. `SamplerStable` and the refinement of `RequestRegistry`
(initial states map to initial states, each step to a step or a stutter) follow
step by step from it.

`PeriodicSamplerProofs`, from `SamplerAssumption` (the clock is beyond the first
interval, finitely many requests). `SamplerInv` adds two strengthenings to what
is checked. `GrantInv`: a goroutine about to write that was already granted a
sample in this period will still find the period over; from it
`OneGrantPerPeriod`, and that a state's intervals are apart
(`PeriodsApart`). `MadeInv`: a state made for a request whose entry has not
lapsed is found, or about to be stored by its maker, so that no maker comes to
`Room` again; from it `OneStatePerCaller`. `RefusedForGood` follows from the
type invariant and the finiteness of the cache alone: `Len` never shrinks.

`SamplerProofs`, from `SamplerConstants` (the limits are integers and the one per
request is not zero, at which every push panics; segments are sequences of spans; `None` is
none of the values it stands beside) and `BatchesAssumption` (`convertToTraces`
makes every trace anew, so that no two calls and no two places of a batch share
one). Neither the number of consumers, services, requests or traces is bounded.
`SamplerInv` is the type invariant, `SampledOnce` and one conjunct per part:

- `ConsumerInv`: where a call is and what its locals hold there (`AtWork`). A state
  in a consumer's hand may be of a map that was flushed meanwhile.
- `RegistryInv`: a queue has the current epoch of its service only while it is
  in the service's map.
- `FlusherInv`: what the flusher walks and has still to walk was taken from a
  map and not walked before; what it sees of the open queue is all that is in
  it unless a push came late.
- `PushInv`: a queue has one pusher at a time, and a pusher that is not done when
  its queue is taken is late.
- `QueueInv`: a full queue keeps the slowest of what was pushed into it, no item is
  in two queues, and of a queue that was walked exactly the kept items are exported
  unless a push came late.
- `ExportInv`: what was exported of a trace was in a queue that was walked, and was
  exported once unless a push into that queue came late.
- `TraceInv`: a call has before it the end of its batch, has counted the traces in
  front of that and no other, and has sampled none of those ahead but the one it
  is at; when it was refused, the service of that trace was full (`WasFull`), and
  this is still so in every state after it (`FullStays`).

`SampledOnce` is not inductive alone: it says nothing of the traces a consumer
still has before it, which `TraceInv` does, nor in which queue an exported trace
was, which `ExportInv` does. That a walk of a queue without a late push exports no
item twice is that its readings are then a bijection from slots to items and no
two items of a queue are of one trace. `FlushedInFull` follows from `QueueInv`,
`TracesSettled` from `TraceInv`. `UsesRegistries` (no step does to a
service's map what `RequestRegistry` does not allow) is proved from the same
invariant action by action, for each service.

`ConfigRefreshProofs`, from `ConfigAssumption` (all configs have the same fields; the
local rules compile). `RefusedIsRetried` needs `RetryInv`, which says at every step
of a pass what the property says at its end: one of the listeners that failed
still finds the fetched config updated. `AcceptedIsLive` and
`SpanAttributesApplied` need `LiveInv`: the listeners that have had their turn
(`Passed`) have what the fetched config says, the others what `cr.config` says,
and all have the latter while an error is left, since then nothing was consumed.
The overwritten error is what makes this true.

`ThresholdsProofs`, from `ThresholdAssumption` (the default is an integer, `None` is no
threshold). `FetchInv` says that what a fetch is about to store for an entity the
server has had for that entity, `PastInv` that what it has now is part of that
history; from them `ThresholdsOfEntity`. `CallInv` says of a lookup between two
of its accesses that the current table and default are among those it has seen;
from it `AnswerFromItsTime`.

`MetricHelperProofs`, from `MetricAssumption` (the limit is an integer).
`CacheInv` bounds the eviction callbacks under way by the calls and expiries so
far: each needs a number of its own, and a call that may still evict
(`Pending`) has one left. `UpdateInv` says what an update leaves to readers at each of
its steps: which registry, histogram and server there are, and that the series are
gone. With it `LabelsFitUnlessUpdated`, `SeriesKnown` and `ObservationsServed` are
kept by every step. `ServerInv` says that a server that was not stopped is run by the
goroutine of its own start, and while none was overtaken by no other; from it
`CurrentRegistryServed` and `FatalOnlyWhenOvertaken`.

`ProcessorProofs`, for any number of consumers, batches, spans, configurations and
updates. The assumptions say what Go's types and `pdata` guarantee. `SpanAssumption`:
a span has a parent or not, and its attributes are a map. `EmptyAssumption`: the
empty string is none of `default`, `inbound`, `outbound`, `internal`.
`BatchesAssumption`: a batch is a sequence of sequences of spans, and a span is in
one place of one batch (the collector hands a batch to a processor that mutates
data, `processor.go:28`, for itself alone). `ConfigurationAssumption`: a
configuration is a sequence of entries with sequences of configs and rules.
`ProcessorAssumption`: the bound on updates is a number. `ProcessorInv` is the type
invariant and one conjunct per part:

- `AssemblyInv`: the segments a call has made are `SegmentsOf` the places it has come
  to, and these come before all others. `SegmentsOf` says what segments are without
  a loop: a place's spans by role, of root spans the last. That a turn keeps this is
  `TurnAddsPlace`; that the segments of all places export all spans but earlier
  roots, `AllButEarlierRoots`; that two traces share no trace ID, `TracesAreApart`.
- `BatchInv`: a batch is with one consumer or behind one, never both, so that nobody
  else touches its spans; the sampler has it if, and only if, its consumer has
  handed it over.
- `EnrichInv`: of a batch not yet received every span is as it came. Of one in work,
  what the consumer has begun satisfies `Enriched` by one configuration of
  `inForce`, and the rest is as it came. Of the span in work that holds of the
  attributes tried so far, in the order they were tried (`InOrder`).
- `CaptureInv`: a span with metrics still has the attributes they were captured
  with, but for the sampler's mark and only if the sampler has its batch, and no
  consumer has it ahead.

`Enriched` reads the configuration as it is written, `enrichSpan` the compiled
rules; `CompiledEntry`, `FirstValueYielded`, `OwnRulesFound` and `FoundAsConfigured`
show that both find the same value, `OneMoreTried` that a turn of the loop extends the
order by one attribute. `OnlyEarlierRootsLost` follows from `AssemblyInv`,
`SpanEnrichedByOneConfig` from `EnrichInv`, `CapturedAsExported` from `CaptureInv`,
each for the step that hands a batch over; neither `EnrichInv` nor `CaptureInv` is
kept without `BatchInv`.

Only model-checked: the liveness properties (`CallReturns`, `QueuedTraceLeaves`,
`ServedGoesLive`, `UpdatesStop`, `ThresholdsCatchUp`, `ShutdownEndsLoops`), which the
prover does not handle, and the four disagreements of section 3, which are
counterexamples.

## 5. Not modelled

- The trace and span counters (beyond their registration), scrapes, and the values
  of labels and latencies.
- More than one service in `MetricHelper`: the caches of two services share only
  the histogram, and a context of one never deletes series of the other.
- Key formatting, also what collides in a formatted key; regular expressions;
  HTTP and JSON details; logging.
- `custom_attributes` in `SpanEnrichment`: they come keyed by service already and
  are compiled rule by rule like span attributes (`ConfigRefresh` has both as
  opaque values).
- Which spans `sampleTraces` marks in `Processor`, and whether a span exported at
  the same moment already has the mark, which is a data race in the code: both
  are left open. What the mark may change is modelled.
- A slice header read in two pieces: the flusher's `range` reads pointer and length
  while a push may be writing them. `Sampler` has it read as one.
- Errors of the next consumer, which the code ignores.
- Values of a config that no listener compares (`LimitPerService` and others
  are read from the first config only).

## 6. Plan

Modelled and checked: every component but key formatting. Proved: every
invariant and every action property that a passing run checks, and the
refinements of `RequestRegistry` by request states and sampler and of
`TraceQueue` by the heap.

Left for later:

1. `FlushWalk`: the walk over a slice element by element against the element
   steps of `heap.Pop` and `heap.Push`, shown to implement `Readings` and
   `ExportPanics` of `Sampler`.
2. Counters of traces and spans across an update.
3. A composition of `Processor` and `Sampler`, in which the traces handed over are
   the ones sampled.
