----------------------------- MODULE MetricHelper -----------------------------
(***************************************************************************)
(* The latency metrics of one service (metric_helper.go, metrics.go,       *)
(* metrics_exporter.go): consumers record span latencies, a cache of       *)
(* request contexts limits their cardinality and deletes the series of     *)
(* the contexts it evicts, and an update of the configuration replaces     *)
(* registry, histogram and HTTP server under the write lock.               *)
(*                                                                         *)
(* What a read lock spans is one step, guarded by the write lock.  The     *)
(* callbacks of the cache and the goroutine that runs the HTTP server take *)
(* no lock.  Registries, histograms and servers are numbered: number n is  *)
(* the registry, the histogram and the server of the n-th registration.    *)
(***************************************************************************)
EXTENDS Integers, FiniteSets

CONSTANTS
  Callers,      \* goroutines in ConsumeTraces
  Contexts,     \* request contexts of their spans
  Limit,        \* LimitPerService
  LabelSets,    \* label lists that CaptureAttributesInMetric may give
  FirstLabels,  \* the labels at start
  MaxCalls,     \* bound: calls of captureMetrics
  MaxExpiries,  \* bound: entries of the cache that expire
  MaxUpdates,   \* bound: updates of the configuration
  None

ASSUME MetricAssumption ==
  /\ Limit \in Int
  /\ FirstLabels \in LabelSets
  /\ None \notin LabelSets \cup Contexts
  /\ MaxCalls \in Nat
  /\ MaxExpiries \in Nat
  /\ MaxUpdates \in Nat

VARIABLES
  status,       \* of the process: running, panicked, exited
  captured,     \* the labels config.CaptureAttributesInMetric gives
  number,       \* of the current registry and histogram
  histogram,    \* the labels of the current histogram
  registered,   \* whether it is in its registry
  series,       \* the contexts it has observations of
  cached,       \* the contexts in the cache
  callbacks,    \* eviction callbacks that have not ended
  late,         \* history: contexts in series recorded when not in the cache
  calls,        \* calls made so far
  pc, context, labels,    \* of each caller
  builtFor,     \* history: number when the caller built its labels
  expiries, updates,      \* counts of both
  update,       \* where the refresh goroutine is in onUpdate
  newLabels,    \* its argument
  stopFailed,   \* history: the last stop of the exporter failed
  server,       \* exp.httpServer
  down,         \* servers on which Shutdown was called
  exporter,     \* where the goroutine of each start is
  picked,       \* the server it runs
  overtaken     \* history: a server was stopped before it was serving

registry == <<captured, number, histogram, registered>>
cache == <<cached, callbacks>>
observed == <<series, late>>
caller == <<calls, pc, context, labels, builtFor>>
updater == <<updates, update, newLabels, stopFailed>>
http == <<server, down, exporter, picked, overtaken>>

vars == <<status, registry, cache, observed, caller, expiries, updater, http>>

Starts == 1..(MaxUpdates + 1)

\* newProcessor registers the metrics and starts the exporter.
Init ==
  /\ status = "running"
  /\ captured = FirstLabels
  /\ number = 1
  /\ histogram = FirstLabels
  /\ registered = TRUE
  /\ series = {}
  /\ cached = {}
  /\ callbacks = {}
  /\ late = {}
  /\ calls = 0
  /\ pc = [c \in Callers |-> "idle"]
  /\ context = [c \in Callers |-> None]
  /\ labels = [c \in Callers |-> None]
  /\ builtFor = [c \in Callers |-> 0]
  /\ expiries = 0
  /\ updates = 0
  /\ update = "idle"
  /\ newLabels = None
  /\ stopFailed = FALSE
  /\ server = 1
  /\ down = {}
  /\ exporter = [s \in Starts |-> IF s = 1 THEN "spawned" ELSE "none"]
  /\ picked = [s \in Starts |-> 0]
  /\ overtaken = FALSE

Running == status = "running"

\* Mutant: readers do not wait for the writer.
NotWaiting == TRUE

\* A read lock can be had.
NoWriter == update = "idle"

-----------------------------------------------------------------------------
(* captureMetrics                                                          *)

Goto(c, step) == pc' = [pc EXCEPT ![c] = step]

Return(c) ==
  /\ Goto(c, "idle")
  /\ context' = [context EXCEPT ![c] = None]
  /\ labels' = [labels EXCEPT ![c] = None]
  /\ builtFor' = [builtFor EXCEPT ![c] = 0]

\* The cache exists from the first call on.  A hit is not held up by the
\* limit, so that Len does not matter to it.
Get(c, x) ==
  /\ Running
  /\ pc[c] = "idle"
  /\ calls < MaxCalls
  /\ calls' = calls + 1
  /\ context' = [context EXCEPT ![c] = x]
  /\ Goto(c, IF x \in cached THEN "buildKnown" ELSE "len")
  /\ UNCHANGED <<status, registry, cache, observed, labels, builtFor, expiries,
                 updater, http>>

\* cache.Len() < LimitPerService, after a miss.
Room(c) ==
  /\ Running
  /\ pc[c] = "len"
  /\ Cardinality(cached) < Limit
  /\ Goto(c, "build")
  /\ UNCHANGED <<status, registry, cache, observed, calls, context, labels,
                 builtFor, expiries, updater, http>>

TooManyContexts(c) ==
  /\ Running
  /\ pc[c] = "len"
  /\ Cardinality(cached) >= Limit
  /\ Return(c)
  /\ UNCHANGED <<status, registry, cache, observed, calls, expiries, updater,
                 http>>

\* buildLabels, under the read lock.
BuildLabels(c) ==
  /\ Running
  /\ pc[c] \in {"build", "buildKnown"}
  /\ NoWriter
  /\ labels' = [labels EXCEPT ![c] = captured]
  /\ builtFor' = [builtFor EXCEPT ![c] = number]
  /\ Goto(c, IF pc[c] = "build" THEN "set" ELSE "record")
  /\ UNCHANGED <<status, registry, cache, observed, calls, context, expiries,
                 updater, http>>

\* Tells callbacks under way apart.
NewId ==
  CHOOSE n \in 1..(MaxCalls + MaxExpiries) :
    \A callback \in callbacks : callback.id # n

\* A callback runs on a goroutine of its own and has read no pointer yet.
\* Mutant: no callback is called.
NoCallbacks(victims) == {}

Callbacks(victims) ==
  {[id |-> NewId, context |-> x, histogram |-> 0] : x \in victims}

Evict(victims) == callbacks' = callbacks \cup Callbacks(victims)

\* Mutant: the cache has no capacity.
NoVictims(x) == {{}}

\* Whom cache.Set(x) evicts: none while there is room or x is there, else one.
Victims(x) ==
  IF x \in cached \/ Cardinality(cached) < Limit
    THEN {{}}
    ELSE {{y} : y \in cached}

\* The entry evicted is the least recently used one, here any.
Set(c) ==
  /\ Running
  /\ pc[c] = "set"
  /\ \E victims \in Victims(context[c]) :
       /\ cached' = (cached \ victims) \cup {context[c]}
       /\ Evict(victims)
  /\ Goto(c, "record")
  /\ UNCHANGED <<status, registry, observed, calls, context, labels, builtFor,
                 expiries, updater, http>>

\* recordLatency, under the read lock.
Record(c) ==
  /\ Running
  /\ pc[c] = "record"
  /\ NoWriter
  /\ labels[c] = histogram
  /\ series' = series \cup {context[c]}
  /\ late' = IF context[c] \in cached THEN late ELSE late \cup {context[c]}
  /\ Return(c)
  /\ UNCHANGED <<status, registry, cache, calls, expiries, updater, http>>

\* With panics when the labels are not those of the histogram.
RecordPanics(c) ==
  /\ Running
  /\ pc[c] = "record"
  /\ NoWriter
  /\ labels[c] # histogram
  /\ status' = "panicked"
  /\ UNCHANGED <<registry, cache, observed, caller, expiries, updater, http>>

-----------------------------------------------------------------------------
(* Evictions                                                               *)

\* The cache's own goroutine deletes an entry whose time is over.
Expire(x) ==
  /\ Running
  /\ x \in cached
  /\ expiries < MaxExpiries
  /\ expiries' = expiries + 1
  /\ cached' = cached \ {x}
  /\ Evict({x})
  /\ UNCHANGED <<status, registry, observed, caller, updater, http>>

\* The callback evaluates p.metrics.latencyHistogram, without the lock.
ReadHistogram(callback) ==
  /\ Running
  /\ callback \in callbacks
  /\ callback.histogram = 0
  /\ callbacks' = (callbacks \ {callback})
                    \cup {[callback EXCEPT !.histogram = number]}
  /\ UNCHANGED <<status, registry, cached, observed, caller,
                 expiries, updater, http>>

\* DeletePartialMatch.  What is deleted from an earlier histogram is not seen.
DeleteSeries(callback) ==
  /\ Running
  /\ callback \in callbacks
  /\ callback.histogram # 0
  /\ callbacks' = callbacks \ {callback}
  /\ LET deleted == IF callback.histogram = number
                      THEN {callback.context} ELSE {}
     IN series' = series \ deleted /\ late' = late \ deleted
  /\ UNCHANGED <<status, registry, cached, caller, expiries,
                 updater, http>>

-----------------------------------------------------------------------------
(* onUpdate, under the write lock                                          *)

\* unregisterMetrics resets what it unregisters.
Unregister(newer) ==
  /\ Running
  /\ update = "idle"
  /\ updates < MaxUpdates
  /\ updates' = updates + 1
  /\ update' = "stop"
  /\ newLabels' = newer
  /\ registered' = FALSE
  /\ series' = {}
  /\ late' = {}
  /\ UNCHANGED <<status, captured, number, histogram, cache, caller, expiries,
                 stopFailed, http>>

\* Shutdown marks the server and closes the listeners it knows of; a goroutine
\* that serves returns.
Shutdown ==
  /\ down' = down \cup {server}
  /\ exporter' = [s \in Starts |->
                    IF exporter[s] = "serving" /\ picked[s] = server
                      THEN "ended" ELSE exporter[s]]
  /\ overtaken' = (overtaken \/ exporter[server] \notin {"serving", "ended"})
  /\ UNCHANGED <<server, picked>>

StopExporter ==
  /\ Running
  /\ update = "stop"
  /\ Shutdown
  /\ update' = "register"
  /\ UNCHANGED <<status, registry, cache, observed, caller, expiries, updates,
                 newLabels, stopFailed>>

\* Mutant: the new labels are taken first.
TakenBeforeStop == newLabels

Unlock == update' = "idle" /\ newLabels' = None

KeptOnStopError == captured

\* The metrics stay unregistered.
StopFails ==
  /\ Running
  /\ update = "stop"
  /\ Shutdown
  /\ stopFailed' = TRUE
  /\ captured' = KeptOnStopError
  /\ Unlock
  /\ UNCHANGED <<status, number, histogram, registered, cache, observed,
                 caller, expiries, updates>>

\* The new config is taken and the metrics are registered anew.
RegisterMetrics ==
  /\ Running
  /\ update = "register"
  /\ captured' = newLabels
  /\ number' = number + 1
  /\ histogram' = newLabels
  /\ registered' = TRUE
  /\ stopFailed' = FALSE
  /\ update' = "start"
  /\ UNCHANGED <<status, cache, observed, caller, expiries, updates,
                 newLabels, http>>

\* start serves the registry it is given on a server of its own.
\* Mutant: the server is kept.
SameServer == server

NewServer == number

StartExporter ==
  /\ Running
  /\ update = "start"
  /\ server' = NewServer
  /\ exporter' = [exporter EXCEPT ![number] = "spawned"]
  /\ Unlock
  /\ UNCHANGED <<status, registry, cache, observed, caller, expiries, updates,
                 stopFailed, down, picked, overtaken>>

-----------------------------------------------------------------------------
(* The goroutine of a start: ListenAndServe                                *)

\* exp.httpServer is evaluated when the goroutine runs, not when it is started.
\* A server on which Shutdown was called does not listen.
Pick(s) ==
  /\ Running
  /\ exporter[s] = "spawned"
  /\ picked' = [picked EXCEPT ![s] = server]
  /\ exporter' = [exporter EXCEPT ![s] =
                    IF server \in down THEN "ended" ELSE "listen"]
  /\ UNCHANGED <<status, registry, cache, observed, caller, expiries, updater,
                 server, down, overtaken>>

Proceed(s, from, to) ==
  /\ Running
  /\ exporter[s] = from
  /\ exporter' = [exporter EXCEPT ![s] = to]
  /\ UNCHANGED <<status, registry, cache, observed, caller, expiries, updater,
                 server, down, picked, overtaken>>

\* Mutant: a closed listener keeps the port.
TakenOnce == \E s \in Starts : exporter[s] \in {"track", "serving", "ended"}

PortTaken == \E s \in Starts : exporter[s] \in {"track", "serving"}

Listen(s) == ~PortTaken /\ Proceed(s, "listen", "track")

\* Any error but ErrServerClosed is logged with Fatal.
ListenFails(s) ==
  /\ Running
  /\ exporter[s] = "listen"
  /\ PortTaken
  /\ status' = "exited"
  /\ UNCHANGED <<registry, cache, observed, caller, expiries, updater, http>>

\* Serve tracks the listener, or closes it when Shutdown came first.
Serve(s) ==
  Proceed(s, "track", IF picked[s] \in down THEN "ended" ELSE "serving")

-----------------------------------------------------------------------------

CaptureMetrics(c) ==
  \/ Room(c)
  \/ TooManyContexts(c)
  \/ BuildLabels(c)
  \/ Set(c)
  \/ Record(c)
  \/ RecordPanics(c)

OnEviction ==
  \E callback \in callbacks : ReadHistogram(callback) \/ DeleteSeries(callback)

OnUpdate == StopExporter \/ StopFails \/ RegisterMetrics \/ StartExporter

ListenAndServe(s) ==
  Pick(s) \/ Listen(s) \/ ListenFails(s) \/ Serve(s)

Next ==
  \/ \E c \in Callers, x \in Contexts : Get(c, x)
  \/ \E c \in Callers : CaptureMetrics(c)
  \/ \E x \in Contexts : Expire(x)
  \/ OnEviction
  \/ \E newer \in LabelSets : Unregister(newer)
  \/ OnUpdate
  \/ \E s \in Starts : ListenAndServe(s)

Spec == Init /\ [][Next]_vars

-----------------------------------------------------------------------------

ExporterSteps ==
  {"none", "spawned", "listen", "track", "serving", "ended"}

Evictions == [id : 1..(MaxCalls + MaxExpiries), context : Contexts, histogram : 0..number]

TypeOK ==
  /\ status \in {"running", "panicked", "exited"}
  /\ captured \in LabelSets
  /\ number \in Starts
  /\ histogram \in LabelSets
  /\ registered \in BOOLEAN
  /\ series \subseteq Contexts
  /\ cached \subseteq Contexts
  /\ Cardinality(cached) <= Limit \/ cached = {}
  /\ callbacks \subseteq Evictions
  /\ late \subseteq series
  /\ calls \in 0..MaxCalls
  /\ pc \in [Callers -> {"idle", "len", "build", "buildKnown", "set",
                         "record"}]
  /\ context \in [Callers -> Contexts \cup {None}]
  /\ labels \in [Callers -> LabelSets \cup {None}]
  /\ builtFor \in [Callers -> 0..number]
  /\ expiries \in 0..MaxExpiries
  /\ updates \in 0..MaxUpdates
  /\ update \in {"idle", "stop", "register", "start"}
  /\ newLabels \in LabelSets \cup {None}
  /\ stopFailed \in BOOLEAN
  /\ server \in Starts
  /\ down \subseteq Starts
  /\ exporter \in [Starts -> ExporterSteps]
  /\ picked \in [Starts -> 0..number]
  /\ overtaken \in BOOLEAN

\* Labels built since the last registration are those of the histogram they
\* will index, also when updates fail half way: With panics only in a call
\* that an update came between buildLabels and recordLatency of.
LabelsFitUnlessUpdated ==
  \A c \in Callers :
    pc[c] \in {"set", "record"} /\ builtFor[c] = number =>
      labels[c] = histogram

\* Every series exported belongs to a context in the cache, or its deletion
\* from this histogram is under way, or it was recorded by a call whose
\* context had been evicted since the call looked it up: nothing else
\* gets past the cardinality limit.
SeriesKnown ==
  \A x \in series \ late :
    \/ x \in cached
    \/ \E callback \in callbacks :
         callback.context = x /\ callback.histogram \in {0, number}

\* Observations made before, between and after updates are in a histogram
\* that is in its registry, unless the exporter has failed to stop.
ObservationsServed == series # {} => registered \/ stopFailed

\* When an update is over and the HTTP goroutines have settled, the server
\* that serves is the one of the current registry.
CurrentRegistryServed ==
  /\ Running
  /\ update = "idle"
  /\ registered
  /\ \A s \in Starts : exporter[s] \in {"none", "serving", "ended"}
  => \E s \in Starts : exporter[s] = "serving" /\ picked[s] = number

\* The collector ends over a port in use only when an update stopped a server
\* that was not serving yet.
FatalOnlyWhenOvertaken == status = "exited" => overtaken

\* The strengthening the proofs need.  A call evicts at most once, so that an
\* id is left for every callback.
Pending == {c \in Callers : pc[c] \in {"len", "build", "set"}}

CacheInv ==
  /\ IsFiniteSet(cached) /\ IsFiniteSet(callbacks) /\ IsFiniteSet(Pending)
  /\ Cardinality(callbacks) + Cardinality(Pending) <= calls + expiries
  /\ \A c \in Callers :
       /\ pc[c] # "idle" => context[c] \in Contexts
       /\ pc[c] \in {"build", "set"} => Limit > 0

\* What an update leaves to readers, at each of its steps.
UpdateInv ==
  /\ histogram = captured
  /\ number <= updates + 1
  /\ server <= number /\ down \subseteq 1..server
  /\ update # "idle" => series = {} /\ newLabels \in LabelSets
  /\ update \in {"stop", "register"} => number <= updates /\ ~registered
  /\ update \in {"register", "start"} => server \in down
  /\ update = "start" => registered /\ server < number
  /\ update = "idle" => registered \/ stopFailed
  /\ update = "idle" /\ registered => server = number /\ server \notin down

Alive == {"spawned", "listen", "track", "serving"}

\* A server that was not stopped is run by the goroutine of its own start,
\* and while none was overtaken by no other.
ServerInv ==
  /\ server \notin down =>
       /\ exporter[server] \in Alive
       /\ exporter[server] # "spawned" => picked[server] = server
  /\ ~overtaken =>
       \A s \in Starts : exporter[s] \in Alive => s = server /\ server \notin down

MetricInv ==
  /\ TypeOK
  /\ CacheInv /\ UpdateInv /\ ServerInv
  /\ LabelsFitUnlessUpdated
  /\ SeriesKnown
  /\ FatalOnlyWhenOvertaken

\* "guard access to config.CaptureAttributesInMetric and latencyHistogram"
\* (the comment on rwMutex): labels recorded are those of the histogram.
NoLabelPanic == status # "panicked"
=============================================================================
