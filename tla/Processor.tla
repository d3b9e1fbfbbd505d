------------------------------- MODULE Processor -------------------------------
(***************************************************************************)
(* The processor (processor.go): it starts and stops the background loops  *)
(* of its parts, and takes batches through trace assembly, enrichment,     *)
(* metrics and on to the sampler or the next consumer, while the refresh   *)
(* loop replaces what it enriches with.                                    *)
(*                                                                         *)
(* The sampler and the metric helper have modules of their own: here the   *)
(* one is a set of traces handed over and what it puts on their spans, the *)
(* other a set of spans captured.                                          *)
(***************************************************************************)
EXTENDS TraceAssembly, SpanEnrichment

CONSTANTS
  Consumers,       \* goroutines that may call ConsumeTraces
  Batches,         \* the batches that arrive, each once
  SpanAttributes,  \* values of the configuration's span_attributes
  SampleTypes,     \* what the sampler may put on a span: error, slow, normal
  MaxUpdates       \* bound: updates of the configuration

ASSUME ProcessorAssumption == MaxUpdates \in Nat

IsSequence(s) == Len(s) \in Nat /\ DOMAIN s = 1..Len(s)

\* A batch is a sequence of sequences of spans; a span, an object in memory, is
\* in one place of one batch.
ASSUME BatchesAssumption ==
  /\ \A b \in Batches :
       IsSequence(b) /\ \A i \in DOMAIN b : b[i].spans \in Seq(Spans)
  /\ \A b, d \in Batches : \A p \in Positions(b), q \in Positions(d) :
       SpanAt(b, p) = SpanAt(d, q) => b = d /\ p = q

\* A configuration is a sequence of entries, each with a sequence of configs,
\* each with a sequence of rules.
ASSUME ConfigurationAssumption ==
  \A config \in SpanAttributes :
    /\ IsSequence(config)
    /\ \A i \in DOMAIN config :
         /\ IsSequence(config[i].configs)
         /\ \A k \in DOMAIN config[i].configs :
              IsSequence(config[i].configs[k].rules)

VARIABLES
  status,          \* new, started, shut down
  sampleTraces,    \* config.SampleTraces
  endpoint,        \* whether an endpoint of the API server is configured
  loops,           \* the goroutines: off, running, ended
  stops,           \* the loops that a goroutine waits to send stop to
  customAttributes,   \* the span attributes the enricher has compiled
  captureMetrics,  \* config.CaptureMetrics
  updates,         \* count
  pc, batch,       \* of each consumer
  taken,           \* the places in it convertToTraces has come to
  segments,        \* what convertToTraces has made so far
  work,            \* the spans it has yet to enrich, or to sample
  current,         \* the span it enriches
  currentConfig,   \* its copy of customAttributes
  targets,         \* the attributes it has yet to try
  inForce,         \* history: customAttributes since its batch arrived
  attributes,      \* of each span
  captured,        \* spans with metrics, as they were then
  sampled,         \* history: batches the sampler has got, with their traces
  forwarded        \* batches the next consumer has got

lifecycle == <<status, sampleTraces, endpoint, loops, stops>>
settings == <<customAttributes, captureMetrics, updates>>
assembly == <<taken, segments>>
consumer == <<pc, batch, assembly, work, current, currentConfig, targets>>
output == <<captured, sampled, forwarded>>

vars == <<lifecycle, settings, consumer, inForce, attributes, output>>

\* AssertsTraceSampleTypeAttribute.
SampleType == "asserts.sample.type"

SamplerLoops == {"thresholds", "flusher"}
PollingLoops == {"thresholds", "refresh"}
Loops == SamplerLoops \cup PollingLoops

Init ==
  /\ status = "new"
  /\ sampleTraces \in BOOLEAN
  /\ endpoint \in BOOLEAN
  /\ loops = [l \in Loops |-> "off"]
  /\ stops = {}
  /\ customAttributes \in SpanAttributes
  /\ captureMetrics \in BOOLEAN
  /\ updates = 0
  /\ pc = [c \in Consumers |-> "idle"]
  /\ batch = [c \in Consumers |-> <<>>]
  /\ taken = [c \in Consumers |-> {}]
  /\ segments = [c \in Consumers |-> NoSegments]
  /\ work = [c \in Consumers |-> {}]
  /\ current = [c \in Consumers |-> <<>>]
  /\ currentConfig = [c \in Consumers |-> <<>>]
  /\ targets = [c \in Consumers |-> {}]
  /\ inForce = [c \in Consumers |-> {}]
  /\ attributes = [s \in Spans |-> Data[s].attributes]
  /\ captured = {}
  /\ sampled = {}
  /\ forwarded = {}

-----------------------------------------------------------------------------
(* Start and Shutdown                                                      *)

Start ==
  /\ status = "new"
  /\ status' = "started"
  /\ loops' = [l \in Loops |->
                 IF /\ l \in SamplerLoops => sampleTraces
                    /\ l \in PollingLoops => endpoint
                   THEN "running" ELSE "off"]
  /\ UNCHANGED <<sampleTraces, endpoint, stops, settings, consumer, inForce,
                 attributes, output>>

\* Mutant: the sampler stops its flusher only.
StopsFlusherOnly == {"refresh"} \cup (IF sampleTraces THEN {"flusher"} ELSE {})

\* The loops that are sent stop, whether they run or not.
Stopped == {"refresh"} \cup (IF sampleTraces THEN SamplerLoops ELSE {})

\* Each stop is sent by a goroutine of its own.  The collector stops what
\* feeds a processor before the processor.
Shutdown ==
  /\ status = "started"
  /\ \A c \in Consumers : pc[c] = "idle"
  /\ status' = "shutdown"
  /\ stops' = Stopped
  /\ UNCHANGED <<sampleTraces, endpoint, loops, settings, consumer, inForce,
                 attributes, output>>

TakeStop(l) ==
  /\ l \in stops
  /\ loops[l] = "running"
  /\ loops' = [loops EXCEPT ![l] = "ended"]
  /\ stops' = stops \ {l}
  /\ UNCHANGED <<status, sampleTraces, endpoint, settings, consumer, inForce,
                 attributes, output>>

-----------------------------------------------------------------------------
(* Updates of the configuration, which the refresh loop makes              *)

\* A consumer has a batch to enrich.
Working(c) == pc[c] \notin {"idle", "sample"}

MayUpdate ==
  /\ loops["refresh"] = "running"
  /\ updates < MaxUpdates
  /\ updates' = updates + 1

UpdateRules(spanAttributes) ==
  /\ MayUpdate
  /\ spanAttributes # customAttributes
  /\ customAttributes' = spanAttributes
  /\ inForce' = [c \in Consumers |->
                   IF Working(c) THEN inForce[c] \cup {spanAttributes} ELSE {}]
  /\ UNCHANGED <<lifecycle, captureMetrics, consumer, attributes, output>>

UpdateCaptureMetrics ==
  /\ MayUpdate
  /\ captureMetrics' = ~captureMetrics
  /\ UNCHANGED <<lifecycle, customAttributes, consumer, inForce, attributes,
                 output>>

-----------------------------------------------------------------------------
(* consumeTraces                                                           *)

Goto(c, step) == pc' = [pc EXCEPT ![c] = step]

Received(b) ==
  \/ b \in forwarded
  \/ \E s \in sampled : s.batch = b
  \/ \E c \in Consumers : pc[c] # "idle" /\ batch[c] = b

Receive(c, b) ==
  /\ status = "started"
  /\ pc[c] = "idle"
  /\ ~Received(b)
  /\ Goto(c, "assemble")
  /\ batch' = [batch EXCEPT ![c] = b]
  /\ inForce' = [inForce EXCEPT ![c] = {customAttributes}]
  /\ UNCHANGED <<lifecycle, settings, assembly, work, current, currentConfig,
                 targets, attributes, output>>

\* A turn of the loops of convertToTraces.
TakeSpan(c) ==
  LET b == batch[c]
      left == Visited(b) \ taken[c]
  IN
  /\ pc[c] = "assemble"
  /\ \E p \in left :
       /\ \A q \in left : ~Before(q, p)
       /\ taken' = [taken EXCEPT ![c] = @ \cup {p}]
       /\ segments' = [segments EXCEPT ![c] = AddSpan(@, SpanAt(b, p), b[p[1]])]
  /\ UNCHANGED <<lifecycle, settings, pc, batch, work, current, currentConfig,
                 targets, inForce, attributes, output>>

\* Mutant: internal spans are walked too.
EverySpan(made) == UNION {BuildTrace(t) : t \in TracesOf(made)}

\* The spans the loops over traces, segments and their spans come to.
NonInternal(made) ==
  UNION {{At(s, made[p]) : s \in NonInternalSpans(made[p])} : p \in DOMAIN made}

\* Mutant: that a batch may have no such span is forgotten.
StepUnchecked(todo) == "span"

StepFor(todo) == IF todo = {} THEN "hand" ELSE "span"

\* convertToTraces returns.
Assembled(c) ==
  /\ pc[c] = "assemble"
  /\ Visited(batch[c]) = taken[c]
  /\ work' = [work EXCEPT ![c] = NonInternal(segments[c])]
  /\ Goto(c, StepFor(NonInternal(segments[c])))
  /\ UNCHANGED <<lifecycle, settings, batch, assembly, current, currentConfig,
                 targets, inForce, attributes, output>>

\* enrichSpan up to its loop: the request type, and the rules under the read
\* lock.  The traces come out of a map; nothing depends on the order within one.
BeginSpan(c) ==
  /\ pc[c] = "span"
  /\ \E at \in work[c] :
       /\ current' = [current EXCEPT ![c] = at]
       /\ work' = [work EXCEPT ![c] = @ \ {at}]
       /\ attributes' = [attributes EXCEPT
            ![at.span] = AddRequestType(@, Data[at.span].kind)]
  /\ currentConfig' = [currentConfig EXCEPT ![c] = customAttributes]
  /\ targets' = [targets EXCEPT ![c] = DOMAIN Compile(customAttributes)]
  /\ Goto(c, "targets")
  /\ UNCHANGED <<lifecycle, settings, batch, assembly, inForce, output>>

\* Mutant: the rules are read again for each attribute.
LatestRules(c) ==
  IF DOMAIN Compile(customAttributes) = DOMAIN Compile(currentConfig[c])
    THEN customAttributes ELSE currentConfig[c]

\* The rules a consumer enriches its current span with.
RulesOf(c) == currentConfig[c]

\* A turn of enrichSpan's loop, which ranges over a map.
EnrichAttribute(c, target) ==
  LET at == current[c]
      byKey == Compile(RulesOf(c))[target]
      Value(attrs) == TargetValue(byKey, at.namespace, at.service,
                                  Data[at.span].kind, attrs)
  IN
  /\ pc[c] = "targets"
  /\ target \in targets[c]
  /\ attributes' =
       [attributes EXCEPT ![at.span] = EnrichTarget(@, target, Value(@))]
  /\ targets' = [targets EXCEPT ![c] = @ \ {target}]
  /\ UNCHANGED <<lifecycle, settings, pc, batch, assembly, work, current,
                 currentConfig, inForce, output>>

\* What enrichSpan leaves on the span.
AddContext(c) ==
  LET span == current[c].span IN
  /\ pc[c] = "targets"
  /\ targets[c] = {}
  /\ attributes' =
       [attributes EXCEPT ![span] = DefaultContext(@, Data[span].name)]
  /\ currentConfig' = [currentConfig EXCEPT ![c] = <<>>]
  /\ Goto(c, "metrics")
  /\ UNCHANGED <<lifecycle, settings, batch, assembly, work, current, targets,
                 inForce, output>>

Capture(c) ==
  /\ pc[c] = "metrics"
  /\ captured' =
       IF captureMetrics
         THEN captured \cup {[at |-> current[c],
                              attributes |-> attributes[current[c].span]]}
         ELSE captured
  /\ current' = [current EXCEPT ![c] = <<>>]
  /\ Goto(c, StepFor(work[c]))
  /\ UNCHANGED <<lifecycle, settings, batch, assembly, work, currentConfig, targets,
                 inForce, attributes, sampled, forwarded>>

\* consumeTraces returns.
Leave(c) ==
  /\ Goto(c, "idle")
  /\ batch' = [batch EXCEPT ![c] = <<>>]
  /\ taken' = [taken EXCEPT ![c] = {}]
  /\ segments' = [segments EXCEPT ![c] = NoSegments]
  /\ work' = [work EXCEPT ![c] = {}]

\* The traces go to the sampler, or the batch to the next consumer.
Hand(c) ==
  /\ pc[c] = "hand"
  /\ IF sampleTraces
       THEN /\ sampled' = sampled \cup {[batch |-> batch[c],
                                         traces |-> TracesOf(segments[c]),
                                         inForce |-> inForce[c]]}
            /\ work' = [work EXCEPT ![c] = NonInternal(segments[c])]
            /\ Goto(c, "sample")
            /\ UNCHANGED <<batch, assembly, forwarded>>
       ELSE /\ forwarded' = forwarded \cup {batch[c]}
            /\ Leave(c)
            /\ UNCHANGED sampled
  /\ inForce' = [inForce EXCEPT ![c] = {}]
  /\ UNCHANGED <<lifecycle, settings, current, currentConfig, targets, attributes,
                 captured>>

\* sampleTraces marks a span that is an error, slow or sampled as normal, be
\* its trace queued and flushed by then or not.  Which spans of the traces it
\* marks and how (see Sampler) is left open.
Mark(c) ==
  /\ pc[c] = "sample"
  /\ \E at \in work[c], type \in SampleTypes :
       /\ attributes' = [attributes EXCEPT ![at.span] = Put(@, SampleType, type)]
       /\ work' = [work EXCEPT ![c] = @ \ {at}]
  /\ UNCHANGED <<lifecycle, settings, pc, batch, assembly, current, currentConfig,
                 targets, inForce, output>>

\* sampleTraces returns, after the last trace or before.
Return(c) ==
  /\ pc[c] = "sample"
  /\ Leave(c)
  /\ UNCHANGED <<lifecycle, settings, current, currentConfig, targets, inForce,
                 attributes, output>>

-----------------------------------------------------------------------------

Lifecycle ==
  \/ Start
  \/ Shutdown
  \/ \E l \in Loops : TakeStop(l)

Refresh ==
  \/ \E a \in SpanAttributes : UpdateRules(a)
  \/ UpdateCaptureMetrics

Proceed(c) ==
  \/ TakeSpan(c)
  \/ Assembled(c)
  \/ BeginSpan(c)
  \/ \E target \in targets[c] : EnrichAttribute(c, target)
  \/ AddContext(c)
  \/ Capture(c)
  \/ Hand(c)
  \/ Mark(c)
  \/ Return(c)

Consume(c) == Proceed(c) \/ \E b \in Batches : Receive(c, b)

Next == Lifecycle \/ Refresh \/ \E c \in Consumers : Consume(c)

Spec == Init /\ [][Next]_vars

\* A running loop comes back to its select, where the sender of stop waits.
FairSpec == Spec /\ \A l \in Loops : WF_vars(TakeStop(l))

-----------------------------------------------------------------------------
(* Properties                                                              *)

\* A span with its namespace and service as it arrived.
Arrival(b, p) ==
  [span |-> SpanAt(b, p), namespace |-> b[p[1]].namespace,
   service |-> b[p[1]].service]

SpansOf(b) == {SpanAt(b, p) : p \in Positions(b)}

\* What convertToTraces is to keep: the spans of resources with a service.
Arrivals(b) ==
  {Arrival(b, p) : p \in {q \in Positions(b) : b[q[1]].service # NoService}}

\* Every variable has its type; in particular a consumer has spans to walk
\* exactly in the steps that are about one (consumeTraces, enrichSpan).
TypeOK ==
  /\ status \in {"new", "started", "shutdown"}
  /\ sampleTraces \in BOOLEAN /\ endpoint \in BOOLEAN
  /\ captureMetrics \in BOOLEAN
  /\ loops \in [Loops -> {"off", "running", "ended"}]
  /\ stops \subseteq Loops
  /\ customAttributes \in SpanAttributes
  /\ updates \in 0..MaxUpdates
  /\ \A c \in Consumers :
       /\ pc[c] \in {"idle", "assemble", "span", "targets", "metrics", "hand",
                    "sample"}
       /\ pc[c] # "idle" => batch[c] \in Batches
       /\ pc[c] = "span" => work[c] # {}
       /\ pc[c] \in {"idle", "assemble", "hand"} => work[c] = {}
       /\ work[c] \subseteq Arrivals(batch[c])
       /\ pc[c] \in {"targets", "metrics"} => current[c] \in Arrivals(batch[c])
       /\ pc[c] = "targets" => currentConfig[c] \in inForce[c]
       /\ targets[c] # {} => pc[c] = "targets"
       /\ inForce[c] \subseteq SpanAttributes
  /\ DOMAIN attributes = Spans
  /\ \A s \in Spans : DOMAIN Data[s].attributes \subseteq DOMAIN attributes[s]
  /\ forwarded \subseteq Batches
  /\ {s.batch : s \in sampled} \subseteq Batches

\* The root spans of a batch that another one of the same trace, namespace and
\* service follows.
EarlierRoots(b) ==
  LET roots == {p \in Positions(b) : ~Data[SpanAt(b, p)].hasParent}
      Of(p) == <<Data[SpanAt(b, p)].trace, b[p[1]].namespace, b[p[1]].service>>
  IN  {Arrival(b, p) : p \in {q \in roots : \E r \in roots :
                                Before(q, r) /\ Of(q) = Of(r)}}

\* All that the sampler gets can be exported as it came: every span of a
\* resource with a service, in its own trace and under its own namespace and
\* service.  Only a root span that another root of its segment follows is
\* lost (convertToTraces, buildTrace).
OnlyEarlierRootsLost ==
  [][\A h \in sampled' \ sampled :
       /\ UNION {BuildTrace(t) : t \in h.traces} =
            Arrivals(h.batch) \ EarlierRoots(h.batch)
       /\ \A t, u \in h.traces : \A x \in BuildTrace(t), y \in BuildTrace(u) :
            (t = u) = (Data[x.span].trace = Data[y.span].trace)]_sampled

\* What a configuration should make of a span, read from the configuration
\* as it is written.  What need not exist is a set of at most one element.
\*
\* Of configs for the same key the last counts.
RulesFor(configs, key) ==
  LET here == {i \in DOMAIN configs : ConfigKey(configs[i]) = key}
  IN  {configs[Max(here)].rules : i \in here}

Yields(rule, kind, attrs) ==
  LET values == [i \in DOMAIN rule.sources |-> attrs[rule.sources[i]]] IN
  /\ IF rule.kinds = {} THEN kind = "Server" ELSE kind \in rule.kinds
  /\ \A i \in DOMAIN rule.sources : rule.sources[i] \in DOMAIN attrs
  /\ values \in DOMAIN rule.value
  /\ rule.value[values] # NoValue

\* The value of the first rule that yields one.
FirstYield(rules, kind, attrs) ==
  {rules[i].value[[k \in DOMAIN rules[i].sources |-> attrs[rules[i].sources[k]]]] :
     i \in {j \in DOMAIN rules :
              /\ Yields(rules[j], kind, attrs)
              /\ \A k \in 1..(j - 1) : ~Yields(rules[k], kind, attrs)}}

\* The value an attribute gets: by the rules for the span's namespace and
\* service, else those for its namespace, else those for the service in any
\* namespace; and if these yield nothing, by those for all.
ValueFrom(configs, at, attrs) ==
  LET places == IF at.namespace = Absent THEN << <<at.service>> >>
                ELSE << <<at.namespace, at.service>>, <<at.namespace>>, <<at.service>> >>
      For(i) == RulesFor(configs, places[i])
      own == UNION {For(i) : i \in {j \in DOMAIN places :
                                      \A k \in 1..(j - 1) : For(k) = {}}}
      ValuesOf(lists) ==
        UNION {FirstYield(rules, Data[at.span].kind, attrs) : rules \in lists}
  IN  IF ValuesOf(own) # {} THEN ValuesOf(own)
      ELSE ValuesOf(RulesFor(configs, DefaultKey))

\* The request type a span arrives with or is given first.
Typed(span) ==
  LET kind == Data[span].kind
      arrived == Data[span].attributes
  IN  IF kind \notin {"Client", "Producer", "Server", "Consumer", "Internal"}
        THEN arrived
        ELSE Put(arrived, RequestType,
               IF kind \in {"Client", "Producer"} THEN "outbound"
               ELSE IF kind = "Internal" THEN "internal" ELSE "inbound")

\* Of several entries for one attribute the last counts.
Names(config) == {config[i].name : i \in DOMAIN config}

ConfigsFor(config, name) ==
  config[Max({i \in DOMAIN config : config[i].name = name})].configs

\* The orders names may be tried in, as the names tried before each.
Orders(names) ==
  {before \in [names -> SUBSET names] : \A m, n \in names :
     /\ n \notin before[n]
     /\ m \in before[n] => before[m] \subseteq before[n]
     /\ m # n => m \in before[n] \/ n \in before[m]}

\* What a span had with only some of the names given.
Given(span, names, attrs) ==
  [a \in DOMAIN Typed(span) \cup names |->
     IF a \in names THEN attrs[a] ELSE Typed(span)[a]]

\* The attributes after the names were tried in some order, each on what the
\* earlier ones gave.
InOrder(at, config, tried, attrs) ==
  \E before \in Orders(tried), gave \in SUBSET (tried \cap DOMAIN attrs) :
    /\ \A n \in tried :
         ValueFrom(ConfigsFor(config, n), at,
                   Given(at.span, before[n] \cap gave, attrs)) =
           IF n \in gave THEN {attrs[n]} ELSE {}
    /\ attrs = Given(at.span, gave, attrs)

Enriched(at, config, attrs) ==
  LET others == [a \in DOMAIN attrs \ {RequestContext} |-> attrs[a]] IN
  /\ RequestContext \in DOMAIN attrs
  /\ \/ InOrder(at, config, Names(config), attrs)
     \/ /\ InOrder(at, config, Names(config), others)
        /\ attrs[RequestContext] = Data[at.span].name

\* Every span the sampler gets was enriched by a single configuration, one
\* in force since its batch arrived, whatever updates came between; internal
\* spans are left alone (enrichSpan's copy of customAttributes).
SpanEnrichedByOneConfig ==
  [][\A h \in sampled' \ sampled : \A t \in h.traces : \A ts \in t :
       /\ \A s \in NonInternalSpans(ts) : \E config \in h.inForce :
            Enriched(At(s, ts), config, attributes[s])
       /\ \A s \in InternalSpans(ts) : attributes[s] = Data[s].attributes]_sampled

\* Attributes but for the mark of the sampler.
Unmarked(attrs) == [a \in DOMAIN attrs \ {SampleType} |-> attrs[a]]

\* A span has metrics under the namespace, service and attributes it goes to
\* the sampler with, the request context among them, and these stay as they
\* are whenever it is exported, but for the asserts.sample.type that the
\* sampler, and nobody before it, puts on the span (consumeTraces,
\* sampleTraces); neither an internal span nor a lost one has any.
CapturedAsExported ==
  [][/\ \A m \in captured :
          /\ Unmarked(attributes'[m.at.span]) = Unmarked(m.attributes)
          /\ attributes'[m.at.span] # m.attributes =>
               \E h \in sampled : m.at.span \in SpansOf(h.batch)
     /\ \A m \in captured' : RequestContext \in DOMAIN m.attributes
     /\ \A h \in sampled' \ sampled : \A m \in captured :
          m.at.span \in SpansOf(h.batch) =>
            /\ m.at \in UNION {BuildTrace(t) : t \in h.traces}
            /\ IsRoot(m.at.span) \/ IsEntry(m.at.span) \/ IsExit(m.at.span)]_vars

\* After Shutdown every loop ends and, with an endpoint, no goroutine is
\* left waiting to send stop (stopProcessing, stopUpdates).  Without one, the
\* stop of a loop that never started waits for ever.
ShutdownEndsLoops ==
  status = "shutdown" ~>
    /\ \A l \in Loops : loops[l] # "running"
    /\ endpoint => stops = {}

-----------------------------------------------------------------------------
(* What the proofs need besides                                            *)

Active(c) == pc[c] # "idle"

Enriching(c) == pc[c] \in {"targets", "metrics"}

\* What a consumer has begun to enrich of its batch.
Begun(c) ==
  IF pc[c] \in {"idle", "assemble"} THEN {} ELSE NonInternal(segments[c]) \ work[c]

\* Every variable of the consumers has a value for each.
EveryConsumer ==
  /\ DOMAIN pc = Consumers /\ DOMAIN batch = Consumers
  /\ DOMAIN taken = Consumers /\ DOMAIN segments = Consumers
  /\ DOMAIN work = Consumers /\ DOMAIN current = Consumers
  /\ DOMAIN currentConfig = Consumers /\ DOMAIN targets = Consumers
  /\ DOMAIN inForce = Consumers

\* The segments are those of the places taken, which were taken in order.
AssemblyInv ==
  \A c \in Consumers :
    /\ taken[c] \subseteq Visited(batch[c])
    /\ \A p \in taken[c] : \A q \in Visited(batch[c]) \ taken[c] : Before(p, q)
    /\ segments[c] = SegmentsOf(batch[c], taken[c])
    /\ ~Active(c) => taken[c] = {}
    /\ pc[c] \notin {"idle", "assemble"} => taken[c] = Visited(batch[c])
    /\ work[c] \subseteq NonInternal(segments[c])
    /\ Enriching(c) => current[c] \in NonInternal(segments[c]) \ work[c]

\* No batch is with two consumers; the sampler has it when it is to sample it.
BatchInv ==
  \A c \in Consumers : Active(c) =>
    /\ \A d \in Consumers \ {c} : Active(d) => batch[d] # batch[c]
    /\ batch[c] \notin forwarded
    /\ Working(c) => \A s \in sampled : s.batch # batch[c]
    /\ ~Working(c) => \E s \in sampled : s.batch = batch[c]

Untouched(s) == attributes[s] = Data[s].attributes

\* Nothing is put on a span before its batch is received.
UntouchedBefore ==
  \A b \in Batches : ~Received(b) =>
    \A p \in Positions(b) : Untouched(SpanAt(b, p))

\* What a consumer has begun is enriched by one configuration, but for the span
\* it is at, of which that holds of the attributes tried; the rest of its batch
\* is as it arrived.
EnrichedBy(c) ==
  /\ customAttributes \in inForce[c]
  /\ \A p \in Positions(batch[c]) :
       Arrival(batch[c], p) \notin Begun(c) => Untouched(SpanAt(batch[c], p))
  /\ \A at \in Begun(c) :
       \/ pc[c] = "targets" /\ at = current[c]
       \/ \E config \in inForce[c] : Enriched(at, config, attributes[at.span])
  /\ pc[c] = "targets" =>
       /\ targets[c] \subseteq Names(currentConfig[c])
       /\ InOrder(current[c], currentConfig[c],
                  Names(currentConfig[c]) \ targets[c],
                  attributes[current[c].span])

EnrichInv == UntouchedBefore /\ \A c \in Consumers : Working(c) => EnrichedBy(c)

\* A span with metrics was enriched, and nobody is to enrich it again; the
\* sampler marks none before it has it.
CaptureInv ==
  \A m \in captured :
    /\ Unmarked(attributes[m.at.span]) = Unmarked(m.attributes)
    /\ \/ attributes[m.at.span] = m.attributes
       \/ \E h \in sampled : m.at.span \in SpansOf(h.batch)
    /\ RequestContext \in DOMAIN m.attributes
    /\ \E b \in Batches : Received(b) /\ m.at \in Arrivals(b)
    /\ \A c \in Consumers :
         Working(c) /\ m.at.span \in SpansOf(batch[c]) =>
           m.at \in Begun(c) /\ (Enriching(c) => m.at # current[c])

ProcessorInv ==
  EveryConsumer /\ TypeOK /\ AssemblyInv /\ BatchInv /\ EnrichInv /\ CaptureInv
=============================================================================
