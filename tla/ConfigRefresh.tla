---------------------------- MODULE ConfigRefresh ----------------------------
(***************************************************************************)
(* The life of the collector configuration: newProcessor (factory.go)      *)
(* builds the components around one *Config, pConfig, and the refresh      *)
(* goroutine (config_refresh.go) polls the Asserts API server and hands    *)
(* every config it fetches to five listeners in a fixed order.  A listener *)
(* compares the config with cr.config and copies the fields it owns into   *)
(* pConfig, or compiles them.  cr.config becomes the fetched config when   *)
(* the error variable is nil at the end of the loop.                       *)
(*                                                                         *)
(* cr.config is pConfig itself until the first config is accepted, so that *)
(* until then a listener's copy changes what is compared next.             *)
(*                                                                         *)
(* A listener holds its own lock and shares no field with the others: its  *)
(* isUpdated and onUpdate are one step.  Readers of pConfig run between    *)
(* the steps.                                                              *)
(***************************************************************************)
EXTENDS Integers

CONSTANTS
  Configs,      \* configs the API server may serve
  Local,        \* the local collector config, valid by Validate
  BadRules,     \* attribute rules that do not compile
  BadLabels,    \* label lists prometheus refuses to register
  Empty,        \* an absent list or map
  MaxChanges,   \* bound: changes of what the API server answers
  None

Fields == {"SpanAttributes", "CustomAttributes", "Threshold", "Labels",
           "Buckets", "CaptureMetrics", "IgnoreClientErrors"}

ASSUME ConfigAssumption ==
  /\ MaxChanges \in Nat
  /\ None \notin Configs
  /\ \A config \in Configs \cup {Local} : DOMAIN config = Fields
  /\ Local.SpanAttributes \notin BadRules
  /\ Local.CustomAttributes \notin BadRules
  /\ Empty \notin BadRules

VARIABLES
  served,       \* what a GET of the config answers; None is an error
  changes,      \* how often that changed
  status,       \* of the process: new, running, refused, exited
  pConfig,      \* the fields the components share
  accepted,     \* cr.config, None while it is pConfig
  rules,        \* the enricher's compiled customAttributes
  histogram,    \* labels and buckets of m.latencyHistogram
  exposed,      \* whether the exporter serves the metrics
  step,         \* where the refresh goroutine is
  latestConfig, \* the argument of updateConfig
  err,          \* its variable err: not nil
  failed,       \* history: the listeners whose onUpdate failed this time
  stopFailed,   \* history: whether the exporter has ever failed to stop
  stop          \* whether stopUpdates waits to send

process == <<pConfig, accepted, rules, histogram, exposed>>
pass == <<latestConfig, err, failed, stopFailed>>
env == <<served, changes>>

vars == <<env, process, pass, status, step, stop>>

Listeners == {"enricher", "thresholds", "metrics", "processor", "sampler"}

\* factory.go appends the listeners in this order.
NextStep ==
  [enricher |-> "thresholds", thresholds |-> "metrics",
   metrics |-> "processor", processor |-> "sampler", sampler |-> "accept"]

Init ==
  /\ served \in Configs \cup {None}
  /\ changes = 0
  /\ status = "new"
  /\ pConfig = Local
  /\ accepted = None
  /\ rules = Empty
  /\ histogram = [labels |-> Empty, buckets |-> Empty]
  /\ exposed = FALSE
  /\ step = "idle"
  /\ latestConfig = None
  /\ err = FALSE
  /\ failed = {}
  /\ stopFailed = FALSE
  /\ stop = FALSE

\* An operator edits the configuration on the server, or a GET starts or stops
\* failing.
Serve(config) ==
  /\ changes < MaxChanges
  /\ config # served
  /\ served' = config
  /\ changes' = changes + 1
  /\ UNCHANGED <<process, pass, status, step, stop>>

\* Span attributes take the place of custom attributes.
RulesOf(config) ==
  IF config.SpanAttributes # Empty THEN config.SpanAttributes
                                   ELSE config.CustomAttributes

BucketsOver(config, old) ==
  IF config.Buckets # Empty THEN config.Buckets ELSE old

\* The fields of a fetched config that take precedence at start.
Merged(config) == [config EXCEPT !.Buckets = BucketsOver(config, Local.Buckets)]

HistogramFor(config) == [labels |-> config.Labels, buckets |-> config.Buckets]

\* newProcessor: the first fetch, the rules, the metrics, the exporter.
NewProcessor ==
  LET config == IF served = None THEN Local ELSE Merged(served) IN
  /\ status = "new"
  /\ pConfig' = config
  /\ \/ /\ RulesOf(config) \in BadRules
        /\ status' = "refused"
        /\ UNCHANGED <<rules, histogram, exposed>>
     \/ /\ RulesOf(config) \notin BadRules
        /\ rules' = RulesOf(config)
        /\ histogram' = HistogramFor(config)
        /\ IF config.Labels \in BadLabels
             THEN status' = "exited" /\ exposed' = FALSE
             ELSE status' = "running" /\ exposed' = TRUE
  /\ UNCHANGED <<env, pass, accepted, step, stop>>

\* What isUpdated compares the fetched config with.
Config == IF accepted = None THEN pConfig ELSE accepted

\* Mutant: custom attributes are compared even when span attributes are there.
OnlyCustomUpdated(config) == Config.CustomAttributes # config.CustomAttributes

\* isUpdated of the enricher.  Span attributes that are gone are no update.
RulesUpdated(config) ==
  IF config.SpanAttributes # Empty
    THEN Config.SpanAttributes # config.SpanAttributes
    ELSE Config.CustomAttributes # config.CustomAttributes

\* isUpdated of each listener.
Updated(l, config) ==
  \/ l = "enricher" /\ RulesUpdated(config)
  \/ l = "thresholds" /\ Config.Threshold # config.Threshold
  \/ /\ l = "metrics"
     /\ \/ Config.Labels # config.Labels
        \/ config.Buckets # Empty /\ Config.Buckets # config.Buckets
  \/ l = "processor" /\ Config.CaptureMetrics # config.CaptureMetrics
  \/ l = "sampler" /\ Config.IgnoreClientErrors # config.IgnoreClientErrors

\* A tick.  A fetch that fails changes nothing and is no step.
Fetch ==
  /\ status = "running"
  /\ step = "idle"
  /\ served # None
  /\ latestConfig' = served
  /\ err' = FALSE
  /\ failed' = {}
  /\ step' = "enricher"
  /\ UNCHANGED <<env, process, status, stopFailed, stop>>

Turn(l) ==
  /\ status = "running"
  /\ step = l
  /\ step' = NextStep[l]
  /\ UNCHANGED <<env, latestConfig, stop>>

NotUpdated(l) ==
  /\ Turn(l)
  /\ ~Updated(l, latestConfig)
  /\ UNCHANGED <<process, status, err, failed, stopFailed>>

\* Mutant: an earlier error is kept, and a config half of which was taken is
\* refused.
KeepsError == err' = err

\* onUpdate returned nil, which overwrites an earlier listener's error.
Consumed == err' = FALSE

NotConsumed(l) ==
  /\ err' = TRUE
  /\ failed' = failed \cup {l}

EnrichSpans ==
  /\ Turn("enricher")
  /\ Updated("enricher", latestConfig)
  /\ RulesOf(latestConfig) \notin BadRules
  /\ rules' = RulesOf(latestConfig)
  /\ Consumed
  /\ UNCHANGED <<pConfig, accepted, histogram, exposed, status, failed,
                 stopFailed>>

\* Every rule of an attribute and service is validated before one is compiled,
\* and the compiled map is dropped at the first error.
RulesRefused ==
  /\ Turn("enricher")
  /\ Updated("enricher", latestConfig)
  /\ RulesOf(latestConfig) \in BadRules
  /\ NotConsumed("enricher")
  /\ UNCHANGED <<process, status, stopFailed>>

\* The listeners that copy one field.
FieldOf ==
  [thresholds |-> "Threshold", processor |-> "CaptureMetrics",
   sampler |-> "IgnoreClientErrors"]

CopyField(l) ==
  /\ Turn(l)
  /\ Updated(l, latestConfig)
  /\ pConfig' = [pConfig EXCEPT ![FieldOf[l]] = latestConfig[FieldOf[l]]]
  /\ Consumed
  /\ UNCHANGED <<accepted, rules, histogram, exposed, status, failed,
                 stopFailed>>

\* The fields the metric helper takes over.
WithMetrics(config) ==
  [pConfig EXCEPT !.Labels = config.Labels,
                  !.Buckets = BucketsOver(config, pConfig.Buckets)]

\* The exporter stops, the metrics are registered anew, the exporter starts.
\* A label list that cannot be registered is logged with Fatal.
RegisterMetrics ==
  LET config == WithMetrics(latestConfig) IN
  /\ Turn("metrics")
  /\ Updated("metrics", latestConfig)
  /\ pConfig' = config
  /\ histogram' = HistogramFor(config)
  /\ IF latestConfig.Labels \in BadLabels
       THEN status' = "exited" /\ exposed' = FALSE
       ELSE status' = status /\ exposed' = TRUE
  /\ Consumed
  /\ UNCHANGED <<accepted, rules, failed, stopFailed>>

\* The config a failed stop leaves.
KeptOnStopError == pConfig

\* stopExporter has unregistered the metrics when the server fails to stop.
StopError ==
  /\ Turn("metrics")
  /\ Updated("metrics", latestConfig)
  /\ exposed' = FALSE
  /\ stopFailed' = TRUE
  /\ pConfig' = KeptOnStopError
  /\ NotConsumed("metrics")
  /\ UNCHANGED <<accepted, rules, histogram, status>>

\* Mutants: a config is accepted whatever happened, or only the first time,
\* or cr.config stays the config the listeners write to.
AcceptAlways == latestConfig
AcceptShared == IF err THEN accepted ELSE pConfig
AcceptFirst == IF accepted = None THEN latestConfig ELSE accepted

\* cr.config after the loop.
AcceptedConfig == IF err THEN accepted ELSE latestConfig

Accept ==
  /\ status = "running"
  /\ step = "accept"
  /\ accepted' = AcceptedConfig
  /\ step' = "idle"
  /\ UNCHANGED <<env, pass, pConfig, rules, histogram, exposed, status, stop>>

\* Shutdown: a goroutine waits to send on the unbuffered channel.
StopUpdates ==
  /\ status = "running"
  /\ ~stop
  /\ stop' = TRUE
  /\ UNCHANGED <<env, process, pass, status, step>>

\* Mutant: the message is taken in the middle of a pass only.
BetweenListeners == step \in Listeners

AtSelect == step = "idle"

\* The select takes the message.
TakeStop ==
  /\ status = "running"
  /\ AtSelect
  /\ stop
  /\ stop' = FALSE
  /\ step' = "stopped"
  /\ UNCHANGED <<env, process, pass, status>>

Refresh ==
  \/ Fetch
  \/ \E l \in Listeners : NotUpdated(l)
  \/ EnrichSpans
  \/ RulesRefused
  \/ \E l \in DOMAIN FieldOf : CopyField(l)
  \/ RegisterMetrics
  \/ StopError
  \/ Accept

Next ==
  \/ \E config \in Configs \cup {None} : Serve(config)
  \/ NewProcessor
  \/ Refresh
  \/ StopUpdates
  \/ TakeStop

Spec == Init /\ [][Next]_vars

\* The ticker keeps ticking and the goroutine keeps running; a select with two
\* ready cases picks either at random.  Nothing makes the server answer, nor
\* anyone call Shutdown.
FairSpec ==
  /\ Spec
  /\ WF_vars(NewProcessor)
  /\ WF_vars(Refresh)
  /\ SF_vars(TakeStop)

-----------------------------------------------------------------------------

TypeOK ==
  /\ served \in Configs \cup {None}
  /\ changes \in 0..MaxChanges
  /\ status \in {"new", "running", "refused", "exited"}
  /\ DOMAIN pConfig = Fields
  /\ accepted \in Configs \cup {None}
  /\ rules \notin BadRules
  /\ DOMAIN histogram = {"labels", "buckets"}
  /\ exposed \in BOOLEAN
  /\ step \in Listeners \cup {"idle", "accept", "stopped"}
  /\ latestConfig \in Configs \cup {None}
  /\ step \in Listeners \cup {"accept"} => latestConfig # None
  /\ err \in BOOLEAN
  /\ failed \subseteq Listeners
  /\ stopFailed \in BOOLEAN
  /\ stop \in BOOLEAN

AtRest == status = "running" /\ step = "idle"

\* When a config is refused, the next fetch of the same config tries again:
\* a listener that failed still finds it updated.
RefusedIsRetried ==
  AtRest /\ err => \E l \in failed : Updated(l, latestConfig)

\* Unless the exporter has ever failed to stop, cr.config and the fields the
\* components read agree after every pass, and rules that did not compile keep
\* nothing else from being consumed.
AcceptedIsLive ==
  AtRest /\ ~stopFailed =>
    /\ exposed
    /\ \A field \in {"Threshold", "Labels", "CaptureMetrics",
                     "IgnoreClientErrors"} :
         pConfig[field] = Config[field]
    /\ Config.Buckets # Empty => pConfig.Buckets = Config.Buckets

\* Span attributes that compile are applied once they are accepted, whatever
\* sets of rules, good or bad, were served before.  When the exporter fails to
\* stop, the rules of the refused config stay applied.
SpanAttributesApplied ==
  /\ AtRest /\ ~stopFailed
  /\ Config.SpanAttributes \notin {Empty} \cup BadRules
  => rules = Config.SpanAttributes

\* The strengthening the proofs need.  Nothing happened before the start.
StartInv == status = "new" => step = "idle" /\ accepted = None /\ ~err

\* An error that is left is one of a listener whose field is as it was.
RetryInv == err => \E l \in failed : Updated(l, latestConfig)

\* What a listener owns agrees with a config.
LiveFor(l, config) ==
  /\ l = "enricher" /\ config.SpanAttributes \notin {Empty} \cup BadRules =>
       rules = config.SpanAttributes
  /\ l = "metrics" =>
       /\ pConfig.Labels = config.Labels
       /\ config.Buckets # Empty => pConfig.Buckets = config.Buckets
  /\ l \in DOMAIN FieldOf => pConfig[FieldOf[l]] = config[FieldOf[l]]

\* The listeners that have had their turn.
Passed ==
  CASE step = "thresholds" -> {"enricher"}
    [] step = "metrics"    -> {"enricher", "thresholds"}
    [] step = "processor"  -> {"enricher", "thresholds", "metrics"}
    [] step = "sampler"    -> Listeners \ {"sampler"}
    [] step = "accept"     -> Listeners
    [] OTHER               -> {}

\* Those have what the fetched config says, the others what cr.config says;
\* all do while an error is left, as then nothing was consumed.
LiveInv ==
  status = "running" /\ ~stopFailed =>
    /\ exposed
    /\ \A l \in Listeners :
         /\ l \in Passed => LiveFor(l, latestConfig)
         /\ l \notin Passed \/ err => LiveFor(l, Config)

ConfigInv == TypeOK /\ StartInv /\ RetryInv /\ LiveInv

\* What is live agrees with a config, but for rules that cannot be.
Live(config) ==
  /\ \A field \in {"Threshold", "Labels", "CaptureMetrics",
                   "IgnoreClientErrors"} :
       pConfig[field] = config[field]
  /\ config.Buckets # Empty => pConfig.Buckets = config.Buckets
  /\ config.SpanAttributes \notin {Empty} \cup BadRules =>
       rules = config.SpanAttributes

\* A config the API server settles on goes live in a process that is not
\* shut down and whose exporter does not fail to stop, whatever was served,
\* accepted or refused before.
ServedGoesLive ==
  \A config \in Configs :
    <>[](/\ served = config /\ status = "running" /\ ~stopFailed
         /\ ~stop /\ step # "stopped")
      => <>[]Live(config)

\* After Shutdown the goroutine ends, unless an update ends the process.
UpdatesStop == stop ~> (step = "stopped" \/ status = "exited")

\* updateConfig says: "The config updates are accepted only when all the
\* listeners consume the config updates without error."
AcceptedOnlyWhenConsumed ==
  [][step = "accept" /\ accepted' # accepted => failed = {}]_vars
=============================================================================
