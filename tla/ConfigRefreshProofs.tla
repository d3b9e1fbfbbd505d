------------------------- MODULE ConfigRefreshProofs -------------------------
(***************************************************************************)
(* What the refresh goroutine leaves after every pass, for any configs the *)
(* API server may serve, in any order.                                     *)
(***************************************************************************)
EXTENDS ConfigRefresh, TLAPS

\* Every step is one of these.
LEMMA Cases ==
  ASSUME NEW P,
         \A config \in Configs \cup {None} : Serve(config) => P,
         NewProcessor => P,
         Fetch => P,
         \A l \in Listeners : NotUpdated(l) => P,
         EnrichSpans => P,
         RulesRefused => P,
         \A l \in DOMAIN FieldOf : CopyField(l) => P,
         RegisterMetrics => P,
         StopError => P,
         Accept => P,
         StopUpdates => P,
         TakeStop => P,
         UNCHANGED vars => P,
         [Next]_vars
  PROVE  P
BY DEF Next, Refresh

\* The turn of a listener is followed by that of the next one.
LEMMA TurnPasses ==
  ASSUME NEW l \in Listeners, Turn(l)
  PROVE  /\ step' \in Listeners \cup {"accept"}
         /\ l \notin Passed
         /\ Passed' = Passed \cup {l}
BY DEF Turn, Passed, NextStep, Listeners

\* Each field that is copied is one of a config, and of one listener.
LEMMA FieldsOf ==
  /\ DOMAIN FieldOf = {"thresholds", "processor", "sampler"}
  /\ DOMAIN FieldOf \subseteq Listeners
  /\ \A l \in DOMAIN FieldOf :
       /\ FieldOf[l] \in Fields \ {"SpanAttributes", "CustomAttributes", "Labels", "Buckets"}
       /\ \A other \in DOMAIN FieldOf : FieldOf[l] = FieldOf[other] => l = other
BY DEF FieldOf, Fields, Listeners

-----------------------------------------------------------------------------

\* Every variable keeps its type.
LEMMA TypeStep ==
  ASSUME ConfigInv, [Next]_vars
  PROVE  TypeOK'
<1> USE ConfigAssumption
<1>0. TypeOK
  BY DEF ConfigInv
<1>1. ASSUME NEW config \in Configs \cup {None}, Serve(config) PROVE TypeOK'
  BY <1>0, <1>1 DEF Serve, TypeOK, process, pass
<1>2. ASSUME NewProcessor PROVE TypeOK'
  <2> DEFINE config == IF served = None THEN Local ELSE Merged(served)
  <2>1. DOMAIN config = Fields
    BY <1>0 DEF TypeOK, Merged
  <2>2. DOMAIN HistogramFor(config) = {"labels", "buckets"}
    BY DEF HistogramFor
  <2> QED
    BY <1>0, <1>2, <2>1, <2>2 DEF NewProcessor, TypeOK, env, pass
<1>3. ASSUME Fetch PROVE TypeOK'
  BY <1>0, <1>3 DEF Fetch, TypeOK, env, process, Listeners
<1>4. ASSUME NEW l \in Listeners, NotUpdated(l) PROVE TypeOK'
  BY <1>0, <1>4, TurnPasses DEF NotUpdated, Turn, TypeOK, env, process
<1>5. ASSUME EnrichSpans PROVE TypeOK'
  BY <1>0, <1>5, TurnPasses DEF EnrichSpans, Turn, Consumed, TypeOK, env, Listeners
<1>6. ASSUME RulesRefused PROVE TypeOK'
  BY <1>0, <1>6, TurnPasses DEF RulesRefused, NotConsumed, Turn, TypeOK, env, process, Listeners
<1>7. ASSUME NEW l \in DOMAIN FieldOf, CopyField(l) PROVE TypeOK'
  BY <1>0, <1>7, TurnPasses, FieldsOf DEF CopyField, Consumed, Turn, TypeOK, env
<1>8. ASSUME RegisterMetrics PROVE TypeOK'
  <2> DEFINE config == WithMetrics(latestConfig)
  <2>1. DOMAIN config = Fields
    BY <1>0 DEF TypeOK, WithMetrics
  <2>2. DOMAIN HistogramFor(config) = {"labels", "buckets"}
    BY DEF HistogramFor
  <2> QED
    BY <1>0, <1>8, <2>1, <2>2, TurnPasses
    DEF RegisterMetrics, Turn, Consumed, TypeOK, env, Listeners
<1>9. ASSUME StopError PROVE TypeOK'
  BY <1>0, <1>9, TurnPasses
  DEF StopError, KeptOnStopError, NotConsumed, Turn, TypeOK, env, Listeners
<1>10. ASSUME Accept PROVE TypeOK'
  BY <1>0, <1>10 DEF Accept, AcceptedConfig, TypeOK, env, pass
<1>11. ASSUME StopUpdates PROVE TypeOK'
  BY <1>0, <1>11 DEF StopUpdates, TypeOK, env, process, pass
<1>12. ASSUME TakeStop PROVE TypeOK'
  BY <1>0, <1>12 DEF TakeStop, TypeOK, env, process, pass, Listeners
<1>13. ASSUME UNCHANGED vars PROVE TypeOK'
  BY <1>0, <1>13 DEF vars, TypeOK, env, process, pass
<1> QED
  <2> HIDE DEF TypeOK
  <2> QED
    BY <1>1, <1>2, <1>3, <1>4, <1>5, <1>6, <1>7, <1>8, <1>9, <1>10, <1>11,
       <1>12, <1>13, Cases

\* Nothing happens before the start.
LEMMA StartStep ==
  ASSUME StartInv, [Next]_vars
  PROVE  StartInv'
<1> USE DEF StartInv
<1>1. /\ \A config \in Configs \cup {None} : Serve(config) => StartInv'
      /\ NewProcessor => StartInv'
      /\ UNCHANGED vars => StartInv'
  BY DEF Serve, NewProcessor, vars, process, pass
<1>2. /\ Fetch => StartInv'
      /\ Accept => StartInv'
      /\ StopUpdates => StartInv'
      /\ TakeStop => StartInv'
  BY DEF Fetch, Accept, StopUpdates, TakeStop
<1>3. /\ \A l \in Listeners : NotUpdated(l) => StartInv'
      /\ EnrichSpans => StartInv'
      /\ RulesRefused => StartInv'
      /\ \A l \in DOMAIN FieldOf : CopyField(l) => StartInv'
      /\ RegisterMetrics => StartInv'
      /\ StopError => StartInv'
  BY DEF NotUpdated, EnrichSpans, RulesRefused, CopyField, RegisterMetrics,
         StopError, Turn
<1> QED
  <2> HIDE DEF StartInv
  <2> QED
    BY <1>1, <1>2, <1>3, Cases

-----------------------------------------------------------------------------
(* Retries                                                                 *)

\* A listener that did not consume the config finds it updated again.
LEMMA RetryStep ==
  ASSUME ConfigInv, [Next]_vars
  PROVE  RetryInv'
<1> DEFINE Inv == RetryInv
<1>0. TypeOK /\ RetryInv /\ StartInv
  BY DEF ConfigInv
<1>1. ASSUME ~err' PROVE Inv'
  BY <1>1 DEF RetryInv
<1>2. ASSUME UNCHANGED <<pConfig, accepted, latestConfig, err, failed>> PROVE Inv'
  BY <1>0, <1>2 DEF RetryInv, Updated, RulesUpdated, Config
<1>3. ASSUME NEW l \in Listeners, NotConsumed(l), Updated(l, latestConfig),
             UNCHANGED <<pConfig, accepted, latestConfig>>
      PROVE  Inv'
  <2>1. l \in failed' /\ Updated(l, latestConfig)'
    BY <1>3 DEF NotConsumed, Updated, RulesUpdated, Config
  <2> QED
    BY <2>1 DEF RetryInv
<1>4. /\ Fetch => Inv'
      /\ EnrichSpans => Inv'
      /\ \A l \in DOMAIN FieldOf : CopyField(l) => Inv'
      /\ RegisterMetrics => Inv'
  BY <1>1 DEF Fetch, EnrichSpans, CopyField, RegisterMetrics, Consumed
<1>5. NewProcessor => Inv'
  BY <1>0, <1>1 DEF NewProcessor, StartInv, pass
<1>6. RulesRefused => Inv'
  BY <1>3 DEF RulesRefused, Turn, process, Listeners
<1>7. StopError => Inv'
  BY <1>3 DEF StopError, KeptOnStopError, Turn, Listeners
<1>8. Accept => Inv'
  <2>1. ASSUME Accept, err PROVE Inv'
    BY <1>2, <2>1 DEF Accept, AcceptedConfig, pass
  <2>2. ASSUME Accept, ~err PROVE Inv'
    BY <1>1, <2>2 DEF Accept, pass
  <2> QED
    BY <2>1, <2>2
<1>9. /\ \A config \in Configs \cup {None} : Serve(config) => Inv'
      /\ \A l \in Listeners : NotUpdated(l) => Inv'
      /\ StopUpdates => Inv'
      /\ TakeStop => Inv'
      /\ UNCHANGED vars => Inv'
  BY <1>2 DEF Serve, NotUpdated, Turn, StopUpdates, TakeStop, vars, process, pass
<1> QED
  <2> HIDE DEF Inv
  <2>1. Inv'
    BY <1>4, <1>5, <1>6, <1>7, <1>8, <1>9, Cases
  <2> QED
    BY <2>1 DEF Inv

-----------------------------------------------------------------------------
(* What is live                                                            *)

\* A listener that finds a config not updated has what the config says.
LEMMA NotUpdatedIsLive ==
  ASSUME NEW l \in Listeners, ~Updated(l, latestConfig), LiveFor(l, Config)
  PROVE  LiveFor(l, latestConfig)
<1>1. CASE l = "enricher"
  BY <1>1 DEF Updated, RulesUpdated, LiveFor, FieldOf
<1>2. CASE l = "metrics"
  BY <1>2 DEF Updated, LiveFor, FieldOf
<1>3. CASE l \in {"thresholds", "processor", "sampler"}
  BY <1>3 DEF Updated, LiveFor, FieldOf
<1> QED
  BY <1>1, <1>2, <1>3 DEF Listeners

\* What a listener has changes only with its own part of the configuration.
LEMMA OthersStayLive ==
  ASSUME TypeOK, NEW l \in Listeners,
         l = "enricher" => rules' = rules,
         l = "metrics" =>
           pConfig'.Labels = pConfig.Labels /\ pConfig'.Buckets = pConfig.Buckets,
         l \in DOMAIN FieldOf => pConfig'[FieldOf[l]] = pConfig[FieldOf[l]],
         pConfig'.SpanAttributes = pConfig.SpanAttributes,
         UNCHANGED <<accepted, latestConfig>>
  PROVE  /\ LiveFor(l, latestConfig) => LiveFor(l, latestConfig)'
         /\ LiveFor(l, Config) => LiveFor(l, Config)'
<1>1. CASE accepted = None
  BY <1>1 DEF LiveFor, Config
<1>2. CASE accepted # None
  BY <1>2 DEF LiveFor, Config
<1> QED
  BY <1>1, <1>2

\* A listener that consumes the config has what it says, and the others what
\* they had.
LEMMA ConsumedIsLive ==
  ASSUME ConfigInv, NEW l \in Listeners, Turn(l), Consumed, status' = "running",
         stopFailed' = stopFailed,
         ~stopFailed => exposed',
         LiveFor(l, latestConfig)',
         l # "enricher" => rules' = rules,
         l # "metrics" =>
           pConfig'.Labels = pConfig.Labels /\ pConfig'.Buckets = pConfig.Buckets,
         \A other \in DOMAIN FieldOf \ {l} :
           pConfig'[FieldOf[other]] = pConfig[FieldOf[other]],
         pConfig'.SpanAttributes = pConfig.SpanAttributes,
         UNCHANGED <<accepted, latestConfig>>
  PROVE  LiveInv'
<1>1. SUFFICES ASSUME ~stopFailed
               PROVE  \A other \in Listeners :
                        /\ other \in Passed' => LiveFor(other, latestConfig)'
                        /\ other \notin Passed' => LiveFor(other, Config)'
  BY DEF LiveInv, Consumed
<1>2. status = "running" /\ TypeOK /\ LiveInv
  BY DEF Turn, ConfigInv
<1>3. ASSUME NEW other \in Listeners \ {l}
      PROVE  /\ other \in Passed' => LiveFor(other, latestConfig)'
             /\ other \notin Passed' => LiveFor(other, Config)'
  <2>1. /\ other \in Passed => LiveFor(other, latestConfig)
        /\ other \notin Passed => LiveFor(other, Config)
    BY <1>1, <1>2 DEF LiveInv
  <2>2. other \in Passed' <=> other \in Passed
    BY TurnPasses
  <2> QED
    BY <1>2, <2>1, <2>2, OthersStayLive
<1> QED
  BY <1>3, TurnPasses

\* Every step keeps what is live to the config it should agree with.
LEMMA LiveStep ==
  ASSUME ConfigInv, [Next]_vars
  PROVE  LiveInv'
<1> DEFINE Inv == LiveInv
<1> USE ConfigAssumption
<1>0. TypeOK /\ LiveInv /\ StartInv
  BY DEF ConfigInv
<1>1. ASSUME UNCHANGED <<process, status, latestConfig, stopFailed>>,
             Passed' = Passed, err' = err
      PROVE  Inv'
  <2>1. \A l \in Listeners :
          /\ LiveFor(l, latestConfig)' <=> LiveFor(l, latestConfig)
          /\ LiveFor(l, Config)' <=> LiveFor(l, Config)
    BY <1>1 DEF LiveFor, Config, process
  <2> QED
    BY <1>0, <1>1, <2>1 DEF LiveInv, process
<1>2. ASSUME NewProcessor PROVE Inv'
  <2>1. CASE status' # "running"
    BY <2>1 DEF LiveInv
  <2>2. CASE status' = "running"
    <3>1. /\ exposed' /\ rules' = RulesOf(pConfig') /\ accepted' = None
          /\ step' = "idle" /\ ~err'
      BY <1>0, <1>2, <2>2 DEF NewProcessor, StartInv, pass
    <3>2. Passed' = {}
      BY <3>1 DEF Passed
    <3>3. \A l \in Listeners : LiveFor(l, Config)'
      BY <3>1 DEF LiveFor, Config, RulesOf, Listeners
    <3> QED
      BY <3>1, <3>2, <3>3 DEF LiveInv
  <2> QED
    BY <2>1, <2>2
<1>3. ASSUME Fetch PROVE Inv'
  <2>1. Passed = {} /\ Passed' = {} /\ ~err'
    BY <1>3 DEF Fetch, Passed
  <2>2. UNCHANGED <<process, status, stopFailed>>
    BY <1>3 DEF Fetch
  <2>3. \A l \in Listeners : LiveFor(l, Config)' <=> LiveFor(l, Config)
    BY <2>2 DEF LiveFor, Config, process
  <2> QED
    BY <1>0, <2>1, <2>2, <2>3 DEF LiveInv, process
<1>4. ASSUME NEW l \in Listeners, Turn(l), LiveFor(l, Config) => LiveFor(l, latestConfig),
             UNCHANGED <<process, status, stopFailed>>, err' => err \/ Passed = {}
      PROVE  Inv'
  <2>1. latestConfig' = latestConfig /\ Passed' = Passed \cup {l} /\ l \notin Passed
    BY <1>4, TurnPasses DEF Turn
  <2>2. \A other \in Listeners :
          /\ LiveFor(other, latestConfig)' <=> LiveFor(other, latestConfig)
          /\ LiveFor(other, Config)' <=> LiveFor(other, Config)
    BY <1>4, <2>1 DEF LiveFor, Config, process
  <2> QED
    BY <1>0, <1>4, <2>1, <2>2 DEF LiveInv, process
<1>5. ASSUME NEW l \in Listeners, NotUpdated(l) PROVE Inv'
  BY <1>4, <1>5, NotUpdatedIsLive DEF NotUpdated
<1>6. ASSUME RulesRefused PROVE Inv'
  <2>1. LiveFor("enricher", latestConfig)
    BY <1>6 DEF RulesRefused, RulesOf, LiveFor, FieldOf
  <2>2. Passed = {} /\ Turn("enricher") /\ "enricher" \in Listeners
    BY <1>6 DEF RulesRefused, Turn, Passed, Listeners
  <2> QED
    BY <1>4, <1>6, <2>1, <2>2 DEF RulesRefused
<1>7. ASSUME EnrichSpans PROVE Inv'
  <2>1. rules' = RulesOf(latestConfig) /\ latestConfig' = latestConfig
    BY <1>7 DEF EnrichSpans, Turn
  <2>2. LiveFor("enricher", latestConfig)'
    BY <2>1 DEF LiveFor, RulesOf, FieldOf
  <2>3. /\ "enricher" \in Listeners /\ Turn("enricher") /\ Consumed
        /\ UNCHANGED <<pConfig, accepted, exposed, status, stopFailed>>
    BY <1>7 DEF EnrichSpans, Listeners
  <2>4. status' = "running" /\ (~stopFailed => exposed')
    BY <1>0, <2>3 DEF Turn, LiveInv
  <2> QED
    BY <2>1, <2>2, <2>3, <2>4, ConsumedIsLive
<1>8. ASSUME NEW l \in DOMAIN FieldOf, CopyField(l) PROVE Inv'
  <2>1. /\ pConfig' = [pConfig EXCEPT ![FieldOf[l]] = latestConfig[FieldOf[l]]]
        /\ l \in Listeners /\ Turn(l) /\ Consumed /\ latestConfig' = latestConfig
        /\ UNCHANGED <<accepted, rules, exposed, status, stopFailed>>
    BY <1>8, FieldsOf DEF CopyField, Turn
  <2>2. pConfig'[FieldOf[l]] = latestConfig[FieldOf[l]]
    BY <1>0, <2>1, FieldsOf DEF TypeOK
  <2>3. LiveFor(l, latestConfig)'
    BY <2>1, <2>2, FieldsOf DEF LiveFor
  <2>4. /\ pConfig'.Labels = pConfig.Labels /\ pConfig'.Buckets = pConfig.Buckets
        /\ pConfig'.SpanAttributes = pConfig.SpanAttributes
        /\ \A other \in DOMAIN FieldOf \ {l} :
             pConfig'[FieldOf[other]] = pConfig[FieldOf[other]]
    BY <1>0, <2>1, FieldsOf DEF TypeOK, Fields
  <2>5. status' = "running" /\ (~stopFailed => exposed')
    BY <1>0, <2>1 DEF Turn, LiveInv
  <2> QED
    BY <2>1, <2>3, <2>4, <2>5, ConsumedIsLive
<1>9. ASSUME RegisterMetrics PROVE Inv'
  <2>1. CASE latestConfig.Labels \in BadLabels
    BY <1>9, <2>1 DEF RegisterMetrics, LiveInv
  <2>2. CASE latestConfig.Labels \notin BadLabels
    <3>1. /\ pConfig' = WithMetrics(latestConfig)
          /\ "metrics" \in Listeners /\ Turn("metrics") /\ Consumed
          /\ latestConfig' = latestConfig /\ exposed' /\ status' = "running"
          /\ UNCHANGED <<accepted, rules, stopFailed>>
      BY <1>9, <2>2 DEF RegisterMetrics, Turn, Listeners
    <3>2. /\ pConfig'.Labels = latestConfig.Labels
          /\ latestConfig.Buckets # Empty => pConfig'.Buckets = latestConfig.Buckets
          /\ pConfig'.SpanAttributes = pConfig.SpanAttributes
          /\ \A l \in DOMAIN FieldOf : pConfig'[FieldOf[l]] = pConfig[FieldOf[l]]
      BY <1>0, <3>1, FieldsOf DEF TypeOK, WithMetrics, BucketsOver, Fields
    <3>3. LiveFor("metrics", latestConfig)'
      BY <3>1, <3>2, FieldsOf DEF LiveFor
    <3> QED
      BY <3>1, <3>2, <3>3, ConsumedIsLive
  <2> QED
    BY <2>1, <2>2
<1>10. ASSUME StopError PROVE Inv'
  BY <1>10 DEF StopError, LiveInv
<1>11. ASSUME Accept PROVE Inv'
  <2>1. /\ UNCHANGED <<pass, pConfig, rules, exposed, status>>
        /\ accepted' = IF err THEN accepted ELSE latestConfig
        /\ Passed = Listeners /\ Passed' = {} /\ latestConfig # None
    BY <1>0, <1>11 DEF Accept, AcceptedConfig, Passed, TypeOK
  <2>2. CASE err
    <3>1. \A l \in Listeners : LiveFor(l, Config)' <=> LiveFor(l, Config)
      BY <2>1, <2>2 DEF LiveFor, Config
    <3> QED
      BY <1>0, <2>1, <2>2, <3>1 DEF LiveInv, pass
  <2>3. CASE ~err
    <3>1. \A l \in Listeners : LiveFor(l, Config)' <=> LiveFor(l, latestConfig)
      BY <2>1, <2>3 DEF LiveFor, Config
    <3> QED
      BY <1>0, <2>1, <2>3, <3>1 DEF LiveInv, pass
  <2> QED
    BY <2>2, <2>3
<1>12. /\ \A config \in Configs \cup {None} : Serve(config) => Inv'
       /\ StopUpdates => Inv'
       /\ UNCHANGED vars => Inv'
  BY <1>1 DEF Serve, StopUpdates, vars, pass, Passed
<1>13. ASSUME TakeStop PROVE Inv'
  BY <1>1, <1>13 DEF TakeStop, AtSelect, pass, Passed
<1> QED
  <2> HIDE DEF Inv
  <2>1. Inv'
    BY <1>2, <1>3, <1>5, <1>6, <1>7, <1>8, <1>9, <1>10, <1>11, <1>12, <1>13, Cases
  <2> QED
    BY <2>1 DEF Inv

-----------------------------------------------------------------------------

\* The inductive invariant of the configuration.
THEOREM ConfigInvariant == Spec => []ConfigInv
<1>1. Init => ConfigInv
  <2>1. Init => TypeOK
    <3>1. DOMAIN [labels |-> Empty, buckets |-> Empty] = {"labels", "buckets"}
      OBVIOUS
    <3>2. 0 \in 0..MaxChanges /\ DOMAIN Local = Fields /\ Empty \notin BadRules
      BY ConfigAssumption
    <3> QED
      BY <3>1, <3>2 DEF Init, TypeOK, Listeners
  <2>2. Init => StartInv /\ RetryInv /\ LiveInv
    BY DEF Init, StartInv, RetryInv, LiveInv
  <2> QED
    BY <2>1, <2>2 DEF ConfigInv
<1>2. ConfigInv /\ [Next]_vars => ConfigInv'
  BY TypeStep, StartStep, RetryStep, LiveStep DEF ConfigInv
<1> QED
  BY <1>1, <1>2, PTL DEF Spec

\* Variables keep their types; no rules that do not compile are applied.
THEOREM ConfigTypeCorrect == Spec => []TypeOK
<1>1. ConfigInv => TypeOK
  BY DEF ConfigInv
<1> QED
  BY <1>1, ConfigInvariant, PTL

\* A config that is refused is tried again at the next fetch of it.
THEOREM RefusedAreRetried == Spec => []RefusedIsRetried
<1>1. ConfigInv => RefusedIsRetried
  BY DEF ConfigInv, RetryInv, RefusedIsRetried
<1> QED
  BY <1>1, ConfigInvariant, PTL

\* After every pass, what the components read is what cr.config says.
THEOREM AcceptedAreLive == Spec => []AcceptedIsLive
<1>1. ASSUME ConfigInv, AtRest, ~stopFailed
      PROVE  /\ exposed
             /\ \A l \in Listeners : LiveFor(l, Config)
  BY <1>1 DEF ConfigInv, AtRest, LiveInv, Passed
<1>2. ConfigInv => AcceptedIsLive
  BY <1>1 DEF AcceptedIsLive, LiveFor, Listeners, FieldOf
<1> QED
  BY <1>2, ConfigInvariant, PTL

\* After every pass, the span attributes of cr.config are the rules in force.
THEOREM SpanAttributesAreApplied == Spec => []SpanAttributesApplied
<1>1. ConfigInv => SpanAttributesApplied
  BY DEF ConfigInv, AtRest, LiveInv, Passed, LiveFor, Listeners, SpanAttributesApplied
<1> QED
  BY <1>1, ConfigInvariant, PTL
=============================================================================
