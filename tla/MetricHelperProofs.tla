-------------------------- MODULE MetricHelperProofs --------------------------
(***************************************************************************)
(* What the metrics of a service keep to, for any number of consumers,     *)
(* contexts and updates: their labels, series and servers agree.           *)
(***************************************************************************)
EXTENDS MetricHelper, FiniteSetTheorems, TLAPS

\* Every step is one of these.
LEMMA Cases ==
  ASSUME NEW P,
         \A c \in Callers, x \in Contexts : Get(c, x) => P,
         \A c \in Callers : Room(c) => P,
         \A c \in Callers : TooManyContexts(c) => P,
         \A c \in Callers : BuildLabels(c) => P,
         \A c \in Callers : Set(c) => P,
         \A c \in Callers : Record(c) => P,
         \A c \in Callers : RecordPanics(c) => P,
         \A x \in Contexts : Expire(x) => P,
         \A callback \in callbacks : ReadHistogram(callback) => P,
         \A callback \in callbacks : DeleteSeries(callback) => P,
         \A newer \in LabelSets : Unregister(newer) => P,
         StopExporter => P,
         StopFails => P,
         RegisterMetrics => P,
         StartExporter => P,
         \A s \in Starts : Pick(s) => P,
         \A s \in Starts : Listen(s) => P,
         \A s \in Starts : ListenFails(s) => P,
         \A s \in Starts : Serve(s) => P,
         UNCHANGED vars => P,
         [Next]_vars
  PROVE  P
BY DEF Next, CaptureMetrics, OnEviction, OnUpdate, ListenAndServe

\* While fewer callbacks are under way than calls and expiries may start, an
\* id is left.
LEMMA IdLeft ==
  ASSUME TypeOK, IsFiniteSet(callbacks),
         Cardinality(callbacks) < MaxCalls + MaxExpiries
  PROVE  NewId \in 1..(MaxCalls + MaxExpiries)
<1> DEFINE Ids == 1..(MaxCalls + MaxExpiries)
           used == {callback.id : callback \in callbacks}
<1> USE MetricAssumption
<1>1. IsFiniteSet(used) /\ Cardinality(used) <= Cardinality(callbacks)
  <2> DEFINE idOf == [callback \in callbacks |-> callback.id]
  <2>1. used = {idOf[callback] : callback \in callbacks}
    OBVIOUS
  <2>2. idOf \in Surjection(callbacks, used)
    BY DEF Surjection
  <2> HIDE DEF idOf, used
  <2> QED
    BY <2>2, FS_Surjection
<1>2. IsFiniteSet(Ids) /\ Cardinality(Ids) = MaxCalls + MaxExpiries
  <2>1. 1 \in Int /\ MaxCalls + MaxExpiries \in Nat
    OBVIOUS
  <2> QED
    BY <2>1, FS_Interval
<1>3. ~(Ids \subseteq used)
  <2>1. SUFFICES ASSUME Ids \subseteq used PROVE FALSE
    OBVIOUS
  <2>2. Cardinality(Ids) <= Cardinality(used)
    BY <1>1, <2>1, FS_Subset
  <2>3. Cardinality(used) \in Nat /\ Cardinality(callbacks) \in Nat
    BY <1>1, FS_CardinalityType
  <2> QED
    BY <1>1, <1>2, <2>2, <2>3
<1>4. PICK n \in Ids : \A callback \in callbacks : callback.id # n
  BY <1>3
<1> QED
  BY <1>4 DEF NewId

\* What a set with or without an element has.
LEMMA Counting ==
  ASSUME NEW S, IsFiniteSet(S), NEW x
  PROVE  /\ Cardinality(S) \in Nat
         /\ IsFiniteSet(S \cup {x})
         /\ Cardinality(S \cup {x}) \in Nat
         /\ Cardinality(S \cup {x}) <= Cardinality(S) + 1
         /\ x \in S => Cardinality(S \cup {x}) = Cardinality(S)
         /\ IsFiniteSet(S \ {x})
         /\ Cardinality(S \ {x}) \in Nat
         /\ Cardinality(S \ {x}) <= Cardinality(S)
         /\ x \in S => Cardinality(S \ {x}) = Cardinality(S) - 1
<1>1. IsFiniteSet(S \cup {x}) /\ IsFiniteSet(S \ {x})
  BY FS_AddElement, FS_RemoveElement
<1>2. Cardinality(S) \in Nat /\ Cardinality(S \cup {x}) \in Nat
        /\ Cardinality(S \ {x}) \in Nat
  BY <1>1, FS_CardinalityType
<1> QED
  BY <1>1, <1>2, FS_AddElement, FS_RemoveElement

-----------------------------------------------------------------------------
(* The cache                                                               *)

\* Any step leaves room in the cache and ids for callbacks.
LEMMA CacheStep ==
  ASSUME MetricInv, [Next]_vars
  PROVE  /\ CacheInv'
         /\ (Cardinality(cached) <= Limit \/ cached = {})'
         /\ (cached \subseteq Contexts)'
         /\ (callbacks \subseteq Evictions)'
<1> DEFINE Fits == Cardinality(cached) <= Limit \/ cached = {}
           Inv == CacheInv /\ Fits /\ cached \subseteq Contexts
                    /\ callbacks \subseteq Evictions
<1> USE MetricAssumption
<1>0. TypeOK /\ CacheInv /\ UpdateInv
  BY DEF MetricInv
<1>1. Inv /\ number \in Nat
  BY <1>0 DEF TypeOK, Starts
<1>2. ASSUME UNCHANGED <<cached, callbacks, calls, expiries, pc, context, number>>
      PROVE  Inv'
  BY <1>1, <1>2 DEF CacheInv, Pending, Evictions
<1>3. ASSUME NEW c \in Callers, NEW x \in Contexts, Get(c, x) PROVE Inv'
  <2>1. Pending' = Pending \/ Pending' = Pending \cup {c}
    BY <1>0, <1>3 DEF Get, Goto, Pending, TypeOK
  <2>2. IsFiniteSet(Pending') /\ Cardinality(Pending') <= Cardinality(Pending) + 1
    <3>1. IsFiniteSet(Pending)
      BY <1>1 DEF CacheInv
    <3>2. IsFiniteSet(Pending \cup {c})
            /\ Cardinality(Pending \cup {c}) <= Cardinality(Pending) + 1
      BY <3>1, Counting
    <3>3. Cardinality(Pending) \in Nat
      BY <3>1, FS_CardinalityType
    <3>4. CASE Pending' = Pending
      BY <3>1, <3>3, <3>4
    <3>5. CASE Pending' = Pending \cup {c}
      BY <3>2, <3>5
    <3> QED
      BY <2>1, <3>4, <3>5
  <2>3. Cardinality(Pending) \in Nat /\ Cardinality(Pending') \in Nat
          /\ Cardinality(callbacks) \in Nat
    BY <1>1, <2>2, FS_CardinalityType DEF CacheInv
  <2>4. Cardinality(callbacks) + Cardinality(Pending') <= calls' + expiries
    BY <1>0, <1>3, <2>2, <2>3 DEF Get, CacheInv, TypeOK
  <2>5. \A d \in Callers :
          /\ pc'[d] # "idle" => context'[d] \in Contexts
          /\ pc'[d] \in {"build", "set"} => Limit > 0
    BY <1>0, <1>3 DEF Get, Goto, CacheInv, TypeOK
  <2>6. UNCHANGED <<cached, callbacks, expiries, number>>
    BY <1>3 DEF Get, cache, registry
  <2> QED
    BY <1>1, <2>2, <2>4, <2>5, <2>6 DEF CacheInv, Evictions
\* Steps of a call that neither start one nor touch the cache.
<1>4. ASSUME NEW c \in Callers, Pending' = Pending \/ Pending' = Pending \ {c},
             \A d \in Callers :
               /\ pc'[d] # "idle" => context'[d] \in Contexts
               /\ pc'[d] \in {"build", "set"} => Limit > 0,
             UNCHANGED <<cached, callbacks, calls, expiries, number>>
      PROVE  Inv'
  <2>1. IsFiniteSet(Pending') /\ Cardinality(Pending') <= Cardinality(Pending)
    <3>1. IsFiniteSet(Pending)
      BY <1>1 DEF CacheInv
    <3>2. IsFiniteSet(Pending \ {c})
            /\ Cardinality(Pending \ {c}) <= Cardinality(Pending)
      BY <3>1, Counting
    <3>3. Cardinality(Pending) \in Nat
      BY <3>1, FS_CardinalityType
    <3> QED
      BY <1>4, <3>1, <3>2, <3>3
  <2>2. Cardinality(Pending) \in Nat /\ Cardinality(Pending') \in Nat
          /\ Cardinality(callbacks) \in Nat
    BY <1>1, <2>1, FS_CardinalityType DEF CacheInv
  <2>3. Cardinality(callbacks) + Cardinality(Pending') <= calls + expiries
    BY <1>0, <2>1, <2>2 DEF CacheInv, TypeOK
  <2> QED
    BY <1>1, <1>4, <2>1, <2>3 DEF CacheInv, Evictions
<1>5. ASSUME NEW c \in Callers, Room(c) PROVE Inv'
  <2>1. Cardinality(cached) \in Nat
    BY <1>1, FS_CardinalityType DEF CacheInv
  <2>2. Pending' = Pending
    BY <1>0, <1>5 DEF Room, Goto, Pending, TypeOK
  <2>3. \A d \in Callers :
          /\ pc'[d] # "idle" => context'[d] \in Contexts
          /\ pc'[d] \in {"build", "set"} => Limit > 0
    BY <1>0, <1>5, <2>1 DEF Room, Goto, CacheInv, TypeOK
  <2> QED
    BY <1>4, <1>5, <2>2, <2>3 DEF Room, cache, registry
<1>6. ASSUME NEW c \in Callers, TooManyContexts(c) PROVE Inv'
  <2>1. Pending' = Pending \ {c}
    BY <1>0, <1>6 DEF TooManyContexts, Return, Goto, Pending, TypeOK
  <2>2. \A d \in Callers :
          /\ pc'[d] # "idle" => context'[d] \in Contexts
          /\ pc'[d] \in {"build", "set"} => Limit > 0
    BY <1>0, <1>6 DEF TooManyContexts, Return, Goto, CacheInv, TypeOK
  <2> QED
    BY <1>4, <1>6, <2>1, <2>2 DEF TooManyContexts, cache, registry
<1>7. ASSUME NEW c \in Callers, BuildLabels(c) PROVE Inv'
  <2>1. Pending' = Pending
    BY <1>0, <1>7 DEF BuildLabels, Goto, Pending, TypeOK
  <2>2. \A d \in Callers :
          /\ pc'[d] # "idle" => context'[d] \in Contexts
          /\ pc'[d] \in {"build", "set"} => Limit > 0
    BY <1>0, <1>7 DEF BuildLabels, Goto, CacheInv, TypeOK
  <2> QED
    BY <1>4, <1>7, <2>1, <2>2 DEF BuildLabels, cache, registry
<1>8. ASSUME NEW c \in Callers, Record(c) PROVE Inv'
  <2>1. Pending' = Pending
    BY <1>0, <1>8 DEF Record, Return, Goto, Pending, TypeOK
  <2>2. \A d \in Callers :
          /\ pc'[d] # "idle" => context'[d] \in Contexts
          /\ pc'[d] \in {"build", "set"} => Limit > 0
    BY <1>0, <1>8 DEF Record, Return, Goto, CacheInv, TypeOK
  <2> QED
    BY <1>4, <1>8, <2>1, <2>2 DEF Record, cache, registry
<1>9. ASSUME NEW x, x \in Contexts, NewId \in 1..(MaxCalls + MaxExpiries)
      PROVE  /\ Callbacks({x}) = {[id |-> NewId, context |-> x, histogram |-> 0]}
             /\ Callbacks({x}) \subseteq Evictions
  BY <1>1, <1>9 DEF Callbacks, Evictions
<1>10. ASSUME NEW c \in Callers, Set(c) PROVE Inv'
  <2>1. PICK victims \in Victims(context[c]) :
          /\ cached' = (cached \ victims) \cup {context[c]}
          /\ Evict(victims)
    BY <1>10 DEF Set
  <2>2. /\ pc[c] = "set" /\ context[c] \in Contexts /\ Limit > 0
        /\ UNCHANGED <<calls, expiries, context, number>>
        /\ pc' = [pc EXCEPT ![c] = "record"]
    BY <1>0, <1>10 DEF Set, CacheInv, registry, Goto
  <2>3. c \in Pending /\ Pending' = Pending \ {c}
    BY <1>0, <2>2 DEF Pending, TypeOK
  <2>4. /\ IsFiniteSet(Pending')
        /\ Cardinality(Pending') = Cardinality(Pending) - 1
        /\ Cardinality(Pending) \in Nat /\ Cardinality(Pending') \in Nat
        /\ Cardinality(callbacks) \in Nat /\ Cardinality(cached) \in Nat
    BY <1>1, <2>3, Counting DEF CacheInv
  <2>5. Cardinality(callbacks) < MaxCalls + MaxExpiries
    BY <1>0, <2>4 DEF CacheInv, TypeOK
  <2>6. NewId \in 1..(MaxCalls + MaxExpiries)
    BY <1>0, <2>5, IdLeft DEF CacheInv
  <2>7. /\ IsFiniteSet(callbacks')
        /\ Cardinality(callbacks') <= Cardinality(callbacks) + 1
        /\ callbacks' \subseteq Evictions
        /\ IsFiniteSet(cached') /\ cached' \subseteq Contexts
        /\ Cardinality(cached') <= Limit
    <3>1. CASE context[c] \in cached
      <4>1. victims = {} /\ cached' = cached
        BY <2>1, <3>1 DEF Victims
      <4>2. callbacks' = callbacks
        BY <2>1, <4>1 DEF Evict, Callbacks
      <4> QED
        BY <1>1, <2>4, <3>1, <4>1, <4>2 DEF CacheInv
    <3>2. CASE context[c] \notin cached /\ Cardinality(cached) < Limit
      <4>1. victims = {} /\ cached' = cached \cup {context[c]}
        BY <2>1, <3>2 DEF Victims
      <4>2. callbacks' = callbacks
        BY <2>1, <4>1 DEF Evict, Callbacks
      <4>3. /\ IsFiniteSet(cached')
            /\ Cardinality(cached') <= Cardinality(cached) + 1
            /\ Cardinality(cached') \in Nat
        BY <1>1, <4>1, Counting DEF CacheInv
      <4> QED
        BY <1>1, <2>2, <2>4, <3>2, <4>1, <4>2, <4>3 DEF CacheInv
    <3>3. CASE context[c] \notin cached /\ ~(Cardinality(cached) < Limit)
      <4>1. PICK y \in cached : victims = {y}
        BY <2>1, <3>3 DEF Victims
      <4>2. callbacks' = callbacks \cup
                           {[id |-> NewId, context |-> y, histogram |-> 0]}
        BY <1>1, <1>9, <2>1, <2>6, <4>1 DEF Evict
      <4>3. /\ IsFiniteSet(callbacks')
            /\ Cardinality(callbacks') <= Cardinality(callbacks) + 1
        BY <1>1, <4>2, Counting DEF CacheInv
      <4>4. callbacks' \subseteq Evictions
        BY <1>1, <2>6, <4>2 DEF Evictions
      <4>5. /\ IsFiniteSet(cached \ {y})
            /\ Cardinality(cached \ {y}) = Cardinality(cached) - 1
        BY <1>1, <4>1, Counting DEF CacheInv
      <4>6. cached' = (cached \ {y}) \cup {context[c]}
        BY <2>1, <4>1
      <4>7. /\ IsFiniteSet(cached') /\ Cardinality(cached') \in Nat
            /\ Cardinality(cached') <= Cardinality(cached \ {y}) + 1
        BY <4>5, <4>6, Counting
      <4>8. Cardinality(cached) <= Limit
        BY <1>1, <4>1
      <4> QED
        BY <1>1, <2>2, <2>4, <4>3, <4>4, <4>5, <4>6, <4>7, <4>8
    <3> QED
      BY <3>1, <3>2, <3>3
  <2>8. Cardinality(callbacks') \in Nat
    BY <2>7, FS_CardinalityType
  <2>9. Cardinality(callbacks') + Cardinality(Pending') <= calls' + expiries'
    BY <1>0, <2>2, <2>4, <2>7, <2>8 DEF CacheInv, TypeOK
  <2>10. \A d \in Callers :
          /\ pc'[d] # "idle" => context'[d] \in Contexts
          /\ pc'[d] \in {"build", "set"} => Limit > 0
    BY <1>0, <2>2 DEF CacheInv, TypeOK
  <2> QED
    BY <2>2, <2>4, <2>7, <2>9, <2>10 DEF CacheInv, Evictions
<1>11. ASSUME NEW x \in Contexts, Expire(x) PROVE Inv'
  <2>1. /\ x \in cached /\ cached' = cached \ {x}
        /\ expiries < MaxExpiries /\ expiries' = expiries + 1
        /\ callbacks' = callbacks \cup Callbacks({x})
        /\ UNCHANGED <<calls, pc, context, number>>
    BY <1>11 DEF Expire, Evict, caller, registry
  <2>2. /\ Cardinality(Pending) \in Nat /\ Cardinality(callbacks) \in Nat
        /\ IsFiniteSet(cached') /\ Cardinality(cached') \in Nat
        /\ Cardinality(cached) \in Nat
        /\ Cardinality(cached') <= Cardinality(cached)
    BY <1>1, <2>1, Counting DEF CacheInv
  <2>3. NewId \in 1..(MaxCalls + MaxExpiries)
    <3>1. Cardinality(callbacks) < MaxCalls + MaxExpiries
      BY <1>0, <2>1, <2>2 DEF CacheInv, TypeOK
    <3> QED
      BY <1>0, <3>1, IdLeft DEF CacheInv
  <2>4. callbacks' = callbacks \cup {[id |-> NewId, context |-> x, histogram |-> 0]}
          /\ callbacks' \subseteq Evictions
    BY <1>1, <1>9, <2>1, <2>3, number' = number DEF Evictions
  <2>5. /\ IsFiniteSet(callbacks') /\ Cardinality(callbacks') \in Nat
        /\ Cardinality(callbacks') <= Cardinality(callbacks) + 1
    BY <1>1, <2>4, Counting DEF CacheInv
  <2>6. Pending' = Pending
    BY <2>1 DEF Pending
  <2>7. Cardinality(callbacks') + Cardinality(Pending') <= calls' + expiries'
    BY <1>0, <2>1, <2>2, <2>5, <2>6 DEF CacheInv, TypeOK
  <2>8. (Cardinality(cached) <= Limit \/ cached = {})'
    BY <1>1, <2>1, <2>2
  <2>9. (callbacks \subseteq Evictions)'
    BY <2>1, <2>4 DEF Evictions
  <2> QED
    BY <1>1, <2>1, <2>2, <2>5, <2>6, <2>7, <2>8, <2>9 DEF CacheInv
<1>12. ASSUME NEW callback \in callbacks, callback.histogram = 0,
              ReadHistogram(callback)
       PROVE  Inv'
  <2> DEFINE read == [callback EXCEPT !.histogram = number]
  <2>1. /\ callbacks' = (callbacks \ {callback}) \cup {read}
        /\ UNCHANGED <<cached, calls, expiries, pc, context, number>>
    BY <1>12 DEF ReadHistogram, caller, registry
  <2>2. read \in Evictions
    BY <1>1 DEF Evictions
  <2> HIDE DEF read
  <2>3. /\ IsFiniteSet(callbacks \ {callback})
        /\ Cardinality(callbacks \ {callback}) = Cardinality(callbacks) - 1
        /\ Cardinality(callbacks) \in Nat
    BY <1>1, Counting DEF CacheInv
  <2>4. /\ IsFiniteSet(callbacks') /\ Cardinality(callbacks') \in Nat
        /\ Cardinality(callbacks') <= Cardinality(callbacks \ {callback}) + 1
    BY <2>1, <2>3, Counting
  <2>5. Pending' = Pending
    BY <2>1 DEF Pending
  <2>6. Cardinality(Pending) \in Nat
    BY <1>1, FS_CardinalityType DEF CacheInv
  <2>7. Cardinality(callbacks') + Cardinality(Pending') <= calls' + expiries'
    BY <1>0, <2>1, <2>3, <2>4, <2>5, <2>6 DEF CacheInv, TypeOK
  <2>8. (callbacks \subseteq Evictions)'
    BY <1>1, <2>1, <2>2 DEF Evictions
  <2> QED
    BY <1>1, <2>1, <2>4, <2>5, <2>7, <2>8 DEF CacheInv
<1>13. ASSUME NEW callback \in callbacks, DeleteSeries(callback) PROVE Inv'
  <2>1. /\ callbacks' = callbacks \ {callback}
        /\ UNCHANGED <<cached, calls, expiries, pc, context, number>>
    BY <1>13 DEF DeleteSeries, caller, registry
  <2>2. /\ IsFiniteSet(callbacks') /\ Cardinality(callbacks') \in Nat
        /\ Cardinality(callbacks') = Cardinality(callbacks) - 1
    BY <1>1, <2>1, Counting DEF CacheInv
  <2>3. Pending' = Pending
    BY <2>1 DEF Pending
  <2>4. Cardinality(Pending) \in Nat /\ Cardinality(callbacks) \in Nat
    BY <1>1, FS_CardinalityType DEF CacheInv
  <2>5. Cardinality(callbacks') + Cardinality(Pending') <= calls' + expiries'
    BY <1>0, <2>1, <2>2, <2>3, <2>4 DEF CacheInv, TypeOK
  <2> QED
    BY <1>1, <2>1, <2>2, <2>3, <2>5 DEF CacheInv, Evictions
<1>14. ASSUME RegisterMetrics PROVE Inv'
  <2>1. /\ number' = number + 1
        /\ UNCHANGED <<cached, callbacks, calls, expiries, pc, context>>
    BY <1>14 DEF RegisterMetrics, cache, caller
  <2> QED
    BY <1>1, <2>1 DEF CacheInv, Pending, Evictions
<1> USE <1>2 DEF registry, cache, caller
<1> QED
  <2>1. \A c \in Callers : RecordPanics(c) => Inv'
    BY DEF RecordPanics
  <2>2. \A newer \in LabelSets : Unregister(newer) => Inv'
    BY DEF Unregister
  <2>3. (StopExporter => Inv') /\ (StopFails => Inv') /\ (StartExporter => Inv')
    BY DEF StopExporter, StopFails, StartExporter
  <2>4. \A s \in Starts : (Pick(s) => Inv') /\ (Listen(s) => Inv')
                            /\ (ListenFails(s) => Inv') /\ (Serve(s) => Inv')
    BY DEF Pick, Listen, ListenFails, Serve, Proceed
  <2>5. UNCHANGED vars => Inv'
    BY DEF vars
  <2>6. \A callback \in callbacks : ReadHistogram(callback) => Inv'
    BY <1>12 DEF ReadHistogram
  <2> HIDE DEF Inv
  <2>7. Inv'
    BY <1>3, <1>5, <1>6, <1>7, <1>8, <1>10, <1>11, <1>13, <1>14,
       <2>1, <2>2, <2>3, <2>4, <2>5, <2>6, Cases
  <2> QED
    BY <2>7 DEF Inv

-----------------------------------------------------------------------------
(* The types                                                               *)

\* Every variable keeps its type.
LEMMA TypeStep ==
  ASSUME MetricInv, [Next]_vars
  PROVE  TypeOK'
<1> DEFINE Process ==
             status \in {"running", "panicked", "exited"}
           Registry ==
             /\ captured \in LabelSets /\ histogram \in LabelSets
             /\ number \in Starts /\ registered \in BOOLEAN
           Observed ==
             series \subseteq Contexts /\ late \subseteq series
           Caller ==
             /\ calls \in 0..MaxCalls
             /\ pc \in [Callers -> {"idle", "len", "build", "buildKnown", "set",
                                    "record"}]
             /\ context \in [Callers -> Contexts \cup {None}]
             /\ labels \in [Callers -> LabelSets \cup {None}]
             /\ builtFor \in [Callers -> 0..number]
           Updater ==
             /\ expiries \in 0..MaxExpiries /\ updates \in 0..MaxUpdates
             /\ update \in {"idle", "stop", "register", "start"}
             /\ newLabels \in LabelSets \cup {None} /\ stopFailed \in BOOLEAN
           Http ==
             /\ server \in Starts /\ down \subseteq Starts
             /\ exporter \in [Starts -> ExporterSteps]
             /\ picked \in [Starts -> 0..number]
             /\ overtaken \in BOOLEAN
           Inv == Process /\ Registry /\ Observed /\ Caller /\ Updater /\ Http
<1> USE MetricAssumption
<1>0. Inv /\ TypeOK /\ CacheInv /\ UpdateInv
  BY DEF MetricInv, TypeOK
<1>1. number \in Nat /\ updates \in Nat /\ 1 \in Starts
  BY <1>0 DEF Starts
<1>2. ASSUME NEW c \in Callers, NEW x \in Contexts, Get(c, x) PROVE Inv'
  BY <1>0, <1>2 DEF Get, Goto, registry, observed, updater, http
<1>3. ASSUME NEW c \in Callers, Room(c) PROVE Inv'
  BY <1>0, <1>3 DEF Room, Goto, registry, observed, updater, http
<1>4. ASSUME NEW c \in Callers, TooManyContexts(c) PROVE Inv'
  BY <1>0, <1>1, <1>4 DEF TooManyContexts, Return, Goto, registry, observed, updater, http
<1>5. ASSUME NEW c \in Callers, BuildLabels(c) PROVE Inv'
  BY <1>0, <1>1, <1>5 DEF BuildLabels, Goto, registry, observed, updater, http
<1>6. ASSUME NEW c \in Callers, Set(c) PROVE Inv'
  BY <1>0, <1>6 DEF Set, Goto, registry, observed, updater, http
<1>7. ASSUME NEW c \in Callers, Record(c) PROVE Inv'
  <2>1. context[c] \in Contexts
    BY <1>0, <1>7 DEF Record, CacheInv
  <2> QED
    BY <1>0, <1>1, <1>7, <2>1 DEF Record, Return, Goto, registry, updater, http
<1>8. ASSUME NEW c \in Callers, RecordPanics(c) PROVE Inv'
  BY <1>0, <1>8 DEF RecordPanics, registry, observed, caller, updater, http
<1>9. ASSUME NEW x \in Contexts, Expire(x) PROVE Inv'
  BY <1>0, <1>9 DEF Expire, registry, observed, caller, updater, http
<1>10. ASSUME NEW callback \in callbacks, ReadHistogram(callback) PROVE Inv'
  BY <1>0, <1>10 DEF ReadHistogram, registry, observed, caller, updater, http
<1>11. ASSUME NEW callback \in callbacks, DeleteSeries(callback) PROVE Inv'
  BY <1>0, <1>11 DEF DeleteSeries, registry, observed, caller, updater, http
<1>12. ASSUME NEW newer \in LabelSets, Unregister(newer) PROVE Inv'
  <2>1. updates' \in 0..MaxUpdates
    BY <1>0, <1>1, <1>12 DEF Unregister
  <2> QED
    BY <1>0, <1>12, <2>1 DEF Unregister, caller, http
<1>13. ASSUME Shutdown PROVE Http' \/ number' # number
  BY <1>0, <1>13 DEF Shutdown, ExporterSteps
<1>14. ASSUME StopExporter PROVE Inv'
  BY <1>0, <1>13, <1>14 DEF StopExporter, registry, observed, caller
<1>15. ASSUME StopFails PROVE Inv'
  BY <1>0, <1>13, <1>15 DEF StopFails, KeptOnStopError, Unlock, observed, caller
<1>16. ASSUME RegisterMetrics PROVE Inv'
  <2>1. newLabels \in LabelSets /\ number + 1 \in Starts
    BY <1>0, <1>16 DEF RegisterMetrics, UpdateInv, Starts
  <2>2. 0..number \subseteq 0..(number + 1)
    BY <1>1
  <2>3. UNCHANGED <<builtFor, picked>> /\ number' = number + 1
    BY <1>16 DEF RegisterMetrics, caller, http
  <2>4. (builtFor \in [Callers -> 0..number] /\ picked \in [Starts -> 0..number])'
    BY <1>0, <2>2, <2>3
  <2> QED
    BY <1>0, <1>16, <2>1, <2>4 DEF RegisterMetrics, observed, caller, http
<1>17. ASSUME StartExporter PROVE Inv'
  BY <1>0, <1>17 DEF StartExporter, NewServer, Unlock, registry, observed, caller,
                     ExporterSteps
<1>18. ASSUME NEW s \in Starts, Pick(s) PROVE Inv'
  <2>1. server \in 0..number
    BY <1>0, <1>1 DEF UpdateInv, Starts
  <2> QED
    BY <1>0, <1>18, <2>1 DEF Pick, registry, observed, caller, updater, ExporterSteps
<1>19. ASSUME NEW s \in Starts, NEW from, NEW to \in ExporterSteps, Proceed(s, from, to)
       PROVE  Inv'
  BY <1>0, <1>19 DEF Proceed, registry, observed, caller, updater
<1>20. ASSUME NEW s \in Starts, Listen(s) PROVE Inv'
  BY <1>19, <1>20 DEF Listen, ExporterSteps
<1>21. ASSUME NEW s \in Starts, ListenFails(s) PROVE Inv'
  BY <1>0, <1>21 DEF ListenFails, registry, observed, caller, updater, http
<1>22. ASSUME NEW s \in Starts, Serve(s) PROVE Inv'
  BY <1>19, <1>22 DEF Serve, ExporterSteps
<1>23. ASSUME UNCHANGED vars PROVE Inv'
  BY <1>0, <1>23 DEF vars, registry, observed, caller, updater, http
<1>24. Inv'
  <2> HIDE DEF Inv
  <2> QED
    BY <1>2, <1>3, <1>4, <1>5, <1>6, <1>7, <1>8, <1>9, <1>10, <1>11, <1>12,
       <1>14, <1>15, <1>16, <1>17, <1>18, <1>20, <1>21, <1>22, <1>23, Cases
<1> QED
  BY <1>24, CacheStep DEF TypeOK

-----------------------------------------------------------------------------
(* Labels and series                                                       *)

\* Labels built for a histogram stay its labels, as each has its own number.
LEMMA LabelsStep ==
  ASSUME MetricInv, [Next]_vars
  PROVE  LabelsFitUnlessUpdated'
<1> DEFINE Inv == LabelsFitUnlessUpdated
<1>0. TypeOK /\ UpdateInv /\ Inv
  BY DEF MetricInv
<1>1. ASSUME UNCHANGED <<caller, number, histogram>> PROVE Inv'
  BY <1>0, <1>1 DEF LabelsFitUnlessUpdated, caller
<1>2. ASSUME NEW c \in Callers, NEW x \in Contexts, Get(c, x) PROVE Inv'
  BY <1>0, <1>2 DEF Get, Goto, registry, TypeOK, LabelsFitUnlessUpdated
<1>3. ASSUME NEW c \in Callers, Room(c) PROVE Inv'
  BY <1>0, <1>3 DEF Room, Goto, registry, TypeOK, LabelsFitUnlessUpdated
<1>4. ASSUME NEW c \in Callers, TooManyContexts(c) PROVE Inv'
  BY <1>0, <1>4 DEF TooManyContexts, Return, Goto, registry, TypeOK,
                    LabelsFitUnlessUpdated
<1>5. ASSUME NEW c \in Callers, BuildLabels(c) PROVE Inv'
  BY <1>0, <1>5 DEF BuildLabels, Goto, registry, TypeOK, UpdateInv,
                    LabelsFitUnlessUpdated
<1>6. ASSUME NEW c \in Callers, Set(c) PROVE Inv'
  BY <1>0, <1>6 DEF Set, Goto, registry, TypeOK, LabelsFitUnlessUpdated
<1>7. ASSUME NEW c \in Callers, Record(c) PROVE Inv'
  BY <1>0, <1>7 DEF Record, Return, Goto, registry, TypeOK,
                    LabelsFitUnlessUpdated
<1>8. ASSUME RegisterMetrics PROVE Inv'
  <2>1. \A c \in Callers : builtFor'[c] # number'
    BY <1>0, <1>8 DEF RegisterMetrics, caller, TypeOK, Starts
  <2> QED
    BY <2>1 DEF LabelsFitUnlessUpdated
<1>9. UNCHANGED <<caller, registry>> \/ UNCHANGED <<caller, number, histogram>> => Inv'
  BY <1>1 DEF registry
<1>10. /\ \A c \in Callers : RecordPanics(c) => Inv'
       /\ \A x \in Contexts : Expire(x) => Inv'
       /\ \A callback \in callbacks :
            (ReadHistogram(callback) => Inv') /\ (DeleteSeries(callback) => Inv')
       /\ \A newer \in LabelSets : Unregister(newer) => Inv'
       /\ StopExporter => Inv'
       /\ StopFails => Inv'
       /\ StartExporter => Inv'
  BY <1>9 DEF RecordPanics, Expire, ReadHistogram, DeleteSeries, Unregister,
              StopExporter, StopFails, StartExporter
<1>11. /\ \A s \in Starts : (Pick(s) => Inv') /\ (Listen(s) => Inv')
                              /\ (ListenFails(s) => Inv') /\ (Serve(s) => Inv')
       /\ UNCHANGED vars => Inv'
  BY <1>9 DEF Pick, Listen, ListenFails, Serve, Proceed, vars
<1> QED
  <2> HIDE DEF Inv
  <2>1. Inv'
    BY <1>2, <1>3, <1>4, <1>5, <1>6, <1>7, <1>8, <1>10, <1>11, Cases
  <2> QED
    BY <2>1 DEF Inv

\* What leaves the cache has a callback that is still to read the histogram;
\* what a callback read and ends with, it deletes.
LEMMA SeriesStep ==
  ASSUME MetricInv, [Next]_vars
  PROVE  SeriesKnown'
<1> DEFINE Inv == SeriesKnown
<1> USE MetricAssumption
<1>0. TypeOK /\ UpdateInv /\ CacheInv /\ Inv
  BY DEF MetricInv
<1>1. ASSUME UNCHANGED <<number, cache, observed>> PROVE Inv'
  BY <1>0, <1>1 DEF SeriesKnown, cache, observed
\* The victims of the cache get callbacks.
<1>2. ASSUME NEW victims, cached \ victims \subseteq cached', Evict(victims),
             UNCHANGED <<observed, number>>
      PROVE  Inv'
  <2>1. SUFFICES ASSUME NEW x \in series \ late, x \notin cached'
                 PROVE  \E callback \in callbacks' :
                          /\ callback.context = x
                          /\ callback.histogram \in {0, number}
    BY <1>2 DEF SeriesKnown, observed
  <2>2. CASE x \in victims
    <3> DEFINE new == [id |-> NewId, context |-> x, histogram |-> 0]
    <3>1. new \in Callbacks(victims)
      BY <2>2 DEF Callbacks
    <3>2. new \in callbacks' /\ new.context = x /\ new.histogram = 0
      BY <1>2, <3>1 DEF Evict
    <3> HIDE DEF new
    <3> QED
      BY <3>2
  <2>3. CASE x \notin victims
    <3>1. x \notin cached
      BY <1>2, <2>1, <2>3
    <3>2. PICK callback \in callbacks :
            callback.context = x /\ callback.histogram \in {0, number}
      BY <1>0, <3>1 DEF SeriesKnown
    <3> QED
      BY <1>2, <3>2 DEF Evict
  <2> QED
    BY <2>2, <2>3
<1>3. ASSUME NEW c \in Callers, Set(c) PROVE Inv'
  BY <1>2, <1>3 DEF Set, registry
<1>4. ASSUME NEW x \in Contexts, Expire(x) PROVE Inv'
  BY <1>2, <1>4 DEF Expire, registry
<1>5. ASSUME NEW c \in Callers, Record(c) PROVE Inv'
  <2>1. \A x \in series' \ late' : x \in series \ late \/ x \in cached
    BY <1>5 DEF Record
  <2> QED
    BY <1>0, <1>5, <2>1 DEF Record, SeriesKnown, cache, registry
<1>6. ASSUME NEW callback \in callbacks, ReadHistogram(callback) PROVE Inv'
  <2> DEFINE read == [callback EXCEPT !.histogram = number]
  <2>1. callback \in Evictions
    BY <1>0 DEF TypeOK
  <2>2. read.context = callback.context /\ read.histogram = number
    BY <2>1 DEF Evictions
  <2>3. /\ callbacks' = (callbacks \ {callback}) \cup {read}
        /\ UNCHANGED <<number, cached, observed>>
    BY <1>6 DEF ReadHistogram, registry
  <2> HIDE DEF read
  <2> QED
    BY <1>0, <2>2, <2>3 DEF SeriesKnown, observed
<1>7. ASSUME NEW callback \in callbacks, DeleteSeries(callback) PROVE Inv'
  <2>1. /\ callback.histogram # 0
        /\ callbacks' = callbacks \ {callback}
        /\ series' \ late' \subseteq series \ late
        /\ callback.histogram = number => callback.context \notin series'
        /\ UNCHANGED <<number, cached>>
    BY <1>7 DEF DeleteSeries, registry
  <2>2. ASSUME NEW x \in series' \ late', x \notin cached
        PROVE  \E other \in callbacks' :
                 other.context = x /\ other.histogram \in {0, number}
    <3>1. PICK other \in callbacks :
            other.context = x /\ other.histogram \in {0, number}
      BY <1>0, <2>1, <2>2 DEF SeriesKnown
    <3>2. other # callback
      BY <2>1, <2>2, <3>1
    <3> QED
      BY <2>1, <3>1, <3>2
  <2> QED
    BY <2>1, <2>2 DEF SeriesKnown
<1>8. ASSUME NEW newer \in LabelSets, Unregister(newer) PROVE Inv'
  BY <1>8 DEF Unregister, SeriesKnown
<1>9. ASSUME RegisterMetrics PROVE Inv'
  BY <1>0, <1>9 DEF RegisterMetrics, UpdateInv, SeriesKnown, observed
<1>10. /\ \A c \in Callers, x \in Contexts : Get(c, x) => Inv'
       /\ \A c \in Callers : (Room(c) => Inv') /\ (TooManyContexts(c) => Inv')
            /\ (BuildLabels(c) => Inv') /\ (RecordPanics(c) => Inv')
       /\ StopExporter => Inv'
       /\ StopFails => Inv'
       /\ StartExporter => Inv'
  BY <1>1 DEF Get, Room, TooManyContexts, BuildLabels, RecordPanics, registry,
              StopExporter, StopFails, StartExporter
<1>11. /\ \A s \in Starts : (Pick(s) => Inv') /\ (Listen(s) => Inv')
                              /\ (ListenFails(s) => Inv') /\ (Serve(s) => Inv')
       /\ UNCHANGED vars => Inv'
  BY <1>1 DEF Pick, Listen, ListenFails, Serve, Proceed, vars, registry
<1> QED
  <2> HIDE DEF Inv
  <2>1. Inv'
    BY <1>3, <1>4, <1>5, <1>6, <1>7, <1>8, <1>9, <1>10, <1>11, Cases
  <2> QED
    BY <2>1 DEF Inv

-----------------------------------------------------------------------------
(* Updates and servers                                                     *)

\* What an update reads and writes stays, or is changed by its own steps.
LEMMA ServerStep ==
  ASSUME MetricInv, [Next]_vars
  PROVE  UpdateInv' /\ ServerInv' /\ FatalOnlyWhenOvertaken'
<1> DEFINE Inv == UpdateInv /\ ServerInv /\ FatalOnlyWhenOvertaken
<1> USE MetricAssumption
<1>0. TypeOK /\ Inv
  BY DEF MetricInv
<1>1. /\ number \in Nat /\ server \in Nat /\ updates \in Nat
      /\ server \in Starts /\ number \in Starts
      /\ 1 <= number /\ 1 <= server /\ server <= number
  BY <1>0 DEF TypeOK, Starts, UpdateInv
<1>2. ASSUME status' = "exited" => status = "exited",
             UNCHANGED <<registry, updater, http>>,
             series' = series \/ (update = "idle" /\ series' \subseteq Contexts)
                               \/ series' \subseteq series
      PROVE  Inv'
  <2>1. UpdateInv'
    BY <1>0, <1>2 DEF registry, updater, http, UpdateInv
  <2>2. ServerInv' /\ FatalOnlyWhenOvertaken'
    BY <1>0, <1>2 DEF http, ServerInv, FatalOnlyWhenOvertaken
  <2> QED
    BY <2>1, <2>2
<1>3. ASSUME NEW c \in Callers, Record(c) PROVE Inv'
  <2>1. context[c] \in Contexts
    BY <1>0, <1>3 DEF Record, MetricInv, CacheInv
  <2> QED
    BY <1>0, <1>2, <1>3, <2>1 DEF Record, NoWriter, TypeOK
<1>4. ASSUME NEW newer \in LabelSets, Unregister(newer) PROVE Inv'
  <2>1. UpdateInv'
    BY <1>0, <1>1, <1>4 DEF Unregister, UpdateInv, http
  <2>2. ServerInv' /\ FatalOnlyWhenOvertaken'
    BY <1>0, <1>4 DEF Unregister, ServerInv, FatalOnlyWhenOvertaken, http
  <2> QED
    BY <2>1, <2>2
\* Stopping leaves a goroutine that may still serve only when it overtook one.
<1>5. ASSUME Running, Shutdown PROVE ServerInv' /\ server \in down'
                                       /\ down' \subseteq 1..server
  <2>1. server \in down' /\ server' = server /\ down' \subseteq 1..server
    BY <1>0, <1>1, <1>5 DEF Shutdown, UpdateInv
  <2>2. ASSUME ~overtaken', NEW s \in Starts, exporter'[s] \in Alive PROVE FALSE
    <3>1. ~overtaken /\ exporter[server] \in {"serving", "ended"}
      BY <1>5, <2>2 DEF Shutdown
    <3>2. exporter[s] \in Alive
      BY <1>0, <1>5, <2>2 DEF Shutdown, TypeOK, Alive
    <3>3. s = server /\ server \notin down
      BY <1>0, <3>1, <3>2 DEF ServerInv
    <3>4. exporter[s] = "serving" /\ picked[s] = server
      BY <1>0, <3>1, <3>2, <3>3 DEF ServerInv, Alive
    <3> QED
      BY <1>0, <1>5, <2>2, <3>4 DEF Shutdown, TypeOK, Alive
  <2> QED
    BY <2>1, <2>2 DEF ServerInv
<1>6. ASSUME StopExporter PROVE Inv'
  <2>1. /\ Running /\ Shutdown /\ update = "stop" /\ update' = "register"
        /\ UNCHANGED <<status, registry, series, updates, newLabels, stopFailed, server>>
    BY <1>6 DEF StopExporter, observed, Shutdown
  <2>2. UpdateInv'
    BY <1>0, <1>1, <1>5, <2>1 DEF UpdateInv, registry
  <2>3. FatalOnlyWhenOvertaken'
    BY <2>1 DEF Running, FatalOnlyWhenOvertaken
  <2> QED
    BY <1>5, <2>1, <2>2, <2>3
<1>7. ASSUME StopFails PROVE Inv'
  <2>1. /\ Running /\ Shutdown /\ update = "stop" /\ update' = "idle"
        /\ stopFailed' = TRUE
        /\ UNCHANGED <<status, registry, series, updates, server>>
    BY <1>7 DEF StopFails, Unlock, KeptOnStopError, registry, observed, Shutdown
  <2>2. UpdateInv'
    BY <1>0, <1>1, <1>5, <2>1 DEF UpdateInv, registry
  <2>3. FatalOnlyWhenOvertaken'
    BY <2>1 DEF Running, FatalOnlyWhenOvertaken
  <2> QED
    BY <1>5, <2>1, <2>2, <2>3
<1>8. ASSUME RegisterMetrics PROVE Inv'
  <2>1. UpdateInv'
    BY <1>0, <1>1, <1>8 DEF RegisterMetrics, UpdateInv, observed, http
  <2>2. ServerInv' /\ FatalOnlyWhenOvertaken'
    BY <1>0, <1>8 DEF RegisterMetrics, ServerInv, FatalOnlyWhenOvertaken, http
  <2> QED
    BY <2>1, <2>2
<1>9. ASSUME StartExporter PROVE Inv'
  <2>1. /\ Running /\ update = "start" /\ update' = "idle" /\ server' = number
        /\ exporter' = [exporter EXCEPT ![number] = "spawned"]
        /\ UNCHANGED <<status, registry, series, updates, stopFailed, down, picked,
                       overtaken>>
    BY <1>9 DEF StartExporter, NewServer, Unlock, observed
  <2>2. server < number /\ number \notin down /\ server \in down
    BY <1>0, <1>1, <2>1 DEF UpdateInv
  <2>3. down' \subseteq 1..server'
    BY <1>0, <1>1, <2>1, <2>2 DEF UpdateInv
  <2>4. registered \/ stopFailed => UpdateInv'
    BY <1>0, <1>1, <2>1, <2>2, <2>3 DEF UpdateInv, registry
  <2>5. ServerInv'
    BY <1>0, <1>1, <2>1, <2>2 DEF ServerInv, Alive, TypeOK
  <2>6. FatalOnlyWhenOvertaken'
    BY <2>1 DEF Running, FatalOnlyWhenOvertaken
  <2> QED
    BY <1>0, <2>1, <2>4, <2>5, <2>6 DEF UpdateInv
\* A goroutine that goes on serves no other server.
<1>10. ASSUME Running, NEW s \in Starts, exporter[s] \in Alive,
              NEW step \in ExporterSteps, exporter' = [exporter EXCEPT ![s] = step],
              s = server /\ server \notin down =>
                step \in Alive \ {"spawned"} /\ picked'[s] = server,
              \A r \in Starts \ {s} : picked'[r] = picked[r],
              UNCHANGED <<status, registry, series, updater, server, down, overtaken>>
       PROVE  Inv'
  <2>1. UpdateInv'
    BY <1>0, <1>10 DEF UpdateInv, registry, updater
  <2>2. ServerInv'
    BY <1>0, <1>1, <1>10 DEF ServerInv, Alive, TypeOK
  <2>3. FatalOnlyWhenOvertaken'
    BY <1>10 DEF Running, FatalOnlyWhenOvertaken
  <2> QED
    BY <2>1, <2>2, <2>3
<1>11. ASSUME NEW s \in Starts, Pick(s) PROVE Inv'
  BY <1>0, <1>1, <1>10, <1>11 DEF Pick, observed, TypeOK, Alive, ExporterSteps
<1>12. ASSUME NEW s \in Starts, Listen(s) PROVE Inv'
  BY <1>0, <1>1, <1>10, <1>12 DEF Listen, Proceed, observed, ServerInv, Alive, ExporterSteps
<1>13. ASSUME NEW s \in Starts, Serve(s) PROVE Inv'
  BY <1>0, <1>1, <1>10, <1>13 DEF Serve, Proceed, observed, ServerInv, Alive, ExporterSteps
<1>14. ASSUME NEW s \in Starts, ListenFails(s) PROVE Inv'
  <2>1. PICK other \in Starts : exporter[other] \in {"track", "serving"}
    BY <1>14 DEF ListenFails, PortTaken
  <2>2. overtaken
    BY <1>0, <1>14, <2>1 DEF ListenFails, ServerInv, Alive
  <2>3. UNCHANGED <<registry, series, updater, http>>
    BY <1>14 DEF ListenFails, observed
  <2>4. UpdateInv' /\ ServerInv'
    BY <1>0, <2>3 DEF UpdateInv, ServerInv, registry, updater, http
  <2> QED
    BY <2>2, <2>3, <2>4 DEF FatalOnlyWhenOvertaken, http
<1>15. /\ \A c \in Callers, x \in Contexts : Get(c, x) => Inv'
       /\ \A c \in Callers : (Room(c) => Inv') /\ (TooManyContexts(c) => Inv')
            /\ (BuildLabels(c) => Inv') /\ (RecordPanics(c) => Inv')
            /\ (Set(c) => Inv')
       /\ \A x \in Contexts : Expire(x) => Inv'
       /\ UNCHANGED vars => Inv'
  BY <1>2 DEF Get, Room, TooManyContexts, BuildLabels, RecordPanics, Set, Expire,
              observed, vars
<1>16. \A callback \in callbacks :
         (ReadHistogram(callback) => Inv') /\ (DeleteSeries(callback) => Inv')
  BY <1>2 DEF ReadHistogram, DeleteSeries, observed
<1> QED
  <2> HIDE DEF Inv
  <2>1. Inv'
    BY <1>3, <1>4, <1>6, <1>7, <1>8, <1>9, <1>11, <1>12, <1>13, <1>14, <1>15,
       <1>16, Cases
  <2> QED
    BY <2>1 DEF Inv

-----------------------------------------------------------------------------

\* The inductive invariant of the metrics of a service.
THEOREM MetricInvariant == Spec => []MetricInv
<1>1. Init => MetricInv
  <2> USE MetricAssumption
  <2>1. SUFFICES ASSUME Init PROVE MetricInv
    OBVIOUS
  <2>2. 1 \in Starts /\ 1 \in 0..1
    BY DEF Starts
  <2>3. TypeOK
    <3>1. exporter \in [Starts -> ExporterSteps] /\ picked \in [Starts -> 0..number]
      BY <2>1, <2>2 DEF Init, ExporterSteps
    <3>2. /\ number \in Starts /\ server \in Starts /\ builtFor \in [Callers -> 0..number]
          /\ calls \in 0..MaxCalls /\ expiries \in 0..MaxExpiries
          /\ updates \in 0..MaxUpdates
      BY <2>1, <2>2 DEF Init
    <3> QED
      BY <2>1, <3>1, <3>2 DEF Init, TypeOK
  <2>4. Pending = {}
    BY <2>1 DEF Init, Pending
  <2>5. IsFiniteSet({}) /\ Cardinality({}) = 0
    BY FS_EmptySet
  <2>6. CacheInv
    BY <2>1, <2>4, <2>5 DEF Init, CacheInv
  <2>7. UpdateInv
    BY <2>1 DEF Init, UpdateInv
  <2>8. ServerInv
    BY <2>1, <2>2 DEF Init, ServerInv, Alive
  <2> QED
    BY <2>1, <2>3, <2>6, <2>7, <2>8 DEF Init, MetricInv, LabelsFitUnlessUpdated, SeriesKnown,
                                 FatalOnlyWhenOvertaken
<1>2. MetricInv /\ [Next]_vars => MetricInv'
  BY TypeStep, CacheStep, LabelsStep, SeriesStep, ServerStep DEF MetricInv
<1> QED
  BY <1>1, <1>2, PTL DEF Spec

\* Variables keep their types; the cache keeps to the limit of a service.
THEOREM MetricTypeCorrect == Spec => []TypeOK
<1>1. MetricInv => TypeOK
  BY DEF MetricInv
<1> QED
  BY <1>1, MetricInvariant, PTL

\* buildLabels and recordLatency: labels fit the histogram unless it was
\* replaced between the two.
THEOREM LabelsFit == Spec => []LabelsFitUnlessUpdated
<1>1. MetricInv => LabelsFitUnlessUpdated
  BY DEF MetricInv
<1> QED
  BY <1>1, MetricInvariant, PTL

\* Evictions delete the series they should: none outlives its context in the
\* cache but one recorded after the eviction.
THEOREM SeriesAreKnown == Spec => []SeriesKnown
<1>1. MetricInv => SeriesKnown
  BY DEF MetricInv
<1> QED
  BY <1>1, MetricInvariant, PTL

\* onUpdate leaves no observation in a histogram without a registry, unless
\* the exporter fails to stop.
THEOREM ObservationsAreServed == Spec => []ObservationsServed
<1>1. MetricInv => ObservationsServed
  BY DEF MetricInv, UpdateInv, ObservationsServed
<1> QED
  BY <1>1, MetricInvariant, PTL

\* Once updates and servers have settled, what is served is what is recorded.
THEOREM CurrentIsServed == Spec => []CurrentRegistryServed
<1>1. MetricInv => CurrentRegistryServed
  BY DEF MetricInv, TypeOK, UpdateInv, ServerInv, Alive, CurrentRegistryServed
<1> QED
  BY <1>1, MetricInvariant, PTL

\* The collector does not end itself over its own port unless an update
\* overtakes the start of a server.
THEOREM FatalNeedsOvertaking == Spec => []FatalOnlyWhenOvertaken
<1>1. MetricInv => FatalOnlyWhenOvertaken
  BY DEF MetricInv
<1> QED
  BY <1>1, MetricInvariant, PTL
=============================================================================
