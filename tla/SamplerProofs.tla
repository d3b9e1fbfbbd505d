---------------------------- MODULE SamplerProofs ----------------------------
(***************************************************************************)
(* What the tail sampler does to every trace and every queue, for any      *)
(* number of consumers, services and batches, and any limits.              *)
(***************************************************************************)
EXTENDS Sampler, FiniteSetTheorems, SequenceTheorems, TLAPS

-----------------------------------------------------------------------------
(* The operators of the model                                              *)

\* A set of segments has a first one, as the intervals up to its members are
\* finite sets, and strict inclusion of these is well-founded.
LEMMA MinOf ==
  ASSUME NEW S, S \subseteq Nat, S # {}
  PROVE  Min(S) \in S
<1> DEFINE R == StrictSubsetOrdering(Nat)
           T == {1..x : x \in S}
<1>1. T \subseteq FiniteSubsetsOf(Nat)
  <2>1. \A x \in S : IsFiniteSet(1..x)
    BY FS_Interval
  <2> QED
    BY <2>1 DEF FiniteSubsetsOf
<1>2. IsWellFoundedOn(R, FiniteSubsetsOf(Nat))
  BY FS_StrictSubsetOrderingWellFounded
<1>3. T # {}
  OBVIOUS
<1>4. PICK least \in T : \A other \in T : <<other, least>> \notin R
  <2> HIDE DEF R, T
  <2> QED
    BY <1>1, <1>2, <1>3, WFMin
<1>5. PICK x \in S : least = 1..x
  OBVIOUS
<1>6. ASSUME NEW y \in S, ~(x <= y) PROVE FALSE
  <2>1. 1..y \subseteq 1..x /\ x \in 1..x /\ x \notin 1..y
    BY <1>6
  <2>2. 1..y # 1..x
    BY <2>1
  <2>3. 1..y \in T /\ <<1..y, 1..x>> \in R
    BY <2>1, <2>2 DEF StrictSubsetOrdering
  <2> QED
    BY <1>4, <1>5, <2>3
<1> QED
  BY <1>6 DEF Min

\* Segments have spans and these latencies.
LEMMA SegmentTypes ==
  ASSUME NEW trace \in Traces
  PROVE  /\ DOMAIN Segments[trace] \subseteq Nat \ {0}
         /\ DOMAIN Segments[trace] = 1..Len(Segments[trace])
         /\ \A k \in DOMAIN Segments[trace] :
              /\ Segments[trace][k].service \in Services
              /\ Segments[trace][k].request \in Requests
              /\ DOMAIN Segments[trace][k].spans = 1..Len(Segments[trace][k].spans)
              /\ Len(Segments[trace][k].spans) \in Nat
              /\ Segments[trace][k].spans # <<>> =>
                   /\ 1 \in DOMAIN Segments[trace][k].spans
                   /\ Segments[trace][k].spans[1].latency \in Int
<1> DEFINE Span == [error : {"no", "client", "other"}, latency : Int]
           Segment == [service : Services, request : Requests, spans : Seq(Span)]
<1>1. Segments[trace] \in Seq(Segment)
  BY SamplerConstants
<1>2. /\ DOMAIN Segments[trace] = 1..Len(Segments[trace])
      /\ Len(Segments[trace]) \in Nat
      /\ \A k \in 1..Len(Segments[trace]) : Segments[trace][k] \in Segment
  <2> HIDE DEF Segment
  <2> QED
    BY <1>1
<1>3. ASSUME NEW spans \in Seq(Span)
      PROVE  /\ DOMAIN spans = 1..Len(spans) /\ Len(spans) \in Nat
             /\ spans # <<>> => 1 \in DOMAIN spans /\ spans[1] \in Span
  <2> HIDE DEF Span
  <2>1. DOMAIN spans = 1..Len(spans) /\ Len(spans) \in Nat
    OBVIOUS
  <2>2. ASSUME spans # <<>> PROVE 1 \in 1..Len(spans)
    BY <2>2, EmptySeq
  <2> QED
    BY <2>1, <2>2
<1>4. \A k \in 1..Len(Segments[trace]) :
        /\ Segments[trace][k].service \in Services
        /\ Segments[trace][k].request \in Requests
        /\ Segments[trace][k].spans \in Seq(Span)
  BY <1>2
<1>5. \A s \in Span : s.latency \in Int
  OBVIOUS
<1> HIDE DEF Span, Segment
<1> QED
  BY <1>2, <1>3, <1>4, <1>5

\* The next segment has a main span.
LEMMA NextSegmentOf ==
  ASSUME NEW trace \in Traces, NEW k \in Nat
  PROVE  /\ NextSegment(trace, k) \in Nat
         /\ NextSegment(trace, k) # 0 =>
              /\ NextSegment(trace, k) \in DOMAIN Segments[trace]
              /\ Segments[trace][NextSegment(trace, k)].spans # <<>>
<1> DEFINE later == {i \in (k + 1)..Len(Segments[trace]) :
                       Segments[trace][i].spans # <<>>}
<1>1. later \subseteq DOMAIN Segments[trace] /\ later \subseteq Nat
  BY SegmentTypes
<1>2. CASE later = {}
  BY <1>2 DEF NextSegment
<1>3. CASE later # {}
  <2>1. NextSegment(trace, k) = Min(later)
    BY <1>3 DEF NextSegment
  <2>2. Min(later) \in later
    BY <1>1, <1>3, MinOf
  <2> QED
    BY <1>1, <2>1, <2>2
<1> QED
  BY <1>2, <1>3

\* A queue that keeps the slowest items pushed does so after a push.
LEMMA PushKeepsSlowest ==
  ASSUME NEW heap, NEW all, NEW item,
         IsFiniteSet(heap), heap \subseteq all, item \notin all,
         \A x \in all \cup {item} : Latency(x) \in Int,
         \A dropped \in all \ heap :
           /\ Cardinality(heap) = PerRequestLimit
           /\ \A x \in heap : Latency(dropped) <= Latency(x),
         NEW after \in AfterPush(heap, item)
  PROVE  /\ IsFiniteSet(after)
         /\ after \subseteq all \cup {item}
         /\ \A dropped \in (all \cup {item}) \ after :
              /\ Cardinality(after) = PerRequestLimit
              /\ \A x \in after : Latency(dropped) <= Latency(x)
         /\ Cardinality(heap) <= PerRequestLimit =>
              Cardinality(after) <= PerRequestLimit
<1>0. Cardinality(heap) \in Nat /\ PerRequestLimit \in Int
  BY FS_CardinalityType, SamplerConstants DEF PerRequestLimit
<1>1. CASE ~AtLimit(heap)
  <2>1. after = heap \cup {item}
    BY <1>1 DEF AfterPush
  <2>2. all \ heap = {} /\ (all \cup {item}) \ after = {}
    BY <1>1, <2>1 DEF AtLimit
  <2>3. IsFiniteSet(after) /\ Cardinality(after) = Cardinality(heap) + 1
    BY <2>1, FS_AddElement
  <2> QED
    BY <1>0, <1>1, <2>1, <2>2, <2>3 DEF AtLimit
<1>2. CASE AtLimit(heap)
  <2>1. PICK p \in Least(heap) :
          after = IF Latency(p) > Latency(item) THEN heap ELSE (heap \ {p}) \cup {item}
    BY <1>2 DEF AfterPush
  <2>2. p \in heap /\ \A x \in heap : Latency(p) <= Latency(x)
    BY <2>1 DEF Least
  <2>3. Cardinality(heap) = PerRequestLimit
    BY <1>2 DEF AtLimit
  <2>4. CASE Latency(p) > Latency(item)
    <3>1. after = heap
      BY <2>1, <2>4
    <3>2. \A x \in heap : Latency(item) <= Latency(x)
      BY <2>2, <2>4
    <3> QED
      BY <2>3, <3>1, <3>2
  <2>5. CASE ~(Latency(p) > Latency(item))
    <3>1. after = (heap \ {p}) \cup {item}
      BY <2>1, <2>5
    <3>2. /\ IsFiniteSet(heap \ {p})
          /\ Cardinality(heap \ {p}) = Cardinality(heap) - 1
      BY <2>2, FS_RemoveElement
    <3>3. /\ IsFiniteSet(after)
          /\ Cardinality(after) = Cardinality(heap \ {p}) + 1
      BY <3>1, <3>2, FS_AddElement
    <3>4. Cardinality(after) = PerRequestLimit
      BY <1>0, <2>3, <3>2, <3>3
    <3>5. ASSUME NEW dropped \in (all \cup {item}) \ after, NEW x \in after
          PROVE  Latency(dropped) <= Latency(x)
      <4>1. Latency(dropped) <= Latency(p)
        BY <2>2, <3>1, <3>5
      <4>2. Latency(p) <= Latency(x)
        BY <2>2, <2>5, <3>1, <3>5
      <4> QED
        BY <2>2, <3>1, <3>5, <4>1, <4>2
    <3>6. after \subseteq all \cup {item}
      BY <3>1
    <3> QED
      BY <1>0, <3>3, <3>4, <3>5, <3>6
  <2> QED
    BY <2>4, <2>5
<1> QED
  BY <1>1, <1>2

-----------------------------------------------------------------------------
(* Steps and types                                                         *)

\* Every step is one of these.
LEMMA Cases ==
  ASSUME NEW P,
         \A c \in Consumers : Call(c) => P,
         \A c \in Consumers : Load(c) => P,
         \A c \in Consumers : Resolve(c) => P,
         \A c \in Consumers : GiveUp(c) => P,
         \A c \in Consumers : Scan(c) => P,
         \A c \in Consumers : ResolveAgain(c) => P,
         \A c \in Consumers : NotDue(c) => P,
         \A c \in Consumers : Due(c) => P,
         \A c \in Consumers : DuePanics(c) => P,
         \A c \in Consumers : Count(c) => P,
         \A c \in Consumers : HeapPush(c) => P,
         \A c \in Consumers : Unlock(c) => P,
         Flush => P,
         \A service \in Services : Clear(service) => P,
         \A sampler \in toFlush : OpenErrors(sampler) => P,
         Export => P,
         ExportPanics => P,
         EndFlush => P,
         Stop => P,
         Update => P,
         UNCHANGED vars => P,
         [Next]_vars
  PROVE  P
BY DEF Next, Proceed, Work, FlusherStep

\* TypeOK, part by part.
RegistryTypes ==
  /\ known \subseteq Services
  /\ registry \in [Services -> [Requests -> Samplers \cup {None}]]
  /\ epoch \in [Services -> Nat]

QueueTypes ==
  /\ \A queue \in DOMAIN kept :
       /\ IsQueue(queue)
       /\ kept[queue] \subseteq pushed[queue]
       /\ LimitPerRequest > 0 => Cardinality(kept[queue]) <= PerRequestLimit
       /\ pushed[queue] \subseteq Items
  /\ DOMAIN pushed = DOMAIN kept
  /\ pushing \in [Consumers -> [queue : DOMAIN kept, item : Items \cup {None}]
                                \cup {None}]

ConsumerTypes ==
  /\ pc \in [Consumers -> {"idle", "load", "resolve", "refused", "scan",
                           "loadAgain", "resolveAgain", "decide", "count"}]
  /\ calls \in [Consumers -> Nat]
  /\ \A c \in Consumers : calls[c] <= Len(Batches[c])
  /\ traces \in [Consumers -> Seq(Traces)]
  /\ segment \in [Consumers -> Nat] /\ span \in [Consumers -> Nat]
  /\ requestState \in [Consumers -> Samplers \cup {None}]
  /\ sampled \in [Consumers -> BOOLEAN]

WalkTypes ==
  /\ flusherPc \in {"wait", "range", "stopped"}
  /\ toVisit \subseteq known
  /\ toFlush \subseteq Samplers
  /\ open \in DOMAIN kept \cup {None}
  /\ reads \in Nat /\ visible \subseteq Items
  /\ raced \in {"no", "swapped", "popped"}

HistoryTypes ==
  /\ pushes \in [Traces -> Nat]
  /\ late \subseteq DOMAIN kept /\ closed \subseteq DOMAIN kept
  /\ exported \subseteq Items
  /\ exports \in [Traces -> Nat]
  /\ counted \subseteq Traces

OtherTypes ==
  /\ panicked \in BOOLEAN
  /\ threshold \in Thresholds /\ ignoreClientErrors \in BOOLEAN
  /\ updates \in 0..MaxUpdates

\* The type invariant, variable by variable.
LEMMA TypeParts ==
  TypeOK <=> /\ RegistryTypes /\ QueueTypes /\ ConsumerTypes /\ WalkTypes
             /\ HistoryTypes /\ OtherTypes
BY DEF TypeOK, RegistryTypes, QueueTypes, ConsumerTypes, WalkTypes, HistoryTypes,
       OtherTypes

\* Each call has a batch, of traces that are not in any other.
LEMMA BatchTypes ==
  ASSUME NEW c \in Consumers
  PROVE  /\ Batches[c] \in Seq(Seq(Traces))
         /\ Len(Batches[c]) \in Nat /\ DOMAIN Batches[c] = 1..Len(Batches[c])
         /\ \A n \in DOMAIN Batches[c] :
              /\ Batches[c][n] \in Seq(Traces) /\ IsInjective(Batches[c][n])
              /\ Range(Batches[c][n]) \subseteq Traces
         /\ \A n \in DOMAIN Batches[c] :
              \A d \in Consumers : \A m \in DOMAIN Batches[d] :
                \A trace \in Range(Batches[c][n]) :
                  trace \in Range(Batches[d][m]) => c = d /\ n = m
<1>1. Batches[c] \in Seq(Seq(Traces))
  BY BatchesAssumption
<1>2. Len(Batches[c]) \in Nat /\ DOMAIN Batches[c] = 1..Len(Batches[c])
  BY <1>1, LenProperties
<1>3. ASSUME NEW n \in DOMAIN Batches[c]
      PROVE  /\ Batches[c][n] \in Seq(Traces) /\ IsInjective(Batches[c][n])
             /\ Range(Batches[c][n]) \subseteq Traces
  <2>1. Batches[c][n] \in Seq(Traces)
    BY <1>1, <1>2, ElementOfSeq
  <2>2. \A i \in DOMAIN Batches[c][n] : Batches[c][n][i] \in Traces
    BY <2>1, LenProperties
  <2> QED
    BY <2>1, <2>2, BatchesAssumption DEF Range
<1>4. \A n \in DOMAIN Batches[c], d \in Consumers : \A m \in DOMAIN Batches[d] :
        \A trace \in Range(Batches[c][n]) :
          trace \in Range(Batches[d][m]) => c = d /\ n = m
  BY BatchesAssumption
<1> QED
  BY <1>1, <1>2, <1>3, <1>4

-----------------------------------------------------------------------------
(* Where the consumers are                                                 *)

\* Queues stay.
LEMMA QueuesStay ==
  ASSUME [Next]_vars
  PROVE  DOMAIN kept \subseteq DOMAIN kept'
<1> DEFINE P == DOMAIN kept \subseteq DOMAIN kept'
<1>1. \A c \in Consumers : Find(c) \/ Create(c) \/ Refuse(c) => P
  BY DEF Find, Create, Refuse
<1>2. \A c, queue, item : Push(c, queue, item) => P
  BY DEF Push
<1>3. /\ \A c \in Consumers : Resolve(c) => P
      /\ \A c \in Consumers : ResolveAgain(c) => P
  BY <1>1 DEF Resolve, ResolveAgain
<1>4. /\ \A c \in Consumers : Scan(c) => P
      /\ \A c \in Consumers : Due(c) => P
  <2>1. NoPush => P
    BY DEF NoPush, queues
  <2> HIDE DEF P
  <2> QED
    BY <1>2, <2>1 DEF Scan, Due
<1>5. /\ \A c \in Consumers : Call(c) => P
      /\ \A c \in Consumers : Load(c) => P
      /\ \A c \in Consumers : GiveUp(c) => P
      /\ \A c \in Consumers : NotDue(c) => P
      /\ \A c \in Consumers : DuePanics(c) => P
      /\ \A c \in Consumers : Count(c) => P
      /\ \A c \in Consumers : HeapPush(c) => P
      /\ \A c \in Consumers : Unlock(c) => P
  BY DEF Call, Load, GiveUp, NotDue, DuePanics, Count, HeapPush, Unlock, shared, queues
<1>6. /\ Flush => P
      /\ \A service \in Services : Clear(service) => P
      /\ \A sampler \in toFlush : OpenErrors(sampler) => P
      /\ Export => P
      /\ ExportPanics => P
      /\ EndFlush => P
      /\ Stop => P
      /\ Update => P
      /\ UNCHANGED vars => P
  BY DEF Flush, Clear, OpenErrors, Export, ExportPanics, EndFlush, Stop, Update,
         vars, shared, queues
<1> QED
  <2> HIDE DEF P
  <2>1. P
    BY <1>3, <1>4, <1>5, <1>6, Cases
  <2> QED
    BY <2>1 DEF P

\* A sampler in the map is one of its request, and has its queues.
LEMMA SamplerOf ==
  ASSUME TypeOK, RegistryInv, NEW s \in Services, NEW r \in Requests,
         registry[s][r] # None
  PROVE  /\ registry[s][r] \in Samplers
         /\ registry[s][r][1] = s /\ registry[s][r][2] = r
         /\ registry[s][r][3] = epoch[s]
         /\ QueuesOf(registry[s][r]) \subseteq DOMAIN kept
BY DEF TypeOK, RegistryInv

\* What getRequestState gives.
LEMMA Resolved ==
  ASSUME TypeOK, RegistryInv, NEW c \in Consumers, AtWork(c), requestState[c] = None,
         pc[c] \in {"resolve", "resolveAgain"},
         Find(c) \/ Create(c) \/ Refuse(c)
  PROVE  /\ requestState' = [requestState EXCEPT ![c] = requestState'[c]]
         /\ requestState'[c] \in Samplers \cup {None}
         /\ requestState'[c] # None =>
              /\ QueuesOf(requestState'[c]) \subseteq DOMAIN kept'
              /\ requestState'[c][1] = Current(c).service
              /\ requestState'[c][2] = Current(c).request
<1> DEFINE s == Current(c).service
           r == Current(c).request
<1>1. s \in Services /\ r \in Requests
  <2>1. Head(traces[c]) \in Traces
    BY HeadTailProperties DEF TypeOK, AtWork
  <2> QED
    BY <2>1, SegmentTypes DEF AtWork, Current
<1>2. CASE Find(c)
  <2>1. /\ registry[s][r] # None /\ kept' = kept
        /\ requestState' = [requestState EXCEPT ![c] = registry[s][r]]
    BY <1>2 DEF Find, Absent
  <2>2. /\ registry[s][r] \in Samplers
        /\ registry[s][r][1] = s /\ registry[s][r][2] = r
        /\ QueuesOf(registry[s][r]) \subseteq DOMAIN kept
    BY <1>1, <2>1, SamplerOf
  <2>3. requestState'[c] = registry[s][r]
    BY <2>1 DEF TypeOK
  <2> HIDE DEF s, r
  <2>4. requestState' = [requestState EXCEPT ![c] = requestState'[c]]
    BY <2>1, <2>3
  <2> QED
    BY <2>1, <2>2, <2>3, <2>4 DEF s, r
<1>3. CASE Create(c)
  <2> DEFINE new == <<s, r, epoch[s], c>>
  <2>1. /\ requestState' = [requestState EXCEPT ![c] = new]
        /\ QueuesOf(new) \subseteq DOMAIN kept'
    BY <1>3 DEF Create
  <2>2. new \in Samplers /\ new[1] = s /\ new[2] = r
    BY <1>1 DEF Samplers, TypeOK
  <2> HIDE DEF new
  <2> QED
    BY <2>1, <2>2 DEF TypeOK
<1>4. CASE Refuse(c)
  BY <1>4 DEF Refuse, TypeOK
<1> QED
  BY <1>2, <1>3, <1>4

\* A consumer that holds no sampler at the next segment with a main span, or
\* at the count when there is none.
LEMMA AtSegment ==
  ASSUME ConsumerTypes, ConsumerTypes', NEW c \in Consumers, NEW k \in Nat,
         NEW label \in {"load", "loadAgain"},
         traces'[c] # <<>>,
         GotoSegment(c, NextSegment(Head(traces'[c]), k), label),
         label = "loadAgain" => ~sampled'[c],
         requestState'[c] = None
  PROVE  AtWork(c)'
<1>1. Head(traces'[c]) \in Traces
  BY HeadTailProperties DEF ConsumerTypes
<1>2. /\ segment'[c] = NextSegment(Head(traces'[c]), k)
      /\ pc'[c] = IF segment'[c] = 0 THEN "count" ELSE label
  BY DEF GotoSegment, Goto, ConsumerTypes
<1> QED
  BY <1>1, <1>2, NextSegmentOf DEF AtWork, Current

\* A consumer at the start of the rest of its batch.
LEMMA AtTrace ==
  ASSUME ConsumerTypes, NEW c \in Consumers, NEW rest \in Seq(Traces),
         GotoTrace(c, rest)
  PROVE  /\ traces' \in [Consumers -> Seq(Traces)]
         /\ sampled' \in [Consumers -> BOOLEAN]
         /\ segment' \in [Consumers -> Nat]
         /\ pc' \in [Consumers -> {"idle", "load", "resolve", "refused", "scan",
                                  "loadAgain", "resolveAgain", "decide", "count"}]
         /\ traces'[c] = rest
         /\ requestState'[c] = None => AtWork(c)'
         /\ \A d \in Consumers \ {c} :
              UNCHANGED <<traces[d], sampled[d], segment[d], pc[d]>>
<1>1. /\ traces' = [traces EXCEPT ![c] = rest]
      /\ sampled' = [sampled EXCEPT ![c] = FALSE]
  BY DEF GotoTrace
<1>2. /\ traces' \in [Consumers -> Seq(Traces)] /\ traces'[c] = rest
      /\ sampled' \in [Consumers -> BOOLEAN]
      /\ \A d \in Consumers \ {c} : UNCHANGED <<traces[d], sampled[d]>>
  BY <1>1 DEF ConsumerTypes
<1>3. CASE rest = <<>>
  <2>1. /\ segment' = [segment EXCEPT ![c] = 0]
        /\ pc' = [pc EXCEPT ![c] = "idle"]
    BY <1>3 DEF GotoTrace, Goto
  <2>2. /\ segment' \in [Consumers -> Nat]
        /\ pc' \in [Consumers -> {"idle", "load", "resolve", "refused", "scan",
                                  "loadAgain", "resolveAgain", "decide", "count"}]
        /\ pc'[c] = "idle"
        /\ \A d \in Consumers \ {c} : UNCHANGED <<segment[d], pc[d]>>
    BY <2>1 DEF ConsumerTypes
  <2>3. requestState'[c] = None => AtWork(c)'
    BY <1>2, <1>3, <2>2 DEF AtWork
  <2> QED
    BY <1>2, <2>2, <2>3
<1>4. CASE rest # <<>>
  <2>1. GotoSegment(c, NextSegment(Head(rest), 0), "load")
    BY <1>4 DEF GotoTrace
  <2>2. Head(rest) \in Traces
    BY <1>4, HeadTailProperties
  <2>3. /\ segment' = [segment EXCEPT ![c] = NextSegment(Head(rest), 0)]
        /\ pc' = [pc EXCEPT ![c] = IF NextSegment(Head(rest), 0) = 0
                                    THEN "count" ELSE "load"]
    BY <2>1 DEF GotoSegment, Goto
  <2>4. NextSegment(Head(rest), 0) \in Nat
    BY <2>2, NextSegmentOf
  <2>5. /\ segment' \in [Consumers -> Nat]
        /\ pc' \in [Consumers -> {"idle", "load", "resolve", "refused", "scan",
                                  "loadAgain", "resolveAgain", "decide", "count"}]
        /\ segment'[c] = NextSegment(Head(rest), 0)
        /\ pc'[c] = IF segment'[c] = 0 THEN "count" ELSE "load"
        /\ \A d \in Consumers \ {c} : UNCHANGED <<segment[d], pc[d]>>
    BY <2>3, <2>4 DEF ConsumerTypes
  <2>6. requestState'[c] = None => AtWork(c)'
    <3>1. segment'[c] # 0 =>
            segment'[c] \in DOMAIN Segments[Head(traces'[c])] /\ Current(c)'.spans # <<>>
      <4> DEFINE k == NextSegment(Head(rest), 0)
      <4>1. k # 0 => k \in DOMAIN Segments[Head(rest)] /\ Segments[Head(rest)][k].spans # <<>>
        BY <2>2, NextSegmentOf, 0 \in Nat
      <4>2. segment'[c] = k /\ traces'[c] = rest
        BY <1>2, <2>5
      <4> HIDE DEF k
      <4> QED
        BY <4>1, <4>2 DEF Current
    <3> QED
      BY <1>2, <1>4, <2>5, <3>1 DEF AtWork
  <2> QED
    BY <1>2, <2>5, <2>6
<1> QED
  BY <1>3, <1>4

\* Consumers keep their types and stay where the code lets them be.
LEMMA ConsumerStep ==
  ASSUME SamplerInv, [Next]_vars
  PROVE  ConsumerTypes' /\ ConsumerInv'
<1> DEFINE Inv == ConsumerTypes /\ ConsumerInv
           Others(c) == \A d \in Consumers \ {c} :
             UNCHANGED <<traces[d], sampled[d], segment[d], pc[d], span[d],
                         requestState[d]>>
<1>0. TypeOK /\ Inv /\ RegistryInv
  BY TypeParts DEF SamplerInv
<1>1. ASSUME NEW c \in Consumers, Others(c) PROVE \A d \in Consumers \ {c} : AtWork(d)'
  BY <1>0, <1>1, QueuesStay DEF ConsumerInv, AtWork, Current
<1>2. ASSUME UNCHANGED consumers PROVE Inv'
  BY <1>0, <1>2, QueuesStay DEF consumers, ConsumerTypes, ConsumerInv, AtWork, Current
<1>3. ASSUME NEW c \in Consumers
      PROVE  /\ AtWork(c)
             /\ pc[c] # "idle" => /\ traces[c] # <<>> /\ Head(traces[c]) \in Traces
                                 /\ Tail(traces[c]) \in Seq(Traces)
  BY <1>0, HeadTailProperties DEF ConsumerInv, ConsumerTypes, AtWork
\* From trace to trace.
<1>4. ASSUME NEW c \in Consumers, NEW rest \in Seq(Traces), GotoTrace(c, rest),
             requestState' = requestState, requestState[c] = None,
             \/ span' = span
             \/ span' = [span EXCEPT ![c] = 0],
             \/ calls' = calls
             \/ calls' = [calls EXCEPT ![c] = @ + 1] /\ calls[c] < Len(Batches[c])
      PROVE  Inv'
  <2>1. Others(c) /\ AtWork(c)'
    BY <1>0, <1>4, AtTrace DEF ConsumerTypes
  <2>2. /\ calls' \in [Consumers -> Nat]
        /\ \A d \in Consumers : calls'[d] <= Len(Batches[d])
    <3>1. CASE calls' = calls
      BY <1>0, <3>1 DEF ConsumerTypes
    <3>2. CASE calls' = [calls EXCEPT ![c] = @ + 1] /\ calls[c] < Len(Batches[c])
      <4>1. calls[c] \in Nat /\ Len(Batches[c]) \in Nat
        BY <1>0, BatchTypes DEF ConsumerTypes
      <4>2. calls[c] + 1 \in Nat /\ calls[c] + 1 <= Len(Batches[c])
        BY <3>2, <4>1
      <4> QED
        BY <1>0, <3>2, <4>2 DEF ConsumerTypes
    <3> QED
      BY <1>4, <3>1, <3>2
  <2>3. ConsumerTypes'
    <3>1. span' \in [Consumers -> Nat]
      <4>1. CASE span' = span
        BY <1>0, <4>1 DEF ConsumerTypes
      <4>2. CASE span' = [span EXCEPT ![c] = 0]
        BY <1>0, <4>2 DEF ConsumerTypes
      <4> QED
        BY <1>4, <4>1, <4>2
    <3> QED
      BY <1>0, <1>4, <2>2, <3>1, AtTrace DEF ConsumerTypes
  <2> QED
    BY <1>1, <2>1, <2>3 DEF ConsumerInv
<1>5. ASSUME NEW c \in Consumers, Call(c) PROVE Inv'
  <2>1. Batches[c][calls[c] + 1] \in Seq(Traces)
    <3>1. calls[c] \in Nat /\ calls[c] < Len(Batches[c])
      BY <1>0, <1>5 DEF Call, ConsumerTypes
    <3>2. calls[c] + 1 \in 1..Len(Batches[c])
      BY <3>1, BatchTypes
    <3> QED
      BY <3>2, BatchTypes
  <2>2. requestState[c] = None
    BY <1>3, <1>5 DEF Call, AtWork
  <2> QED
    BY <1>4, <1>5, <2>1, <2>2 DEF Call
<1>6. ASSUME NEW c \in Consumers, GiveUp(c) PROVE Inv'
  BY <1>3, <1>4, <1>6, EmptySeq DEF GiveUp, AfterRefusal, AtWork
<1>7. ASSUME NEW c \in Consumers, Count(c) PROVE Inv'
  BY <1>3, <1>4, <1>7 DEF Count, AtWork
\* Lookups.
<1>8. ASSUME NEW c \in Consumers, Load(c) PROVE Inv'
  <2> DEFINE found == registry[Current(c).service][Current(c).request]
  <2>1. /\ pc[c] \in {"load", "loadAgain"} /\ traces[c] # <<>>
        /\ Head(traces[c]) \in Traces
        /\ segment[c] \in DOMAIN Segments[Head(traces[c])] /\ Current(c).spans # <<>>
        /\ pc[c] = "loadAgain" => ~sampled[c]
    BY <1>3, <1>8 DEF Load, AtWork
  <2>2. /\ Current(c).service \in Services /\ Current(c).request \in Requests
        /\ 1 \in DOMAIN Current(c).spans
    BY <2>1, SegmentTypes DEF Current
  <2>3. found \in Samplers \cup {None}
    BY <1>0, <2>2 DEF TypeOK
  <2>4. /\ requestState' = [requestState EXCEPT ![c] = found]
        /\ span' = [span EXCEPT ![c] = IF pc[c] = "load" THEN 1 ELSE 0]
        /\ pc' = [pc EXCEPT ![c] =
                    CASE pc[c] = "load" /\ found # None -> "scan"
                      [] pc[c] = "load" /\ found = None -> "resolve"
                      [] pc[c] = "loadAgain" /\ found # None -> "decide"
                      [] pc[c] = "loadAgain" /\ found = None -> "resolveAgain"]
        /\ UNCHANGED <<traces, segment, sampled, calls, kept>>
    BY <1>8 DEF Load, Goto, queues
  <2>5. found # None =>
          /\ QueuesOf(found) \subseteq DOMAIN kept
          /\ found[1] = Current(c).service /\ found[2] = Current(c).request
    BY <1>0, <2>2, SamplerOf
  <2> HIDE DEF found
  <2>6. ConsumerTypes' /\ Others(c)
    BY <1>0, <2>1, <2>3, <2>4 DEF ConsumerTypes
  <2>7. Current(c)' = Current(c)
    BY <2>4 DEF Current
  <2>8. AtWork(c)'
    BY <1>0, <2>1, <2>2, <2>4, <2>5, <2>7 DEF AtWork, ConsumerTypes
  <2> QED
    BY <1>1, <2>6, <2>8 DEF ConsumerInv
<1>9. ASSUME NEW c \in Consumers, Resolve(c) \/ ResolveAgain(c) PROVE Inv'
  <2>1. /\ pc[c] \in {"resolve", "resolveAgain"} /\ requestState[c] = None
        /\ segment[c] \in DOMAIN Segments[Head(traces[c])] /\ Current(c).spans # <<>>
        /\ pc[c] = "resolveAgain" => ~sampled[c]
        /\ traces[c] # <<>>
    BY <1>3, <1>9 DEF Resolve, ResolveAgain, AtWork
  <2>2. Find(c) \/ Create(c) \/ Refuse(c)
    BY <1>9 DEF Resolve, ResolveAgain
  <2>3. /\ requestState' = [requestState EXCEPT ![c] = requestState'[c]]
        /\ requestState'[c] \in Samplers \cup {None}
        /\ requestState'[c] # None =>
             /\ QueuesOf(requestState'[c]) \subseteq DOMAIN kept'
             /\ requestState'[c][1] = Current(c).service
             /\ requestState'[c][2] = Current(c).request
    BY <1>0, <1>3, <2>1, <2>2, Resolved
  <2>4. UNCHANGED <<traces, segment, sampled, calls>>
    BY <1>9 DEF Resolve, ResolveAgain
  <2>5. Current(c)' = Current(c)
    BY <2>4 DEF Current
  <2>6. CASE Resolve(c)
    <3>1. /\ span' = span /\ pc[c] = "resolve"
          /\ pc' = [pc EXCEPT ![c] = IF requestState'[c] = None
                                      THEN "refused" ELSE "scan"]
      BY <2>6 DEF Resolve, Goto
    <3>2. ConsumerTypes' /\ Others(c)
      BY <1>0, <2>3, <2>4, <3>1 DEF ConsumerTypes
    <3> QED
      <4>1. span[c] \in DOMAIN Current(c).spans
        BY <1>3, <3>1 DEF AtWork
      <4>2. AtWork(c)'
        BY <1>0, <2>1, <2>3, <2>4, <2>5, <3>1, <4>1 DEF AtWork, ConsumerTypes
      <4> QED
        BY <1>1, <3>2, <4>2 DEF ConsumerInv
  <2>7. CASE ResolveAgain(c)
    <3>1. /\ span' = span /\ pc' = [pc EXCEPT ![c] = "decide"]
          /\ pc[c] = "resolveAgain"
      BY <2>7 DEF ResolveAgain, Goto
    <3>2. ConsumerTypes' /\ Others(c)
      BY <1>0, <2>3, <2>4, <3>1 DEF ConsumerTypes
    <3>3. AtWork(c)'
      BY <1>0, <2>1, <2>3, <2>4, <2>5, <3>1 DEF AtWork, ConsumerTypes
    <3> QED
      BY <1>1, <3>2, <3>3 DEF ConsumerInv
  <2> QED
    BY <1>9, <2>6, <2>7
\* Spans.
<1>10. ASSUME NEW c \in Consumers, NEW k \in Nat, NEW label \in {"load", "loadAgain"},
              pc[c] # "idle", traces' = traces, calls' = calls,
              GotoSegment(c, NextSegment(Head(traces[c]), k), label),
              label = "loadAgain" => ~sampled'[c],
              requestState' = [requestState EXCEPT ![c] = None],
              span' = span \/ span' = [span EXCEPT ![c] = 0],
              sampled' = sampled \/ sampled' = [sampled EXCEPT ![c] = TRUE]
       PROVE  Inv'
  <2> DEFINE next == NextSegment(Head(traces[c]), k)
  <2>1. /\ segment' = [segment EXCEPT ![c] = next]
        /\ pc' = [pc EXCEPT ![c] = IF next = 0 THEN "count" ELSE label]
    BY <1>10 DEF GotoSegment, Goto
  <2>2. traces[c] # <<>> /\ next \in Nat
    BY <1>3, <1>10, NextSegmentOf
  <2>3. ConsumerTypes' /\ Others(c) /\ requestState'[c] = None
    <3>1. /\ span' \in [Consumers -> Nat] /\ sampled' \in [Consumers -> BOOLEAN]
          /\ \A d \in Consumers \ {c} : UNCHANGED <<span[d], sampled[d]>>
      <4>1. CASE span' = span /\ sampled' = sampled
        BY <1>0, <4>1 DEF ConsumerTypes
      <4>2. CASE span' = span /\ sampled' = [sampled EXCEPT ![c] = TRUE]
        BY <1>0, <4>2 DEF ConsumerTypes
      <4>3. CASE span' = [span EXCEPT ![c] = 0] /\ sampled' = sampled
        BY <1>0, <4>3 DEF ConsumerTypes
      <4>4. CASE /\ span' = [span EXCEPT ![c] = 0]
                 /\ sampled' = [sampled EXCEPT ![c] = TRUE]
        BY <1>0, <4>4 DEF ConsumerTypes
      <4> QED
        BY <1>10, <4>1, <4>2, <4>3, <4>4
    <3>2. /\ segment' \in [Consumers -> Nat]
          /\ pc' \in [Consumers -> {"idle", "load", "resolve", "refused", "scan",
                                    "loadAgain", "resolveAgain", "decide", "count"}]
          /\ \A d \in Consumers \ {c} : UNCHANGED <<segment[d], pc[d]>>
      BY <1>0, <2>1, <2>2 DEF ConsumerTypes
    <3> QED
      BY <1>0, <1>10, <3>1, <3>2 DEF ConsumerTypes
  <2>4. AtWork(c)'
    BY <1>0, <1>10, <2>2, <2>3, AtSegment
  <2> QED
    BY <1>1, <2>3, <2>4 DEF ConsumerInv
<1>11. ASSUME NEW c \in Consumers, Scan(c) PROVE Inv'
  <2> DEFINE tr == Head(traces[c])
  <2>1. /\ pc[c] = "scan" /\ UNCHANGED <<traces, calls>> /\ segment[c] \in Nat
        /\ sampled' = sampled \/ sampled' = [sampled EXCEPT ![c] = TRUE]
    BY <1>0, <1>11 DEF Scan, ConsumerTypes
  <2>2. CASE span[c] < Len(Current(c).spans)
    <3>1. /\ span' = [span EXCEPT ![c] = @ + 1]
          /\ UNCHANGED <<pc, segment, requestState>>
      BY <1>11, <2>2 DEF Scan
    <3>2. /\ traces[c] # <<>> /\ tr \in Traces /\ span[c] \in Nat
          /\ segment[c] \in DOMAIN Segments[tr]
      BY <1>0, <1>3, <2>1 DEF AtWork, ConsumerTypes
    <3>3. span[c] + 1 \in DOMAIN Current(c).spans
      BY <2>2, <3>2, SegmentTypes DEF Current
    <3>4. ConsumerTypes' /\ Others(c) /\ span'[c] = span[c] + 1
      <4>1. sampled' \in [Consumers -> BOOLEAN]
              /\ \A d \in Consumers \ {c} : UNCHANGED sampled[d]
        BY <1>0, <2>1 DEF ConsumerTypes
      <4>2. span' \in [Consumers -> Nat] /\ span'[c] = span[c] + 1
              /\ \A d \in Consumers \ {c} : UNCHANGED span[d]
        BY <1>0, <3>1, <3>2 DEF ConsumerTypes
      <4> QED
        BY <1>0, <2>1, <3>1, <4>1, <4>2 DEF ConsumerTypes
    <3>5. Current(c)' = Current(c)
      BY <2>1, <3>1 DEF Current
    <3>6. AtWork(c)'
      BY <1>3, <2>1, <3>1, <3>3, <3>4, <3>5, QueuesStay DEF AtWork
    <3> QED
      BY <1>1, <3>4, <3>6 DEF ConsumerInv
  <2>3. CASE ~(span[c] < Len(Current(c).spans))
    <3>1. /\ span' = [span EXCEPT ![c] = 0]
          /\ requestState' = [requestState EXCEPT ![c] = None]
          /\ IF NextSegment(tr, segment[c]) = 0 /\ ~sampled'[c]
               THEN GotoSegment(c, NextSegment(tr, 0), "loadAgain")
               ELSE GotoSegment(c, NextSegment(tr, segment[c]), "load")
      BY <1>11, <2>3 DEF Scan
    <3>2. CASE NextSegment(tr, segment[c]) = 0 /\ ~sampled'[c]
      <4>1. GotoSegment(c, NextSegment(Head(traces[c]), 0), "loadAgain")
        BY <3>1, <3>2
      <4> QED
        BY <1>10, <2>1, <3>1, <3>2, <4>1, 0 \in Nat
    <3>3. CASE ~(NextSegment(tr, segment[c]) = 0 /\ ~sampled'[c])
      BY <1>10, <2>1, <3>1, <3>3
    <3> QED
      BY <3>2, <3>3
  <2> QED
    BY <2>2, <2>3
<1>12. ASSUME NEW c \in Consumers, NotDue(c) PROVE Inv'
  <2>1. segment[c] \in Nat /\ pc[c] = "decide" /\ ~sampled'[c]
    BY <1>0, <1>3, <1>12 DEF NotDue, ConsumerTypes, AtWork
  <2> QED
    BY <1>10, <1>12, <2>1 DEF NotDue
<1>13. ASSUME NEW c \in Consumers, Due(c) PROVE Inv'
  <2>1. /\ UNCHANGED <<traces, calls, span>>
        /\ sampled' = [sampled EXCEPT ![c] = TRUE]
        /\ requestState' = [requestState EXCEPT ![c] = None]
        /\ segment' = [segment EXCEPT ![c] = 0]
        /\ pc' = [pc EXCEPT ![c] = "count"]
        /\ traces[c] # <<>>
    BY <1>3, <1>13 DEF Due, GotoSegment, Goto
  <2>2. ConsumerTypes' /\ Others(c)
    BY <1>0, <2>1 DEF ConsumerTypes
  <2>3. AtWork(c)'
    BY <1>0, <2>1 DEF AtWork, ConsumerTypes
  <2> QED
    BY <1>1, <2>2, <2>3 DEF ConsumerInv
<1>14. /\ \A c \in Consumers : DuePanics(c) => Inv'
       /\ \A c \in Consumers : HeapPush(c) => Inv'
       /\ \A c \in Consumers : Unlock(c) => Inv'
       /\ Flush => Inv'
       /\ \A service \in Services : Clear(service) => Inv'
       /\ \A sampler \in toFlush : OpenErrors(sampler) => Inv'
       /\ Export => Inv'
       /\ ExportPanics => Inv'
       /\ EndFlush => Inv'
       /\ Stop => Inv'
       /\ Update => Inv'
       /\ UNCHANGED vars => Inv'
  BY <1>2 DEF DuePanics, HeapPush, Unlock, Flush, Clear, OpenErrors, Export,
              ExportPanics, EndFlush, Stop, Update, vars
<1> QED
  <2> HIDE DEF Inv
  <2>1. Inv'
    BY <1>5, <1>6, <1>7, <1>8, <1>9, <1>11, <1>12, <1>13, <1>14, Cases
  <2> QED
    BY <2>1 DEF Inv

-----------------------------------------------------------------------------
(* The maps of the services                                                *)

\* The segment a consumer is at has a service and a request.
LEMMA CurrentTypes ==
  ASSUME TypeOK, ConsumerInv, NEW c \in Consumers, pc[c] \notin {"idle", "count"}
  PROVE  /\ traces[c] # <<>> /\ Head(traces[c]) \in Traces
         /\ segment[c] \in DOMAIN Segments[Head(traces[c])]
         /\ Current(c).service \in Services /\ Current(c).request \in Requests
<1>1. AtWork(c)
  BY DEF ConsumerInv
<1>2. traces[c] # <<>> /\ Head(traces[c]) \in Traces
  BY <1>1, HeadTailProperties DEF TypeOK, AtWork
<1> QED
  BY <1>1, <1>2, SegmentTypes DEF AtWork, Current

\* A sampler and what a queue is called after it.
LEMMA QueueTypesOf ==
  ASSUME NEW queue, IsQueue(queue)
  PROVE  /\ queue[1] \in Samplers /\ queue[2] \in {"error", "slow"}
         /\ queue = Queue(queue[1], queue[2])
         /\ queue \in QueuesOf(queue[1])
         /\ queue # None
         /\ queue[1][1] \in Services /\ queue[1][2] \in Requests /\ queue[1][3] \in Nat
BY SamplerConstants DEF IsQueue, Samplers, Queue, QueuesOf

\* The queues of a sampler are those called after it.
LEMMA QueuesOfSampler ==
  ASSUME NEW sampler \in Samplers
  PROVE  /\ sampler # None
         /\ sampler[1] \in Services /\ sampler[2] \in Requests /\ sampler[3] \in Nat
         /\ \A queue \in QueuesOf(sampler) : IsQueue(queue) /\ queue[1] = sampler
         /\ QueuesOf(sampler) = {Queue(sampler, "error"), Queue(sampler, "slow")}
         /\ Queue(sampler, "error") # Queue(sampler, "slow")
         /\ \A kind \in {"error", "slow"} :
              /\ Queue(sampler, kind)[1] = sampler /\ Queue(sampler, kind)[2] = kind
              /\ Queue(sampler, kind) # None
              /\ IsQueue(Queue(sampler, kind))
BY SamplerConstants DEF IsQueue, Samplers, Queue, QueuesOf

\* A new sampler has the epoch of its service, and no queue of its name is
\* there yet.
LEMMA Created ==
  ASSUME TypeOK, RegistryInv, ConsumerInv, NEW c \in Consumers,
         pc[c] \in {"resolve", "resolveAgain"}, Create(c), epoch' = epoch
  PROVE  LET s == Current(c).service
             r == Current(c).request
             new == <<s, r, epoch[s], c>>
         IN  /\ new \in Samplers
             /\ registry' = [registry EXCEPT ![s][r] = new]
             /\ registry[s][r] = None
             /\ DOMAIN kept' = DOMAIN kept \cup QueuesOf(new)
             /\ DOMAIN pushed' = DOMAIN kept'
             /\ \A queue \in QueuesOf(new) :
                  queue \notin DOMAIN kept /\ kept'[queue] = {} /\ pushed'[queue] = {}
             /\ \A queue \in DOMAIN kept :
                  kept'[queue] = kept[queue] /\ pushed'[queue] = pushed[queue]
<1> DEFINE s == Current(c).service
           r == Current(c).request
           new == <<s, r, epoch[s], c>>
<1>1. s \in Services /\ r \in Requests
  BY CurrentTypes
<1>2. new \in Samplers /\ new[1] = s /\ new[2] = r /\ new[3] = epoch[s]
  BY <1>1 DEF Samplers, TypeOK
<1>3. /\ registry' = [registry EXCEPT ![s][r] = new] /\ registry[s][r] = None
      /\ kept' = [q \in DOMAIN kept \cup QueuesOf(new) |->
                    IF q \in QueuesOf(new) THEN {} ELSE kept[q]]
      /\ pushed' = [q \in DOMAIN kept' |->
                      IF q \in QueuesOf(new) THEN {} ELSE pushed[q]]
  BY DEF Create, Absent
<1> HIDE DEF new
<1>4. ASSUME NEW queue \in QueuesOf(new) PROVE queue \notin DOMAIN kept
  <2>1. queue[1] = new
    BY <1>2, QueuesOfSampler
  <2>2. ~Live(queue[1])
    BY <1>2, <1>3, <2>1, SamplerConstants DEF Live, Samplers
  <2> QED
    BY <1>2, <2>1, <2>2 DEF RegistryInv
<1>5. DOMAIN kept' = DOMAIN kept \cup QueuesOf(new) /\ DOMAIN pushed' = DOMAIN kept'
  BY <1>3
<1>6. \A queue \in QueuesOf(new) : kept'[queue] = {} /\ pushed'[queue] = {}
  BY <1>3, <1>5
<1>7. \A queue \in DOMAIN kept :
        kept'[queue] = kept[queue] /\ pushed'[queue] = pushed[queue]
  BY <1>3, <1>4, <1>5
<1> QED
  BY <1>2, <1>3, <1>4, <1>5, <1>6, <1>7 DEF new

\* The maps keep their types, and only what is in them has the epoch.
LEMMA RegistryStep ==
  ASSUME SamplerInv, [Next]_vars
  PROVE  RegistryTypes' /\ RegistryInv'
<1> DEFINE Inv == RegistryTypes /\ RegistryInv
<1>0. TypeOK /\ Inv /\ ConsumerInv /\ QueueTypes
  BY TypeParts DEF SamplerInv
<1>1. ASSUME UNCHANGED <<known, registry, epoch>>, DOMAIN kept' = DOMAIN kept PROVE Inv'
  BY <1>0, <1>1 DEF RegistryTypes, RegistryInv, Live
<1>2. ASSUME NEW c \in Consumers, Load(c) PROVE Inv'
  <2>1. Current(c).service \in Services
    BY <1>0, <1>2, CurrentTypes DEF Load
  <2>2. /\ UNCHANGED <<registry, epoch, kept>>
        /\ known' = known \cup {Current(c).service}
    BY <1>2 DEF Load, Stored, queues
  <2> QED
    BY <1>0, <2>1, <2>2 DEF RegistryTypes, RegistryInv, Live
<1>3. ASSUME NEW c \in Consumers, pc[c] \in {"resolve", "resolveAgain"},
             Find(c) \/ Create(c) \/ Refuse(c), UNCHANGED <<known, epoch>>
      PROVE  Inv'
  <2> DEFINE s == Current(c).service
             r == Current(c).request
             new == <<s, r, epoch[s], c>>
  <2>1. CASE Find(c) \/ Refuse(c)
    BY <1>1, <1>3, <2>1 DEF Find, Refuse
  <2>2. CASE Create(c)
    <3>1. /\ new \in Samplers /\ registry' = [registry EXCEPT ![s][r] = new]
          /\ registry[s][r] = None
          /\ DOMAIN kept' = DOMAIN kept \cup QueuesOf(new)
      BY <1>0, <1>3, <2>2, Created
    <3>2. s \in Services /\ r \in Requests
      BY <1>0, <1>3, CurrentTypes
    <3>3. new[1] = s /\ new[2] = r /\ new[3] = epoch[s]
      OBVIOUS
    <3>4. /\ registry' \in [Services -> [Requests -> Samplers \cup {None}]]
          /\ registry'[s][r] = new
          /\ \A s2 \in Services, r2 \in Requests :
               <<s2, r2>> # <<s, r>> => registry'[s2][r2] = registry[s2][r2]
      BY <1>0, <3>1, <3>2 DEF RegistryTypes
    <3>5. RegistryTypes'
      BY <1>0, <1>3, <3>4 DEF RegistryTypes
    <3>6. ASSUME NEW s2 \in Services, NEW r2 \in Requests, registry'[s2][r2] # None
          PROVE  /\ \E d \in Consumers : registry'[s2][r2] = <<s2, r2, epoch'[s2], d>>
                 /\ QueuesOf(registry'[s2][r2]) \subseteq DOMAIN kept'
      <4>1. CASE <<s2, r2>> = <<s, r>>
        BY <1>3, <3>1, <3>4, <4>1
      <4>2. CASE <<s2, r2>> # <<s, r>>
        <5>1. registry'[s2][r2] = registry[s2][r2] /\ epoch'[s2] = epoch[s2]
          BY <1>3, <3>4, <4>2
        <5>2. /\ \E d \in Consumers : registry[s2][r2] = <<s2, r2, epoch[s2], d>>
              /\ QueuesOf(registry[s2][r2]) \subseteq DOMAIN kept
          BY <1>0, <3>6, <5>1 DEF RegistryInv
        <5> QED
          BY <3>1, <5>1, <5>2
      <4> QED
        BY <4>1, <4>2
    <3>7. ASSUME NEW queue \in DOMAIN kept'
          PROVE  /\ queue[1][3] <= epoch'[queue[1][1]]
                 /\ queue[1][3] = epoch'[queue[1][1]] => Live(queue[1])'
      <4>1. CASE queue \in QueuesOf(new)
        <5>1. queue[1] = new
          BY <3>1, <4>1, QueuesOfSampler
        <5>2. epoch[s] \in Nat
          BY <1>0, <3>2 DEF RegistryTypes
        <5> HIDE DEF new
        <5> QED
          BY <1>3, <3>3, <3>4, <5>1, <5>2 DEF Live
      <4>2. CASE queue \in DOMAIN kept
        <5>1. IsQueue(queue)
          BY <1>0, <4>2 DEF QueueTypes
        <5>2. /\ queue[1] \in Samplers /\ queue[1] # None
              /\ queue[1][1] \in Services /\ queue[1][2] \in Requests
          BY <5>1, QueueTypesOf, QueuesOfSampler
        <5>3. ASSUME Live(queue[1]) PROVE Live(queue[1])'
          <6>1. <<queue[1][1], queue[1][2]>> # <<s, r>>
            BY <3>1, <5>2, <5>3 DEF Live
          <6> QED
            BY <3>4, <5>2, <5>3, <6>1 DEF Live
        <5> QED
          BY <1>0, <1>3, <4>2, <5>3 DEF RegistryInv
      <4> QED
        BY <3>1, <4>1, <4>2
    <3> QED
      BY <3>5, <3>6, <3>7 DEF RegistryInv
  <2> QED
    BY <1>3, <2>1, <2>2
<1>4. ASSUME NEW service \in Services, Clear(service) PROVE Inv'
  <2>1. /\ registry' = [registry EXCEPT ![service] = [r \in Requests |-> None]]
        /\ epoch' = [epoch EXCEPT ![service] =
                       IF Registered(service) = {} THEN @ ELSE @ + 1]
        /\ UNCHANGED <<known, kept>>
    BY <1>4 DEF Clear, queues
  <2>2. /\ \A r \in Requests : registry'[service][r] = None
        /\ \A s \in Services \ {service} :
             registry'[s] = registry[s] /\ epoch'[s] = epoch[s]
        /\ epoch'[service] = IF Registered(service) = {} THEN epoch[service]
                                                         ELSE epoch[service] + 1
        /\ epoch[service] \in Nat
        /\ RegistryTypes'
    BY <1>0, <2>1 DEF RegistryTypes
  <2>3. ASSUME NEW s \in Services, NEW r \in Requests, registry'[s][r] # None
        PROVE  /\ \E d \in Consumers : registry'[s][r] = <<s, r, epoch'[s], d>>
               /\ QueuesOf(registry'[s][r]) \subseteq DOMAIN kept'
    BY <1>0, <2>1, <2>2, <2>3 DEF RegistryInv
  <2>4. ASSUME NEW queue \in DOMAIN kept'
        PROVE  /\ queue[1][3] <= epoch'[queue[1][1]]
               /\ queue[1][3] = epoch'[queue[1][1]] => Live(queue[1])'
    <3>1. queue \in DOMAIN kept /\ IsQueue(queue)
      BY <1>0, <2>1, <2>4 DEF QueueTypes
    <3>2. /\ queue[1] # None /\ queue[1][1] \in Services /\ queue[1][2] \in Requests
          /\ queue[1][3] \in Nat
      BY <3>1, QueueTypesOf, QueuesOfSampler
    <3>3. /\ queue[1][3] <= epoch[queue[1][1]]
          /\ queue[1][3] = epoch[queue[1][1]] => Live(queue[1])
      BY <1>0, <3>1 DEF RegistryInv
    <3>4. CASE queue[1][1] # service
      BY <2>2, <3>2, <3>3, <3>4 DEF Live
    <3>5. CASE queue[1][1] = service /\ Registered(service) # {}
      BY <2>2, <3>2, <3>3, <3>5
    <3>6. CASE queue[1][1] = service /\ Registered(service) = {}
      <4>1. ~Live(queue[1])
        BY <3>2, <3>6 DEF Live, Registered
      <4> QED
        BY <2>2, <3>2, <3>3, <3>6, <4>1
    <3> QED
      BY <3>4, <3>5, <3>6
  <2> QED
    BY <2>2, <2>3, <2>4 DEF RegistryInv
<1>5. /\ \A c \in Consumers : Resolve(c) => Inv'
      /\ \A c \in Consumers : ResolveAgain(c) => Inv'
  BY <1>3 DEF Resolve, ResolveAgain
<1>6. /\ \A c \in Consumers : Call(c) => Inv'
      /\ \A c \in Consumers : GiveUp(c) => Inv'
      /\ \A c \in Consumers : NotDue(c) => Inv'
      /\ \A c \in Consumers : DuePanics(c) => Inv'
      /\ \A c \in Consumers : Count(c) => Inv'
      /\ \A c \in Consumers : HeapPush(c) => Inv'
      /\ \A c \in Consumers : Unlock(c) => Inv'
  BY <1>1 DEF Call, GiveUp, NotDue, DuePanics, Count, HeapPush, Unlock, shared, queues
<1>7. \A c, queue, item : Push(c, queue, item) => DOMAIN kept' = DOMAIN kept
  BY DEF Push
<1>8. /\ \A c \in Consumers : Scan(c) => Inv'
      /\ \A c \in Consumers : Due(c) => Inv'
  BY <1>1, <1>7 DEF Scan, Due, NoPush, queues
<1>9. /\ Flush => Inv'
      /\ \A sampler \in toFlush : OpenErrors(sampler) => Inv'
      /\ Export => Inv'
      /\ ExportPanics => Inv'
      /\ EndFlush => Inv'
      /\ Stop => Inv'
      /\ Update => Inv'
      /\ UNCHANGED vars => Inv'
  BY <1>1 DEF Flush, OpenErrors, Export, ExportPanics, EndFlush, Stop, Update, vars,
              shared, queues
<1> QED
  <2> HIDE DEF Inv
  <2>1. Inv'
    BY <1>2, <1>4, <1>5, <1>6, <1>8, <1>9, Cases
  <2> QED
    BY <2>1 DEF Inv

-----------------------------------------------------------------------------
(* The queues and the flusher                                              *)

\* A queue is that of a sampler in the map, or was taken.
LEMMA LiveOrTaken ==
  ASSUME TypeOK, RegistryInv, NEW queue \in DOMAIN kept
  PROVE  Live(queue[1]) <=> ~Taken(queue[1])
<1> DEFINE sampler == queue[1]
<1>1. /\ sampler \in Samplers /\ sampler # None
      /\ sampler[1] \in Services /\ sampler[2] \in Requests /\ sampler[3] \in Nat
  BY QueueTypesOf, QueuesOfSampler DEF TypeOK
<1>2. epoch[sampler[1]] \in Nat
  BY <1>1 DEF TypeOK
<1>3. Live(sampler) => sampler[3] = epoch[sampler[1]]
  BY <1>1, SamplerOf DEF Live
<1>4. /\ sampler[3] <= epoch[sampler[1]]
      /\ sampler[3] = epoch[sampler[1]] => Live(sampler)
  BY DEF RegistryInv
<1> QED
  BY <1>1, <1>2, <1>3, <1>4 DEF Taken

\* An item has a latency.
LEMMA LatencyType ==
  ASSUME NEW item \in Items, item.segment \in DOMAIN Segments[item.trace],
         Segments[item.trace][item.segment].spans # <<>>
  PROVE  Latency(item) \in Int
BY SegmentTypes DEF Items, Latency

\* The first push of a trace, into a queue of the map or one taken from it.
LEMMA PushStep ==
  ASSUME SamplerInv, NEW c \in Consumers, NEW queue \in DOMAIN kept,
         NEW item \in Items,
         item.segment \in DOMAIN Segments[item.trace],
         Segments[item.trace][item.segment].spans # <<>>,
         pushes[item.trace] = 0, Push(c, queue, item),
         UNCHANGED <<known, registry, epoch, flusherPc, toVisit, toFlush, open, reads,
                     closed, exported, exports, counted>>
  PROVE  /\ QueueTypes' /\ WalkTypes' /\ HistoryTypes'
         /\ QueueInv' /\ FlusherInv' /\ PushInv' /\ ExportInv' /\ SampledOnce'
         /\ pushes' = [pushes EXCEPT ![item.trace] = 1]
<1> DEFINE heap == kept'[queue]
<1>0. /\ TypeOK /\ RegistryInv /\ QueueInv /\ FlusherInv /\ SampledOnce
      /\ PushInv /\ ExportInv /\ QueueTypes /\ WalkTypes /\ HistoryTypes
  BY TypeParts DEF SamplerInv
<1>1. /\ DOMAIN kept' = DOMAIN kept /\ DOMAIN pushed' = DOMAIN kept
      /\ heap \in AfterPush(kept[queue], item)
      /\ pushed'[queue] = pushed[queue] \cup {item}
      /\ \A q \in DOMAIN kept \ {queue} :
           kept'[q] = kept[q] /\ pushed'[q] = pushed[q]
  BY <1>0 DEF Push, QueueTypes
<1>2. /\ item.trace \in Traces /\ pushes[item.trace] \in Nat
      /\ pushes' = [pushes EXCEPT ![item.trace] = 1]
      /\ \A trace \in Traces : pushes'[trace] >= pushes[trace]
      /\ pushes' \in [Traces -> Nat] /\ pushes'[item.trace] = 1
      /\ \A trace \in Traces \ {item.trace} : pushes'[trace] = pushes[trace]
  BY <1>0 DEF Push, HistoryTypes, Items
<1>3. \A q \in DOMAIN kept : \A x \in pushed[q] : x.trace # item.trace
  BY <1>0, <1>2 DEF QueueInv
<1>4. \A x \in pushed[queue] \cup {item} : Latency(x) \in Int
  BY <1>0, LatencyType DEF QueueInv, QueueTypes
<1>5. /\ IsFiniteSet(heap) /\ heap \subseteq pushed'[queue]
      /\ \A dropped \in pushed'[queue] \ heap :
           /\ Cardinality(heap) = PerRequestLimit
           /\ \A x \in heap : Latency(dropped) <= Latency(x)
      /\ Cardinality(kept[queue]) <= PerRequestLimit =>
           Cardinality(heap) <= PerRequestLimit
  <2>1. /\ IsFiniteSet(kept[queue]) /\ kept[queue] \subseteq pushed[queue]
        /\ \A dropped \in pushed[queue] \ kept[queue] :
             /\ Cardinality(kept[queue]) = PerRequestLimit
             /\ \A x \in kept[queue] : Latency(dropped) <= Latency(x)
    BY <1>0 DEF QueueInv, QueueTypes
  <2> HIDE DEF heap
  <2> QED
    BY <1>1, <1>3, <1>4, <2>1, PushKeepsSlowest
\* What the push has in hand.
<1>6. PICK hand \in heap \cup {None} :
         pushing' = [pushing EXCEPT ![c] = [queue |-> queue, item |-> hand]]
  <2>1. PICK winner \in IF item \in heap THEN {item} ELSE Least(heap) :
          pushing' = [pushing EXCEPT ![c] =
            [queue |-> queue, item |-> IF AtLimit(kept[queue]) THEN winner ELSE None]]
    BY DEF Push
  <2>2. winner \in heap
    BY DEF Least
  <2> HIDE DEF heap
  <2>3. CASE AtLimit(kept[queue])
    BY <2>1, <2>2, <2>3
  <2>4. CASE ~AtLimit(kept[queue])
    BY <2>1, <2>4
  <2> QED
    BY <2>3, <2>4
<1>7. hand \in Items \cup {None}
  <2>1. heap \subseteq Items
    BY <1>0, <1>1, <1>5 DEF QueueTypes
  <2> QED
    BY <2>1
<1>8. /\ pushing'[c].queue = queue /\ pushing'[c].item \in heap \cup {None}
      /\ pushing'[c] \in [queue : DOMAIN kept, item : Items \cup {None}]
      /\ \A d \in Consumers \ {c} : pushing'[d] = pushing[d]
  BY <1>0, <1>6, <1>7 DEF QueueTypes
<1>9. QueueTypes'
  <2>1. ASSUME NEW q \in DOMAIN kept
        PROVE  /\ IsQueue(q) /\ kept'[q] \subseteq pushed'[q]
               /\ LimitPerRequest > 0 => Cardinality(kept'[q]) <= PerRequestLimit
               /\ pushed'[q] \subseteq Items
    <3>1. CASE q = queue
      BY <1>0, <1>1, <1>5, <3>1 DEF QueueTypes
    <3>2. CASE q # queue
      BY <1>0, <1>1, <3>2 DEF QueueTypes
    <3> QED
      BY <3>1, <3>2
  <2>2. pushing' \in [Consumers -> [queue : DOMAIN kept, item : Items \cup {None}]
                                    \cup {None}]
    <3> HIDE DEF heap
    <3> QED
      BY <1>0, <1>6, <1>8 DEF QueueTypes
  <2> QED
    BY <1>1, <2>1, <2>2 DEF QueueTypes
<1>10. /\ late \subseteq late' /\ late' \subseteq late \cup {queue}
       /\ Taken(queue[1]) => queue \in late'
       /\ \A q \in late' : Taken(q[1])
  <2>1. \A q \in late : Taken(q[1])
    BY <1>0 DEF FlusherInv
  <2>2. CASE Live(queue[1])
    <3>1. late' = late /\ ~Taken(queue[1])
      BY <1>0, <2>2, LiveOrTaken DEF Push
    <3> QED
      BY <2>1, <3>1
  <2>3. CASE ~Live(queue[1])
    <3>1. late' = late \cup {queue} /\ Taken(queue[1])
      BY <1>0, <2>3, LiveOrTaken DEF Push
    <3> QED
      BY <2>1, <3>1
  <2> QED
    BY <2>2, <2>3
<1>11. HistoryTypes'
  BY <1>0, <1>1, <1>2, <1>10 DEF HistoryTypes
<1>12. /\ visible' \subseteq visible \cup {item} /\ raced' \in {"no", "swapped", "popped"}
       /\ open # queue => visible' = visible /\ raced' = raced
  BY <1>0 DEF Push, WalkTypes
<1>13. WalkTypes'
  <2>1. visible' \subseteq Items
    BY <1>0, <1>12 DEF WalkTypes
  <2> HIDE DEF heap
  <2> QED
    BY <1>0, <1>1, <1>12, <2>1 DEF WalkTypes
<1>14. QueueInv'
  <2>1. ASSUME NEW q \in DOMAIN kept
        PROVE  /\ IsFiniteSet(kept'[q])
               /\ \A dropped \in pushed'[q] \ kept'[q] :
                    /\ Cardinality(kept'[q]) = PerRequestLimit
                    /\ \A x \in kept'[q] : Latency(dropped) <= Latency(x)
    <3>1. CASE q = queue
      BY <1>5, <3>1
    <3>2. CASE q # queue
      BY <1>0, <1>1, <3>2 DEF QueueInv
    <3> QED
      BY <3>1, <3>2
  <2>2. ASSUME NEW q \in DOMAIN kept, NEW x \in pushed'[q]
        PROVE  /\ x.segment \in DOMAIN Segments[x.trace]
               /\ Segments[x.trace][x.segment].spans # <<>>
               /\ pushes'[x.trace] > 0
               /\ \A other \in DOMAIN kept : \A same \in pushed'[other] :
                    same.trace = x.trace => same = x /\ other = q
    <3>1. CASE x = item
      <4>1. q = queue
        BY <1>1, <1>3, <3>1, <2>2
      <4> QED
        BY <1>1, <1>2, <1>3, <3>1, <4>1
    <3>2. CASE x # item
      <4>1. x \in pushed[q] /\ x.trace \in Traces
        BY <1>0, <1>1, <2>2, <3>2 DEF QueueTypes, Items
      <4>2. /\ x.segment \in DOMAIN Segments[x.trace]
            /\ Segments[x.trace][x.segment].spans # <<>>
            /\ pushes[x.trace] > 0
            /\ \A other \in DOMAIN kept : \A same \in pushed[other] :
                 same.trace = x.trace => same = x /\ other = q
        BY <1>0, <4>1 DEF QueueInv
      <4>3. pushes'[x.trace] > 0
        BY <1>0, <1>2, <4>1, <4>2 DEF HistoryTypes
      <4>4. \A other \in DOMAIN kept : \A same \in pushed'[other] :
              same.trace = x.trace => same = x /\ other = q
        BY <1>1, <1>3, <4>1, <4>2
      <4> QED
        BY <4>2, <4>3, <4>4
    <3> QED
      BY <3>1, <3>2
  <2>3. ASSUME NEW q \in DOMAIN kept, q \in closed' \ late'
        PROVE  pushed'[q] \cap exported' = kept'[q]
    <3>1. q # queue
      BY <1>0, <1>10, <2>3 DEF FlusherInv
    <3>2. q \in closed \ late
      BY <1>10, <2>3
    <3> QED
      BY <1>0, <1>1, <3>1, <3>2 DEF QueueInv
  <2>4. ASSUME NEW x \in exported' PROVE \E q \in closed' : x \in pushed'[q]
    <3>1. PICK q \in closed : x \in pushed[q]
      BY <1>0, <2>4 DEF QueueInv
    <3>2. q \in DOMAIN kept
      BY <1>0 DEF HistoryTypes
    <3> QED
      BY <1>1, <3>1, <3>2
  <2> QED
    BY <1>1, <2>1, <2>2, <2>3, <2>4 DEF QueueInv
<1>15. FlusherInv'
  <2>1. ASSUME NEW sampler
        PROVE  Taken(sampler)' = Taken(sampler)
    BY DEF Taken
  <2>2. ASSUME open # None
        PROVE  /\ open \notin closed /\ Taken(open[1])
               /\ open[2] = "error" => Queue(open[1], "slow") \in DOMAIN kept \ closed
               /\ visible' \subseteq pushed'[open]
               /\ open \notin late' => raced' = "no" /\ visible' = kept'[open]
    <3>1. /\ open \notin closed /\ Taken(open[1]) /\ open \in DOMAIN kept
          /\ open[2] = "error" => Queue(open[1], "slow") \in DOMAIN kept \ closed
          /\ visible \subseteq pushed[open]
          /\ open \notin late => raced = "no" /\ visible = kept[open]
      BY <1>0, <2>2 DEF FlusherInv, WalkTypes
    <3> HIDE DEF heap
    <3>2. CASE open = queue
      <4>1. open \in late'
        BY <1>10, <3>1, <3>2
      <4>2. visible' \subseteq pushed'[open]
        BY <1>1, <1>12, <3>1, <3>2
      <4> QED
        BY <3>1, <4>1, <4>2
    <3>3. CASE open # queue
      <4>1. visible' = visible /\ raced' = raced
        BY <1>12, <3>3
      <4>2. pushed'[open] = pushed[open] /\ kept'[open] = kept[open]
        BY <1>1, <3>1, <3>3
      <4> QED
        BY <1>10, <3>1, <4>1, <4>2
    <3> QED
      BY <3>1, <3>2, <3>3
  <2>3. \A sampler \in toFlush :
          Taken(sampler) /\ QueuesOf(sampler) \subseteq DOMAIN kept' \ (closed \cup {open})
    BY <1>0, <1>1 DEF FlusherInv
  <2>4. \A q \in closed \cup late' : Taken(q[1])
    BY <1>0, <1>10 DEF FlusherInv
  <2> QED
    BY <1>1, <2>1, <2>2, <2>3, <2>4 DEF FlusherInv
<1>16. ExportInv'
  <2> SUFFICES ASSUME NEW trace \in Traces, exports[trace] > 0
               PROVE  \E q \in closed : \E x \in pushed'[q] :
                        x.trace = trace /\ (exports[trace] > 1 => q \in late')
    BY DEF ExportInv
  <2>1. PICK q \in closed : \E x \in pushed[q] :
          x.trace = trace /\ (exports[trace] > 1 => q \in late)
    BY <1>0 DEF ExportInv
  <2>2. q \in DOMAIN kept /\ pushed[q] \subseteq pushed'[q] /\ late \subseteq late'
    BY <1>0, <1>1, <1>10 DEF HistoryTypes
  <2> QED
    BY <2>1, <2>2
<1>17. SampledOnce'
  <2>1. \A trace \in Traces : pushes'[trace] <= 1
    BY <1>0, <1>2 DEF SampledOnce
  <2>2. \A trace \in Traces : exports'[trace] > 1 => exports'[trace] > 0
    BY <1>0 DEF HistoryTypes
  <2> QED
    BY <1>16, <2>1, <2>2 DEF ExportInv, SampledOnce
<1>18. PushInv'
  <2>1. ASSUME NEW d \in Consumers, pushing'[d] # None
        PROVE  /\ \A e \in Consumers \ {d} :
                    pushing'[e] # None => pushing'[e].queue # pushing'[d].queue
               /\ pushing'[d].item \in kept'[pushing'[d].queue] \cup {None}
               /\ Taken(pushing'[d].queue[1]) => pushing'[d].queue \in late'
    <3>1. \A e \in Consumers : pushing[e] # None => pushing[e].queue # queue
      BY DEF Push, Pushers
    <3>2. CASE d = c
      BY <1>10, <1>8, <3>1, <3>2
    <3>3. CASE d # c
      <4>1. pushing[d] # None /\ pushing[d].queue \in DOMAIN kept
        BY <1>0, <1>8, <2>1, <3>3 DEF QueueTypes
      <4>2. /\ \A e \in Consumers \ {d} :
                 pushing[e] # None => pushing[e].queue # pushing[d].queue
            /\ pushing[d].item \in kept[pushing[d].queue] \cup {None}
            /\ Taken(pushing[d].queue[1]) => pushing[d].queue \in late
        BY <1>0, <4>1 DEF PushInv
      <4> HIDE DEF heap
      <4> QED
        BY <1>1, <1>10, <1>8, <3>1, <3>3, <4>1, <4>2
    <3> QED
      BY <3>2, <3>3
  <2> QED
    BY <2>1 DEF PushInv, Taken
<1> QED
  BY <1>2, <1>9, <1>11, <1>13, <1>14, <1>15, <1>16, <1>17, <1>18

\* A trace a consumer is at and has not sampled is in no queue.
LEMMA NotPushed ==
  ASSUME SamplerInv, NEW c \in Consumers, traces[c] # <<>>, ~sampled[c]
  PROVE  Head(traces[c]) \in Traces /\ pushes[Head(traces[c])] = 0
<1>0. traces[c] \in Seq(Traces) /\ pushes \in [Traces -> Nat]
  BY DEF SamplerInv, TypeOK
<1>1. pushes[Head(traces[c])] > 0 => sampled[c]
  BY DEF SamplerInv, TraceInv, TracesOf
<1>2. Head(traces[c]) \in Traces
  BY <1>0, HeadTailProperties
<1> QED
  BY <1>0, <1>1, <1>2

\* The pushes of sampleTraces and captureNormalSample are such pushes.
LEMMA ConsumerPush ==
  ASSUME SamplerInv, NEW c \in Consumers, pc[c] \in {"scan", "decide"},
         requestState[c] # None, ~sampled[c],
         NEW kind \in {"error", "slow"}, NEW type \in {"error", "slow", "normal"},
         Push(c, Queue(requestState[c], kind),
              [trace |-> Head(traces[c]), segment |-> segment[c], type |-> type]),
         UNCHANGED <<known, registry, epoch, flusherPc, toVisit, toFlush, open, reads,
                     closed, exported, exports, counted>>
  PROVE  /\ QueueTypes' /\ WalkTypes' /\ HistoryTypes'
         /\ QueueInv' /\ FlusherInv' /\ PushInv' /\ ExportInv' /\ SampledOnce'
         /\ pushes' = [pushes EXCEPT ![Head(traces[c])] = 1]
<1> DEFINE queue == Queue(requestState[c], kind)
           item == [trace |-> Head(traces[c]), segment |-> segment[c], type |-> type]
<1>1. /\ traces[c] # <<>> /\ segment[c] \in Nat
      /\ segment[c] \in DOMAIN Segments[Head(traces[c])]
      /\ Segments[Head(traces[c])][segment[c]].spans # <<>>
      /\ QueuesOf(requestState[c]) \subseteq DOMAIN kept
  BY DEF SamplerInv, TypeOK, ConsumerInv, AtWork, Current
<1>2. queue \in DOMAIN kept
  BY <1>1 DEF QueuesOf
<1>3. Head(traces[c]) \in Traces /\ pushes[Head(traces[c])] = 0
  BY <1>1, NotPushed
<1>4. item \in Items /\ item.trace = Head(traces[c]) /\ item.segment = segment[c]
  BY <1>1, <1>3 DEF Items
<1> HIDE DEF queue, item
<1>5. Push(c, queue, item)
  BY DEF queue, item
<1> QED
  BY <1>1, <1>2, <1>3, <1>4, <1>5, PushStep

\* A new sampler comes with empty queues.
LEMMA CreateStep ==
  ASSUME SamplerInv, NEW c \in Consumers, pc[c] \in {"resolve", "resolveAgain"},
         Create(c),
         UNCHANGED <<known, epoch, pushing, pushes, late, flusher, delivery, counted>>
  PROVE  /\ QueueTypes' /\ WalkTypes' /\ HistoryTypes'
         /\ QueueInv' /\ FlusherInv' /\ PushInv' /\ ExportInv' /\ SampledOnce'
<1> DEFINE new == <<Current(c).service, Current(c).request,
                    epoch[Current(c).service], c>>
<1>0. /\ TypeOK /\ ConsumerInv /\ RegistryInv /\ QueueInv /\ FlusherInv /\ SampledOnce
      /\ PushInv /\ ExportInv /\ QueueTypes /\ WalkTypes /\ HistoryTypes
  BY TypeParts DEF SamplerInv
<1>1. /\ new \in Samplers
      /\ DOMAIN kept' = DOMAIN kept \cup QueuesOf(new)
      /\ DOMAIN pushed' = DOMAIN kept'
      /\ \A queue \in QueuesOf(new) :
           queue \notin DOMAIN kept /\ kept'[queue] = {} /\ pushed'[queue] = {}
      /\ \A queue \in DOMAIN kept :
           kept'[queue] = kept[queue] /\ pushed'[queue] = pushed[queue]
  BY <1>0, Created
<1> HIDE DEF new
<1>2. \A queue \in QueuesOf(new) : IsQueue(queue)
  BY <1>1, QueuesOfSampler
<1>3. IsFiniteSet({}) /\ (LimitPerRequest > 0 => Cardinality({}) <= PerRequestLimit)
  BY FS_EmptySet, SamplerConstants DEF PerRequestLimit
<1>4. QueueTypes'
  <2>1. ASSUME NEW queue \in DOMAIN kept'
        PROVE  /\ IsQueue(queue) /\ kept'[queue] \subseteq pushed'[queue]
               /\ LimitPerRequest > 0 => Cardinality(kept'[queue]) <= PerRequestLimit
               /\ pushed'[queue] \subseteq Items
    <3>1. CASE queue \in QueuesOf(new)
      BY <1>1, <1>2, <1>3, <3>1
    <3>2. CASE queue \in DOMAIN kept
      BY <1>0, <1>1, <3>2 DEF QueueTypes
    <3> QED
      BY <1>1, <3>1, <3>2
  <2>2. pushing' \in [Consumers -> [queue : DOMAIN kept', item : Items \cup {None}]
                                    \cup {None}]
    BY <1>0, <1>1 DEF QueueTypes
  <2> QED
    BY <1>1, <2>1, <2>2 DEF QueueTypes
<1>5. WalkTypes' /\ HistoryTypes' /\ PushInv' /\ ExportInv' /\ SampledOnce'
  <2>1. DOMAIN kept \subseteq DOMAIN kept'
    BY <1>1
  <2>2. UNCHANGED <<closed, exported, exports>>
    BY DEF delivery
  <2>3. WalkTypes' /\ HistoryTypes'
    BY <1>0, <2>1, <2>2 DEF WalkTypes, HistoryTypes, flusher, walk
  <2>4. \A queue \in closed \cup late : pushed'[queue] = pushed[queue]
    BY <1>0, <1>1 DEF HistoryTypes
  <2>5. ExportInv' /\ SampledOnce'
    BY <1>0, <2>2, <2>4 DEF ExportInv, SampledOnce
  <2>6. \A d \in Consumers :
          pushing[d] # None => kept'[pushing[d].queue] = kept[pushing[d].queue]
    BY <1>0, <1>1 DEF QueueTypes
  <2>7. PushInv'
    BY <1>0, <2>6 DEF PushInv, Taken
  <2> QED
    BY <2>3, <2>5, <2>7
<1>6. QueueInv'
  <2>1. ASSUME NEW queue \in DOMAIN kept'
        PROVE  /\ IsFiniteSet(kept'[queue])
               /\ \A item \in pushed'[queue] :
                    /\ item.segment \in DOMAIN Segments[item.trace]
                    /\ Segments[item.trace][item.segment].spans # <<>>
                    /\ pushes[item.trace] > 0
                    /\ \A other \in DOMAIN kept' : \A same \in pushed'[other] :
                         same.trace = item.trace => same = item /\ other = queue
               /\ \A dropped \in pushed'[queue] \ kept'[queue] :
                    /\ Cardinality(kept'[queue]) = PerRequestLimit
                    /\ \A item \in kept'[queue] : Latency(dropped) <= Latency(item)
               /\ queue \in closed \ late => pushed'[queue] \cap exported = kept'[queue]
    <3>1. CASE queue \in QueuesOf(new)
      BY <1>1, <1>3, <3>1
    <3>2. CASE queue \in DOMAIN kept
      <4>1. \A item \in pushed[queue] :
              \A other \in DOMAIN kept' : \A same \in pushed'[other] :
                same.trace = item.trace => same = item /\ other = queue
        BY <1>0, <1>1, <3>2 DEF QueueInv
      <4> QED
        BY <1>0, <1>1, <3>2, <4>1 DEF QueueInv
    <3> QED
      BY <1>1, <3>1, <3>2
  <2>2. \A item \in exported : \E queue \in closed : item \in pushed'[queue]
    BY <1>0, <1>1 DEF QueueInv, HistoryTypes
  <2> QED
    BY <2>1, <2>2 DEF QueueInv, delivery
<1>7. FlusherInv'
  <2>1. DOMAIN kept \subseteq DOMAIN kept'
    BY <1>1
  <2>2. \A sampler : Taken(sampler)' = Taken(sampler)
    BY DEF Taken
  <2>3. UNCHANGED <<toFlush, open, visible, raced>>
    BY DEF flusher, walk
  <2>4. ASSUME open # None
        PROVE  /\ open \notin closed /\ Taken(open[1])
               /\ open[2] = "error" => Queue(open[1], "slow") \in DOMAIN kept' \ closed
               /\ visible \subseteq pushed'[open]
               /\ open \notin late => raced = "no" /\ visible = kept'[open]
    <3>1. open \in DOMAIN kept
      BY <1>0, <2>4 DEF WalkTypes
    <3>2. kept'[open] = kept[open] /\ pushed'[open] = pushed[open]
      BY <1>1, <3>1
    <3> QED
      BY <1>0, <2>1, <2>4, <3>2 DEF FlusherInv
  <2>5. \A sampler \in toFlush :
          Taken(sampler) /\ QueuesOf(sampler) \subseteq DOMAIN kept' \ (closed \cup {open})
    BY <1>0, <2>1 DEF FlusherInv
  <2>6. \A queue \in closed \cup late : Taken(queue[1])
    BY <1>0 DEF FlusherInv
  <2> QED
    BY <2>2, <2>3, <2>4, <2>5, <2>6 DEF FlusherInv, delivery
<1> QED
  BY <1>4, <1>5, <1>6, <1>7

\* The flusher takes the samplers of a service, which had not been taken.
LEMMA ClearStep ==
  ASSUME SamplerInv, NEW service \in Services, Clear(service)
  PROVE  /\ QueueTypes' /\ WalkTypes' /\ HistoryTypes'
         /\ QueueInv' /\ FlusherInv' /\ PushInv' /\ ExportInv' /\ SampledOnce'
<1>0. /\ TypeOK /\ RegistryInv /\ QueueInv /\ FlusherInv /\ SampledOnce
      /\ PushInv /\ ExportInv
      /\ RegistryTypes /\ QueueTypes /\ WalkTypes /\ HistoryTypes
  BY TypeParts DEF SamplerInv
<1>1. /\ UNCHANGED <<known, kept, pushing, pushed, pushes, closed, exported, exports,
                     counted, flusherPc, open, reads, visible, raced>>
      /\ toVisit' = toVisit \ {service} /\ open = None
      /\ toFlush' = {registry[service][r] : r \in Registered(service)}
      /\ epoch' = [epoch EXCEPT ![service] =
                     IF Registered(service) = {} THEN @ ELSE @ + 1]
      /\ late' = late \cup {queue \in DOMAIN kept :
                              queue[1] \in toFlush' /\ Pushers(queue) # {}}
  BY DEF Clear, walk, delivery, queues
<1>2. QueueTypes' /\ QueueInv' /\ ExportInv' /\ SampledOnce' /\ HistoryTypes'
  <2>1. late \subseteq late' /\ late' \subseteq DOMAIN kept
    BY <1>0, <1>1 DEF HistoryTypes
  <2>2. QueueTypes' /\ HistoryTypes'
    BY <1>0, <1>1, <2>1 DEF QueueTypes, HistoryTypes
  <2>3. ExportInv' /\ SampledOnce'
    BY <1>0, <1>1, <2>1 DEF ExportInv, SampledOnce
  <2>4. QueueInv'
    BY <1>0, <1>1, <2>1 DEF QueueInv, Latency
  <2> QED
    BY <2>2, <2>3, <2>4
<1>3. \A s \in Services : epoch[s] \in Nat /\ epoch'[s] \in Nat /\ epoch'[s] >= epoch[s]
  BY <1>0, <1>1 DEF RegistryTypes
<1>4. ASSUME NEW queue \in closed \cup late PROVE Taken(queue[1])'
  <2>1. Taken(queue[1]) /\ queue[1][1] \in Services /\ queue[1][3] \in Nat
    BY <1>0, QueueTypesOf DEF FlusherInv, HistoryTypes, QueueTypes
  <2> QED
    BY <1>3, <2>1 DEF Taken
<1>5. ASSUME NEW sampler \in toFlush'
      PROVE  /\ sampler \in Samplers /\ Taken(sampler)'
             /\ QueuesOf(sampler) \subseteq DOMAIN kept \ (closed \cup {open})
  <2>1. PICK r \in Requests : sampler = registry[service][r] /\ sampler # None
    BY <1>1 DEF Registered
  <2>2. /\ sampler \in Samplers /\ sampler[1] = service /\ sampler[3] = epoch[service]
        /\ QueuesOf(sampler) \subseteq DOMAIN kept
    BY <1>0, <2>1, SamplerOf
  <2>3. epoch'[service] = epoch[service] + 1
    BY <1>0, <1>1, <2>1 DEF RegistryTypes, Registered
  <2>4. Taken(sampler)'
    BY <1>3, <2>2, <2>3 DEF Taken
  <2>5. ASSUME NEW queue \in QueuesOf(sampler) PROVE queue \notin closed /\ queue # None
    <3>1. queue[1] = sampler /\ IsQueue(queue)
      BY <2>2, QueuesOfSampler
    <3>2. ~Taken(sampler)
      BY <1>3, <2>2 DEF Taken
    <3> QED
      BY <1>0, <3>1, <3>2, QueueTypesOf DEF FlusherInv
  <2> QED
    BY <1>1, <2>2, <2>4, <2>5
<1>6. WalkTypes'
  BY <1>0, <1>1, <1>5 DEF WalkTypes
<1>7. FlusherInv'
  <2>1. \A queue \in late' : Taken(queue[1])'
    BY <1>1, <1>4, <1>5
  <2> QED
    BY <1>1, <1>4, <1>5, <2>1 DEF FlusherInv
\* A push into a queue taken now is late.
<1>8. ASSUME NEW c \in Consumers, pushing[c] # None, Taken(pushing[c].queue[1])'
      PROVE  pushing[c].queue \in late'
  <2> DEFINE queue == pushing[c].queue
             sampler == queue[1]
  <2>1. queue \in DOMAIN kept /\ Pushers(queue) # {}
    BY <1>0, <1>8 DEF QueueTypes, Pushers
  <2>2. sampler \in Samplers
    BY <1>0, <2>1, QueueTypesOf DEF QueueTypes
  <2>3. CASE Taken(sampler)
    BY <1>0, <1>1, <1>8, <2>3 DEF PushInv
  <2>4. CASE ~Taken(sampler)
    <3>1. Live(sampler)
      BY <1>0, <2>1, <2>4, LiveOrTaken
    <3>2. /\ sampler[1] \in Services /\ sampler[2] \in Requests /\ sampler # None
          /\ sampler[3] \in Nat
      BY <2>2, QueuesOfSampler
    <3>3. sampler[1] = service
      BY <1>1, <1>3, <1>8, <2>4, <3>2 DEF Taken
    <3>4. sampler = registry[service][sampler[2]] /\ sampler[2] \in Registered(service)
      BY <3>1, <3>2, <3>3 DEF Live, Registered
    <3>5. sampler \in toFlush'
      BY <1>1, <3>4
    <3> QED
      BY <1>1, <2>1, <3>5
  <2> QED
    BY <2>3, <2>4
<1>9. PushInv'
  BY <1>0, <1>1, <1>8 DEF PushInv
<1> QED
  BY <1>2, <1>6, <1>7, <1>9

\* The slice of a queue that was taken and is pushed into by nobody late is
\* what the queue kept.
LEMMA SliceOf ==
  ASSUME SamplerInv, NEW queue \in DOMAIN kept, Taken(queue[1])
  PROVE  /\ Slice(queue) \subseteq kept[queue] /\ Slice(queue) \subseteq Items
         /\ Slice(queue) \subseteq pushed[queue]
         /\ Cardinality(Slice(queue)) \in Nat
         /\ queue \notin late => Slice(queue) = kept[queue] /\ Pushers(queue) = {}
<1>1. QueueTypes /\ QueueInv /\ PushInv
  BY TypeParts DEF SamplerInv
<1>2. /\ Slice(queue) \subseteq kept[queue] /\ kept[queue] \subseteq pushed[queue]
      /\ pushed[queue] \subseteq Items /\ IsFiniteSet(kept[queue])
  BY <1>1 DEF Slice, QueueTypes, QueueInv
<1>3. Cardinality(Slice(queue)) \in Nat
  BY <1>2, FS_Subset, FS_CardinalityType
<1>4. ASSUME queue \notin late PROVE Pushers(queue) = {}
  BY <1>1, <1>4 DEF Pushers, PushInv
<1>5. Pushers(queue) = {} => Slice(queue) = kept[queue]
  BY DEF Slice
<1> QED
  BY <1>2, <1>3, <1>4, <1>5

\* The walk of a sampler begins with its error queue.
LEMMA OpenErrorsStep ==
  ASSUME SamplerInv, NEW sampler \in toFlush, OpenErrors(sampler)
  PROVE  /\ QueueTypes' /\ WalkTypes' /\ HistoryTypes'
         /\ QueueInv' /\ FlusherInv' /\ PushInv' /\ ExportInv' /\ SampledOnce'
<1> DEFINE queue == Queue(sampler, "error")
<1>0. /\ TypeOK /\ QueueInv /\ FlusherInv /\ SampledOnce /\ PushInv /\ ExportInv
      /\ QueueTypes /\ WalkTypes /\ HistoryTypes
  BY TypeParts DEF SamplerInv
<1>1. /\ UNCHANGED <<known, epoch, kept, pushing, pushed, pushes, late, closed,
                     exported, exports, counted, flusherPc, toVisit>>
      /\ toFlush' = toFlush \ {sampler}
      /\ open' = queue /\ reads' = Cardinality(Slice(queue))
      /\ visible' = Slice(queue) /\ raced' \in {"no", "swapped"}
      /\ Pushers(queue) = {} => raced' = "no"
  BY DEF OpenErrors, Open, shared, history, delivery, queues
<1>2. /\ sampler \in Samplers /\ Taken(sampler)
      /\ QueuesOf(sampler) \subseteq DOMAIN kept \ closed
  BY <1>0 DEF WalkTypes, FlusherInv
<1>3. /\ queue \in QueuesOf(sampler) /\ queue \in DOMAIN kept \ closed
      /\ queue[1] = sampler
      /\ Queue(queue[1], "slow") \in DOMAIN kept \ closed
  BY <1>2, QueuesOfSampler DEF Queue, QueuesOf
<1> HIDE DEF queue
<1>4. /\ QueueTypes' /\ QueueInv' /\ HistoryTypes'
      /\ PushInv' /\ ExportInv' /\ SampledOnce'
  <2>1. QueueTypes' /\ HistoryTypes' /\ PushInv' /\ ExportInv' /\ SampledOnce'
    BY <1>0, <1>1
    DEF QueueTypes, HistoryTypes, PushInv, ExportInv, SampledOnce, Taken
  <2>2. QueueInv'
    BY <1>0, <1>1 DEF QueueInv, Latency
  <2> QED
    BY <2>1, <2>2
<1>5. /\ Slice(queue) \subseteq Items /\ Slice(queue) \subseteq pushed[queue]
      /\ queue \notin late => Slice(queue) = kept[queue] /\ Pushers(queue) = {}
  BY <1>2, <1>3, SliceOf
<1>6. Cardinality(Slice(queue)) \in Nat
  BY <1>2, <1>3, SliceOf
<1>7. WalkTypes'
  BY <1>0, <1>1, <1>3, <1>5, <1>6 DEF WalkTypes
<1>8. ASSUME NEW other \in toFlush \ {sampler}
      PROVE  Taken(other) /\ QueuesOf(other) \subseteq DOMAIN kept \ (closed \cup {queue})
  <2>1. other \in Samplers /\ queue \notin QueuesOf(other)
    BY <1>0, <1>3, QueuesOfSampler DEF WalkTypes
  <2> QED
    BY <1>0, <2>1 DEF FlusherInv
<1>9. \A s : Taken(s)' = Taken(s)
  BY <1>1 DEF Taken
<1>10. \A q \in closed \cup late : Taken(q[1])
  BY <1>0 DEF FlusherInv
<1>11. FlusherInv'
  BY <1>1, <1>2, <1>3, <1>5, <1>8, <1>9, <1>10 DEF FlusherInv
<1> QED
  BY <1>4, <1>7, <1>11

\* A walk exports what the queue kept, unless others pushed meanwhile.
LEMMA ExportStep ==
  ASSUME SamplerInv, Export
  PROVE  /\ QueueTypes' /\ WalkTypes' /\ HistoryTypes'
         /\ QueueInv' /\ FlusherInv' /\ PushInv' /\ ExportInv' /\ SampledOnce'
<1> DEFINE next == Queue(open[1], "slow")
<1>0. /\ TypeOK /\ QueueInv /\ FlusherInv /\ SampledOnce /\ PushInv /\ ExportInv
      /\ QueueTypes /\ WalkTypes /\ HistoryTypes
  BY TypeParts DEF SamplerInv
<1>1. /\ UNCHANGED <<known, epoch, kept, pushing, pushed, pushes, late, counted,
                     flusherPc, toVisit, toFlush>>
      /\ closed' = closed \cup {open} /\ open # None
  BY DEF Export, shared, queues
<1>2. PICK slots \in Readings :
        /\ exported' = exported \cup Range(slots)
        /\ exports' = [trace \in Traces |-> exports[trace]
                         + Cardinality({i \in 1..reads : slots[i].trace = trace})]
  BY DEF Export
<1>3. /\ open \in DOMAIN kept /\ open \notin closed /\ Taken(open[1])
      /\ visible \subseteq pushed[open]
      /\ open \notin late => raced = "no" /\ visible = kept[open]
      /\ open[1] \in Samplers /\ open[2] \in {"error", "slow"}
      /\ open = Queue(open[1], open[2])
  BY <1>0, <1>1, QueueTypesOf DEF FlusherInv, WalkTypes, QueueTypes
<1> DEFINE seen == Range(slots)
<1>4. /\ slots \in [1..reads -> visible]
      /\ seen \subseteq visible /\ seen \subseteq pushed[open]
      /\ open \notin late => seen = kept[open] /\ slots \in Injection(1..reads, visible)
  <2>1. slots \in [1..reads -> visible]
    BY DEF Readings, Bijection, Injection, Surjection
  <2>2. seen \subseteq visible
    BY <2>1 DEF Range
  <2>3. ASSUME open \notin late
        PROVE  seen = visible /\ slots \in Injection(1..reads, visible)
    <3>1. slots \in Bijection(1..reads, visible)
      BY <1>3, <2>3 DEF Readings
    <3> QED
      BY <2>1, <2>2, <3>1 DEF Bijection, Surjection, Range
  <2> QED
    BY <1>3, <2>1, <2>2, <2>3
<1>5. pushed[open] \subseteq Items /\ kept[open] \subseteq pushed[open]
  BY <1>0, <1>3 DEF QueueTypes
<1>6. \A queue \in DOMAIN kept : queue # open => pushed[queue] \cap pushed[open] = {}
  BY <1>0, <1>3 DEF QueueInv
<1> DEFINE At(trace) == {i \in 1..reads : slots[i].trace = trace}
<1>7. ASSUME NEW trace \in Traces
      PROVE  /\ Cardinality(At(trace)) \in Nat
             /\ At(trace) = {} => Cardinality(At(trace)) = 0
             /\ At(trace) # {} =>
                  /\ \E item \in pushed[open] : item.trace = trace
                  /\ exports[trace] = 0
                  /\ Cardinality(At(trace)) > 1 => open \in late
  <2>1. reads \in Nat /\ exports[trace] \in Nat
    BY <1>0 DEF WalkTypes, HistoryTypes
  <2>2. IsFiniteSet(1..reads) /\ At(trace) \subseteq 1..reads
    <3>1. IsFiniteSet(1..reads)
      BY <2>1, FS_Interval
    <3>2. At(trace) \subseteq 1..reads
      OBVIOUS
    <3> QED
      BY <3>1, <3>2
  <2>3. IsFiniteSet(At(trace)) /\ Cardinality(At(trace)) \in Nat
    BY <2>2, FS_Subset, FS_CardinalityType
  <2>4. At(trace) = {} => Cardinality(At(trace)) = 0
    BY FS_EmptySet
  <2>5. ASSUME NEW i \in At(trace) PROVE slots[i] \in pushed[open] /\ slots[i].trace = trace
    BY <1>3, <1>4
  <2>6. ASSUME At(trace) # {}, exports[trace] > 0 PROVE FALSE
    <3>1. PICK item \in pushed[open] : item.trace = trace
      BY <2>5, <2>6
    <3>2. PICK queue \in closed : \E other \in pushed[queue] : other.trace = trace
      BY <1>0, <2>6 DEF ExportInv
    <3>3. queue \in DOMAIN kept /\ queue # open
      BY <1>0, <1>3 DEF HistoryTypes
    <3> QED
      BY <1>0, <1>3, <3>1, <3>2, <3>3 DEF QueueInv
  <2>7. ASSUME NEW i \in At(trace), open \notin late PROVE Cardinality(At(trace)) = 1
    <3>1. ASSUME NEW j \in At(trace) PROVE j = i
      <4>1. slots[i] = slots[j]
        BY <1>0, <1>3, <2>5 DEF QueueInv
      <4> QED
        BY <1>4, <2>2, <2>7, <4>1 DEF Injection, IsInjective
    <3>2. At(trace) = {i}
      BY <3>1
    <3> QED
      BY <3>2, FS_Singleton
  <2> HIDE DEF At
  <2> QED
    BY <2>1, <2>3, <2>4, <2>5, <2>6, <2>7
<1>8. ASSUME NEW trace \in Traces
      PROVE  /\ exports'[trace] = exports[trace] + Cardinality(At(trace))
             /\ exports'[trace] \in Nat
  BY <1>0, <1>2, <1>7 DEF HistoryTypes
<1>9. ExportInv'
  <2> SUFFICES ASSUME NEW trace \in Traces, exports'[trace] > 0
               PROVE  \E queue \in closed' : \E item \in pushed[queue] :
                        item.trace = trace /\ (exports'[trace] > 1 => queue \in late)
    BY <1>1 DEF ExportInv
  <2>1. CASE At(trace) = {}
    <3>1. exports'[trace] = exports[trace]
      <4>1. exports[trace] \in Nat
        BY <1>0 DEF HistoryTypes
      <4> HIDE DEF At
      <4> QED
        BY <1>7, <1>8, <2>1, <4>1
    <3> QED
      BY <1>0, <1>1, <3>1 DEF ExportInv
  <2>2. CASE At(trace) # {}
    <3>1. exports'[trace] = Cardinality(At(trace))
      <4> HIDE DEF At
      <4> QED
        BY <1>7, <1>8, <2>2
    <3> HIDE DEF At
    <3> QED
      BY <1>1, <1>7, <2>2, <3>1
  <2> QED
    BY <2>1, <2>2
<1> HIDE DEF At, seen
<1>10. QueueTypes' /\ PushInv' /\ SampledOnce' /\ HistoryTypes'
  <2>1. QueueTypes' /\ PushInv'
    BY <1>0, <1>1 DEF QueueTypes, PushInv, Taken
  <2>2. HistoryTypes'
    <3>1. exports' \in [Traces -> Nat]
      BY <1>2, <1>8
    <3>2. exported' \subseteq Items
      BY <1>0, <1>2, <1>4, <1>5 DEF HistoryTypes, seen
    <3> QED
      BY <1>0, <1>1, <1>3, <3>1, <3>2 DEF HistoryTypes
  <2>3. SampledOnce'
    <3>1. \A trace \in Traces : pushes'[trace] <= 1
      BY <1>0, <1>1 DEF SampledOnce
    <3>2. \A trace \in Traces : exports'[trace] > 1 => exports'[trace] > 0
      BY <1>8
    <3> QED
      BY <1>9, <3>1, <3>2 DEF ExportInv, SampledOnce
  <2> QED
    BY <2>1, <2>2, <2>3
<1>11. QueueInv'
  <2>1. ASSUME NEW queue \in DOMAIN kept, queue \in closed' \ late
        PROVE  pushed[queue] \cap exported' = kept[queue]
    <3>1. CASE queue = open
      <4>1. \A item \in exported : item \notin pushed[open]
        <5>1. ASSUME NEW item \in exported PROVE item \notin pushed[open]
          <6>1. PICK q \in closed : item \in pushed[q]
            BY <1>0 DEF QueueInv
          <6>2. q \in DOMAIN kept /\ q # open
            BY <1>0, <1>3 DEF HistoryTypes
          <6> QED
            BY <1>6, <6>1, <6>2
        <5> QED
          BY <5>1
      <4> QED
        BY <1>2, <1>4, <1>5, <2>1, <3>1, <4>1 DEF seen
    <3>2. CASE queue # open
      <4>1. pushed[queue] \cap exported = kept[queue]
        BY <1>0, <1>1, <2>1, <3>2 DEF QueueInv
      <4>2. pushed[queue] \cap seen = {}
        BY <1>4, <1>6, <3>2
      <4> QED
        BY <1>2, <4>1, <4>2 DEF seen
    <3> QED
      BY <3>1, <3>2
  <2>2. ASSUME NEW item \in exported' PROVE \E queue \in closed' : item \in pushed[queue]
    <3>1. CASE item \in exported
      BY <1>0, <1>1, <3>1 DEF QueueInv
    <3>2. CASE item \in seen
      BY <1>1, <1>4, <3>2
    <3> QED
      BY <1>2, <2>2, <3>1, <3>2 DEF seen
  <2> QED
    BY <1>0, <1>1, <2>1, <2>2 DEF QueueInv, Latency
<1>12. \A s : Taken(s)' = Taken(s)
  BY <1>1 DEF Taken
<1>13. \A q \in closed' \cup late : Taken(q[1])
  BY <1>0, <1>1, <1>3 DEF FlusherInv
<1>14. ASSUME NEW sampler \in toFlush
       PROVE  /\ Taken(sampler)
              /\ QueuesOf(sampler) \subseteq DOMAIN kept \ closed'
              /\ next \notin QueuesOf(sampler)
  <2>1. /\ Taken(sampler) /\ sampler \in Samplers
        /\ QueuesOf(sampler) \subseteq DOMAIN kept \ (closed \cup {open})
    BY <1>0 DEF FlusherInv, WalkTypes
  <2>2. ASSUME next \in QueuesOf(sampler) PROVE FALSE
    <3>1. open[1] = sampler
      BY <1>3, <2>1, <2>2, QueuesOfSampler
    <3>2. open \in QueuesOf(sampler)
      BY <1>3, <3>1 DEF QueuesOf
    <3> QED
      BY <2>1, <3>2
  <2> QED
    BY <1>1, <2>1, <2>2
<1>15. CASE open[2] = "error"
  <2>1. /\ open' = next /\ reads' = Cardinality(Slice(next))
        /\ visible' = Slice(next) /\ raced' \in {"no", "swapped"}
        /\ Pushers(next) = {} => raced' = "no"
    BY <1>15 DEF Export, Open
  <2>2. next \in DOMAIN kept \ closed
    BY <1>0, <1>1, <1>15 DEF FlusherInv
  <2>3. next # open /\ next[1] = open[1] /\ next[2] = "slow"
    BY <1>15 DEF Queue
  <2> HIDE DEF next
  <2>4. /\ Slice(next) \subseteq Items /\ Slice(next) \subseteq pushed[next]
        /\ next \notin late => Slice(next) = kept[next] /\ Pushers(next) = {}
    BY <1>3, <2>2, <2>3, SliceOf
  <2>5. Cardinality(Slice(next)) \in Nat
    BY <1>3, <2>2, <2>3, SliceOf
  <2>6. WalkTypes'
    BY <1>0, <1>1, <2>1, <2>2, <2>4, <2>5 DEF WalkTypes
  <2>7. FlusherInv'
    BY <1>1, <1>3, <1>12, <1>13, <1>14, <2>1, <2>2, <2>3, <2>4 DEF FlusherInv
  <2> QED
    BY <1>10, <1>11, <1>9, <2>6, <2>7
<1>16. CASE open[2] # "error"
  <2>1. open' = None /\ reads' = 0 /\ visible' = {} /\ raced' = "no"
    BY <1>16 DEF Export
  <2>2. WalkTypes'
    BY <1>0, <1>1, <2>1 DEF WalkTypes
  <2>3. \A sampler \in toFlush : None \notin QueuesOf(sampler)
    BY <1>0, QueuesOfSampler DEF WalkTypes, QueuesOf
  <2>4. FlusherInv'
    BY <1>1, <1>12, <1>13, <1>14, <2>1, <2>3 DEF FlusherInv
  <2> QED
    BY <1>10, <1>11, <1>9, <2>2, <2>4
<1> QED
  BY <1>15, <1>16

\* The queues keep what they should and are flushed in full, and a push is a
\* trace's first.
LEMMA QueueStep ==
  ASSUME SamplerInv, [Next]_vars
  PROVE  /\ QueueTypes' /\ WalkTypes' /\ HistoryTypes'
         /\ QueueInv' /\ FlusherInv' /\ PushInv' /\ ExportInv' /\ SampledOnce'
<1> DEFINE Inv == /\ QueueTypes /\ WalkTypes /\ HistoryTypes
                  /\ QueueInv /\ FlusherInv /\ PushInv /\ ExportInv /\ SampledOnce
<1>0. TypeOK /\ ConsumerInv /\ TraceInv /\ Inv /\ RegistryTypes /\ ConsumerTypes
  BY TypeParts DEF SamplerInv
<1>1. ASSUME UNCHANGED <<epoch, queues, pushed, pushes, late, delivery, toFlush, walk>>,
             known \subseteq known', toVisit' \subseteq known',
             flusherPc' \in {"wait", "range", "stopped"},
             counted' \subseteq Traces
      PROVE  Inv'
  <2>1. UNCHANGED <<kept, pushing, closed, exported, exports>>
    BY <1>1 DEF queues, delivery
  <2>2. QueueTypes' /\ WalkTypes' /\ HistoryTypes'
    BY <1>0, <1>1, <2>1 DEF QueueTypes, WalkTypes, HistoryTypes, walk
  <2>3. PushInv' /\ ExportInv' /\ SampledOnce'
    BY <1>0, <1>1, <2>1 DEF PushInv, ExportInv, SampledOnce, Taken
  <2>4. QueueInv'
    BY <1>0, <1>1, <2>1 DEF QueueInv, Latency
  <2>5. FlusherInv'
    BY <1>0, <1>1, <2>1 DEF FlusherInv, Taken, walk
  <2> QED
    BY <2>2, <2>3, <2>4, <2>5
<1>2. ASSUME UNCHANGED <<epoch, queues, flusher, history>>, known \subseteq known'
      PROVE  Inv'
  <2>1. UNCHANGED <<pushed, pushes, late, delivery, counted, flusherPc, toVisit,
                    toFlush, walk>>
    BY <1>2 DEF flusher, history
  <2> QED
    BY <1>0, <1>1, <1>2, <2>1 DEF WalkTypes, HistoryTypes
<1>3. /\ \A c \in Consumers : Call(c) => Inv'
      /\ \A c \in Consumers : Load(c) => Inv'
      /\ \A c \in Consumers : NotDue(c) => Inv'
      /\ \A c \in Consumers : GiveUp(c) => Inv'
      /\ \A c \in Consumers : DuePanics(c) => Inv'
  BY <1>2 DEF Call, Load, Stored, NotDue, GiveUp, DuePanics, shared
<1>4. ASSUME NEW c \in Consumers, pc[c] \in {"resolve", "resolveAgain"},
             Find(c) \/ Create(c) \/ Refuse(c),
             UNCHANGED <<known, epoch, pushing, pushes, late, flusher, delivery,
                         counted>>
      PROVE  Inv'
  <2>1. CASE Create(c)
    BY <1>4, <2>1, CreateStep
  <2>2. CASE Find(c) \/ Refuse(c)
    BY <1>2, <1>4, <2>2 DEF Find, Refuse, history, queues
  <2> QED
    BY <1>4, <2>1, <2>2
<1>5. /\ \A c \in Consumers : Resolve(c) => Inv'
      /\ \A c \in Consumers : ResolveAgain(c) => Inv'
  BY <1>4 DEF Resolve, ResolveAgain
\* The rest of a push touches a walk only if it is late.
<1>6. ASSUME NEW c \in Consumers, HeapPush(c) \/ Unlock(c) PROVE Inv'
  <2> DEFINE queue == pushing[c].queue
             item == pushing[c].item
  <2>1. /\ UNCHANGED <<known, epoch, kept, pushed, pushes, late, closed, exported,
                       exports, counted, flusherPc, toVisit, toFlush, open, reads>>
        /\ pushing[c] # None
    BY <1>6 DEF HeapPush, Unlock, flusher, walk, history, delivery
  <2>2. /\ queue \in DOMAIN kept /\ item \in kept[queue] \cup {None}
        /\ pushing[c] \in [queue : DOMAIN kept, item : Items \cup {None}]
        /\ Taken(queue[1]) => queue \in late
    BY <1>0, <2>1 DEF QueueTypes, PushInv
  <2>3. /\ pushing'[c] # None => pushing'[c].queue = queue /\ pushing'[c].item = None
        /\ \A d \in Consumers \ {c} : pushing'[d] = pushing[d]
        /\ pushing' \in [Consumers -> [queue : DOMAIN kept, item : Items \cup {None}]
                                       \cup {None}]
    <3>1. CASE HeapPush(c)
      <4>1. pushing' = [pushing EXCEPT ![c] = [pushing[c] EXCEPT !.item = None]]
        BY <3>1 DEF HeapPush
      <4> DEFINE hand == [pushing[c] EXCEPT !.item = None]
      <4>2. /\ hand.queue = queue /\ hand.item = None
            /\ hand \in [queue : DOMAIN kept, item : Items \cup {None}]
        BY <2>2
      <4> HIDE DEF hand
      <4>3. pushing' = [pushing EXCEPT ![c] = hand]
        BY <4>1 DEF hand
      <4> QED
        BY <1>0, <4>2, <4>3 DEF QueueTypes
    <3>2. CASE Unlock(c)
      BY <1>0, <3>2 DEF Unlock, QueueTypes
    <3> QED
      BY <1>6, <3>1, <3>2
  <2>4. \/ UNCHANGED <<visible, raced>>
        \/ /\ open = queue /\ item \in kept[queue]
           /\ visible' = visible \cup {item} /\ raced' \in {"swapped", raced}
    BY <1>6, <2>2 DEF HeapPush, Unlock, flusher, walk
  <2>5. QueueTypes' /\ HistoryTypes' /\ ExportInv' /\ SampledOnce'
    BY <1>0, <2>1, <2>3 DEF QueueTypes, HistoryTypes, ExportInv, SampledOnce
  <2>6. QueueInv'
    BY <1>0, <2>1 DEF QueueInv, Latency
  <2>7. kept[queue] \subseteq pushed[queue] /\ pushed[queue] \subseteq Items
    BY <1>0, <2>2 DEF QueueTypes
  <2>8. WalkTypes'
    BY <1>0, <2>1, <2>4, <2>7 DEF WalkTypes
  <2>9. FlusherInv'
    <3>1. \A sampler : Taken(sampler)' = Taken(sampler)
      BY <2>1 DEF Taken
    <3>2. ASSUME open # None
          PROVE  /\ visible' \subseteq pushed[open]
                 /\ open \notin late => raced' = "no" /\ visible' = kept[open]
      <4>1. CASE UNCHANGED <<visible, raced>>
        BY <1>0, <3>2, <4>1 DEF FlusherInv
      <4>2. CASE /\ open = queue /\ item \in kept[queue]
                 /\ visible' = visible \cup {item} /\ raced' \in {"swapped", raced}
        BY <1>0, <2>2, <2>7, <3>2, <4>2 DEF FlusherInv
      <4> QED
        BY <2>4, <4>1, <4>2
    <3> QED
      BY <1>0, <2>1, <3>1, <3>2 DEF FlusherInv
  <2>10. PushInv'
    <3>1. ASSUME NEW d \in Consumers, pushing'[d] # None
          PROVE  /\ pushing[d] # None /\ pushing'[d].queue = pushing[d].queue
                 /\ pushing'[d].item \in kept[pushing'[d].queue] \cup {None}
      <4>1. CASE d = c
        BY <2>1, <2>3, <3>1, <4>1
      <4>2. CASE d # c
        BY <1>0, <2>3, <3>1, <4>2 DEF PushInv
      <4> QED
        BY <4>1, <4>2
    <3> QED
      BY <1>0, <2>1, <3>1 DEF PushInv, Taken
  <2> QED
    BY <2>5, <2>6, <2>8, <2>9, <2>10
<1>7. ASSUME NEW c \in Consumers, Count(c) PROVE Inv'
  <2>1. Head(traces[c]) \in Traces
    <3>1. traces[c] \in Seq(Traces) /\ traces[c] # <<>>
      BY <1>0, <1>7 DEF ConsumerTypes, ConsumerInv, AtWork, Count
    <3> QED
      BY <3>1, HeadTailProperties
  <2>2. /\ UNCHANGED <<known, epoch, queues, flusher, pushed, pushes, late, delivery>>
        /\ counted' = counted \cup {Head(traces[c])}
    BY <1>7 DEF Count, shared
  <2> QED
    BY <1>0, <1>1, <2>1, <2>2 DEF WalkTypes, HistoryTypes, flusher
<1>8. ASSUME NEW c \in Consumers, Scan(c) PROVE Inv'
  <2> DEFINE s == Current(c).spans[span[c]]
             item(kind) == [trace |-> Head(traces[c]), segment |-> segment[c],
                            type |-> kind]
  <2>1. /\ UNCHANGED <<known, registry, epoch, flusherPc, toVisit, toFlush, open, reads,
                       closed, exported, exports, counted>>
        /\ pc[c] = "scan" /\ requestState[c] # None
    BY <1>0, <1>8 DEF Scan, ConsumerInv, AtWork, delivery
  <2>2. CASE Takes(c, s)
    <3>1. ~sampled[c]
      BY <2>2 DEF Takes
    <3>2. \/ Push(c, Queue(requestState[c], "error"), item("error"))
          \/ Push(c, Queue(requestState[c], "slow"), item("slow"))
      BY <1>8, <2>2 DEF Scan
    <3>3. CASE Push(c, Queue(requestState[c], "error"), item("error"))
      BY <2>1, <3>1, <3>3, ConsumerPush
    <3>4. CASE Push(c, Queue(requestState[c], "slow"), item("slow"))
      BY <2>1, <3>1, <3>4, ConsumerPush
    <3> QED
      BY <3>2, <3>3, <3>4
  <2>3. CASE ~Takes(c, s)
    <3>1. NoPush
      BY <1>8, <2>3 DEF Scan
    <3> QED
      BY <1>2, <2>1, <3>1 DEF NoPush, flusher, walk, history, delivery
  <2> QED
    BY <2>2, <2>3
<1>9. ASSUME NEW c \in Consumers, Due(c) PROVE Inv'
  <2>1. /\ UNCHANGED <<known, registry, epoch, flusherPc, toVisit, toFlush, open, reads,
                       closed, exported, exports, counted>>
        /\ pc[c] = "decide" /\ requestState[c] # None /\ ~sampled[c]
        /\ Push(c, Queue(requestState[c], "slow"),
                [trace |-> Head(traces[c]), segment |-> segment[c], type |-> "normal"])
    BY <1>0, <1>9 DEF Due, ConsumerInv, AtWork, delivery
  <2> QED
    BY <2>1, ConsumerPush
<1>10. \A service \in Services : Clear(service) => Inv'
  BY ClearStep
<1>11. \A sampler \in toFlush : OpenErrors(sampler) => Inv'
  BY OpenErrorsStep
<1>12. Export => Inv'
  BY ExportStep
<1>13. \A c \in Consumers : HeapPush(c) \/ Unlock(c) => Inv'
  BY <1>6
<1>14. Flush => Inv'
  BY <1>0, <1>1 DEF Flush, shared, history, WalkTypes, HistoryTypes
<1>15. /\ ExportPanics => Inv'
       /\ Update => Inv'
       /\ UNCHANGED vars => Inv'
  BY <1>2 DEF ExportPanics, Update, vars, shared
<1>16. /\ EndFlush => Inv'
       /\ Stop => Inv'
  BY <1>0, <1>1 DEF EndFlush, Stop, shared, history, WalkTypes, HistoryTypes
<1> QED
  <2> HIDE DEF Inv
  <2>1. Inv'
    BY <1>3, <1>5, <1>7, <1>8, <1>9, <1>10, <1>11, <1>12, <1>14, <1>15, <1>16, <1>13,
       Cases
  <2> QED
    BY <2>1 DEF Inv

\* The server's settings keep their types.
LEMMA OtherStep ==
  ASSUME OtherTypes, [Next]_vars
  PROVE  OtherTypes'
<1> USE SamplerConstants DEF OtherTypes
<1>1. /\ \A c \in Consumers : Call(c) => OtherTypes'
      /\ \A c \in Consumers : Load(c) => OtherTypes'
      /\ \A c \in Consumers : Resolve(c) => OtherTypes'
      /\ \A c \in Consumers : GiveUp(c) => OtherTypes'
      /\ \A c \in Consumers : Scan(c) => OtherTypes'
      /\ \A c \in Consumers : ResolveAgain(c) => OtherTypes'
      /\ \A c \in Consumers : NotDue(c) => OtherTypes'
      /\ \A c \in Consumers : Due(c) => OtherTypes'
      /\ \A c \in Consumers : DuePanics(c) => OtherTypes'
      /\ \A c \in Consumers : Count(c) => OtherTypes'
      /\ \A c \in Consumers : HeapPush(c) => OtherTypes'
      /\ \A c \in Consumers : Unlock(c) => OtherTypes'
  BY DEF Call, Load, Resolve, GiveUp, Scan, ResolveAgain, NotDue, Due, DuePanics, Count,
         HeapPush, Unlock, shared, settings
<1>2. /\ Flush => OtherTypes'
      /\ \A service \in Services : Clear(service) => OtherTypes'
      /\ \A sampler \in toFlush : OpenErrors(sampler) => OtherTypes'
      /\ Export => OtherTypes'
      /\ ExportPanics => OtherTypes'
      /\ EndFlush => OtherTypes'
      /\ Stop => OtherTypes'
      /\ UNCHANGED vars => OtherTypes'
  BY DEF Flush, Clear, OpenErrors, Export, ExportPanics, EndFlush, Stop,
         shared, settings, vars
<1>3. ASSUME Update PROVE OtherTypes'
  <2>1. /\ updates < MaxUpdates /\ updates' = updates + 1
        /\ threshold' \in Thresholds /\ ignoreClientErrors' \in BOOLEAN
        /\ panicked' = panicked
    BY <1>3 DEF Update, shared
  <2> QED
    BY <2>1
<1> HIDE DEF OtherTypes
<1> QED
  BY <1>1, <1>2, <1>3, Cases

-----------------------------------------------------------------------------
(* The traces                                                              *)

\* What is left of a batch, and behind its first trace.
LEMMA SuffixOf ==
  ASSUME NEW b \in Seq(Traces), NEW k \in 0..(Len(b) - 1)
  PROVE  /\ k + 1 \in DOMAIN b /\ k + 1 \in 1..Len(b)
         /\ SubSeq(b, k + 1, Len(b)) # <<>>
         /\ Head(SubSeq(b, k + 1, Len(b))) = b[k + 1]
         /\ Tail(SubSeq(b, k + 1, Len(b))) = SubSeq(b, k + 2, Len(b))
         /\ k + 1 = Len(b) => SubSeq(b, k + 2, Len(b)) = <<>>
<1> DEFINE rest == SubSeq(b, k + 1, Len(b))
<1>1. Len(b) \in Nat /\ DOMAIN b = 1..Len(b) /\ k + 1 \in 1..Len(b) /\ k \in Nat
  BY LenProperties
<1>2. /\ rest \in Seq(Traces) /\ Len(rest) = Len(b) - k
      /\ \A i \in 1..(Len(b) - k) : rest[i] = b[k + i]
  BY <1>1
<1>3. rest # <<>> /\ Head(rest) = b[k + 1]
  BY <1>1, <1>2, HeadTailProperties, EmptySeq
<1>4. Tail(rest) = SubSeq(b, k + 2, Len(b))
  BY <1>1, <1>3
<1>5. k + 1 = Len(b) => SubSeq(b, k + 2, Len(b)) = <<>>
  BY <1>1
<1> QED
  BY <1>1, <1>3, <1>4, <1>5

\* The requests a service has are those that got queues in its epoch.
LEMMA MadeNow ==
  ASSUME TypeOK, RegistryInv, NEW s \in Services
  PROVE  Made(s, epoch[s]) = Registered(s)
<1>1. ASSUME NEW r \in Registered(s) PROVE r \in Made(s, epoch[s])
  <2>1. PICK c \in Consumers : registry[s][r] = <<s, r, epoch[s], c>>
    BY <1>1 DEF RegistryInv, Registered
  <2>2. Queue(registry[s][r], "error") \in DOMAIN kept
    BY <1>1 DEF RegistryInv, Registered, QueuesOf
  <2> QED
    BY <1>1, <2>1, <2>2 DEF Made, Registered
<1>2. ASSUME NEW r \in Made(s, epoch[s]) PROVE r \in Registered(s)
  <2>1. PICK c \in Consumers : Queue(<<s, r, epoch[s], c>>, "error") \in DOMAIN kept
    BY <1>2 DEF Made
  <2> DEFINE sampler == <<s, r, epoch[s], c>>
  <2>2. r \in Requests /\ epoch[s] \in Nat /\ sampler # None
    BY <1>2, SamplerConstants DEF Made, TypeOK
  <2>3. Live(sampler)
    BY <2>1 DEF RegistryInv, Queue
  <2> QED
    BY <2>2, <2>3 DEF Live, Registered
<1> QED
  BY <1>1, <1>2 DEF Made, Registered

\* A service without room was full in one of its epochs.
LEMMA NoRoom ==
  ASSUME TypeOK, RegistryInv, NEW s \in Services, ~HasRoom(s)
  PROVE  WasFull(s)
<1>1. epoch[s] \in 0..epoch[s]
  BY DEF TypeOK
<1> QED
  BY <1>1, MadeNow DEF WasFull, HasRoom

\* Queues are made by those who find room; epochs go up.
LEMMA Makers ==
  ASSUME SamplerInv, [Next]_vars
  PROVE  /\ \A s \in Services : epoch'[s] \in Nat /\ epoch[s] <= epoch'[s]
         /\ \/ DOMAIN kept' = DOMAIN kept
            \/ \E c \in Consumers :
                 /\ pc[c] \in {"resolve", "resolveAgain"} /\ Create(c)
                 /\ epoch' = epoch
<1> DEFINE P == /\ \A s \in Services : epoch'[s] \in Nat /\ epoch[s] <= epoch'[s]
                /\ \/ DOMAIN kept' = DOMAIN kept
                   \/ \E c \in Consumers :
                        /\ pc[c] \in {"resolve", "resolveAgain"} /\ Create(c)
                        /\ epoch' = epoch
<1>0. epoch \in [Services -> Nat]
  BY DEF SamplerInv, TypeOK
<1>1. epoch' = epoch => \A s \in Services : epoch'[s] \in Nat /\ epoch[s] <= epoch'[s]
  BY <1>0
<1>2. epoch' = epoch /\ kept' = kept => P
  BY <1>1
<1>3. ASSUME NEW c \in Consumers, pc[c] \in {"resolve", "resolveAgain"}, epoch' = epoch,
             Find(c) \/ Create(c) \/ Refuse(c)
      PROVE  P
  <2>1. CASE Create(c)
    BY <1>1, <1>3, <2>1
  <2>2. CASE Find(c) \/ Refuse(c)
    BY <1>2, <1>3, <2>2 DEF Find, Refuse
  <2> QED
    BY <1>3, <2>1, <2>2
<1>4. ASSUME NEW service \in Services, Clear(service) PROVE P
  <2>1. /\ kept' = kept
        /\ epoch' = [epoch EXCEPT
                       ![service] = IF Registered(service) = {} THEN @ ELSE @ + 1]
    BY <1>4 DEF Clear, queues
  <2> QED
    BY <1>0, <2>1
<1>5. ASSUME NEW c \in Consumers, NEW queue, NEW item, Push(c, queue, item),
             epoch' = epoch
      PROVE  P
  <2>1. DOMAIN kept' = DOMAIN kept
    BY <1>5 DEF Push
  <2> QED
    BY <1>1, <1>5, <2>1
<1>6. ASSUME NoPush, epoch' = epoch PROVE P
  BY <1>2, <1>6 DEF NoPush, queues
<1> HIDE DEF P
<1>7. /\ \A c \in Consumers : Resolve(c) => P
      /\ \A c \in Consumers : ResolveAgain(c) => P
      /\ \A c \in Consumers : Scan(c) => P
      /\ \A c \in Consumers : Due(c) => P
  BY <1>3, <1>5, <1>6 DEF Resolve, ResolveAgain, Scan, Due
<1>8. /\ \A c \in Consumers : Call(c) => P
      /\ \A c \in Consumers : Load(c) => P
      /\ \A c \in Consumers : GiveUp(c) => P
      /\ \A c \in Consumers : NotDue(c) => P
      /\ \A c \in Consumers : DuePanics(c) => P
      /\ \A c \in Consumers : Count(c) => P
      /\ \A c \in Consumers : HeapPush(c) => P
      /\ \A c \in Consumers : Unlock(c) => P
  BY <1>2 DEF Call, Load, GiveUp, NotDue, DuePanics, Count, HeapPush, Unlock, shared,
              queues
<1>9. /\ Flush => P
      /\ \A sampler \in toFlush : OpenErrors(sampler) => P
      /\ Export => P
      /\ ExportPanics => P
      /\ EndFlush => P
      /\ Stop => P
      /\ Update => P
      /\ UNCHANGED vars => P
  BY <1>2 DEF Flush, OpenErrors, Export, ExportPanics, EndFlush, Stop, Update, vars,
              shared, queues
<1>10. P
  BY <1>4, <1>7, <1>8, <1>9, Cases
<1> QED
  BY <1>10 DEF P

\* A service that was full in an epoch was: a queue is made only with room.
LEMMA FullStays ==
  ASSUME SamplerInv, [Next]_vars, NEW s \in Services, WasFull(s)
  PROVE  WasFull(s)'
<1>0. TypeOK /\ RegistryInv /\ ConsumerInv /\ epoch[s] \in Nat
  BY DEF SamplerInv, TypeOK
<1>1. PICK n \in 0..epoch[s] : ~(Cardinality(Made(s, n)) < LimitPerService)
  BY DEF WasFull
<1>2. n \in 0..epoch'[s]
  BY <1>0, <1>1, Makers
<1>3. Made(s, n)' = Made(s, n)
  <2>1. CASE DOMAIN kept' = DOMAIN kept
    BY <2>1 DEF Made
  <2>2. ASSUME NEW c \in Consumers, pc[c] \in {"resolve", "resolveAgain"}, Create(c),
               epoch' = epoch
        PROVE  Made(s, n)' = Made(s, n)
    <3> DEFINE new == <<Current(c).service, Current(c).request,
                        epoch[Current(c).service], c>>
    <3>1. new \in Samplers /\ DOMAIN kept' = DOMAIN kept \cup QueuesOf(new)
      BY <1>0, <2>2, Created
    <3>2. ~(new[1] = s /\ new[3] = n)
      <4>1. HasRoom(new[1]) /\ new[3] = epoch[new[1]]
        BY <2>2 DEF Create
      <4> QED
        BY <1>0, <1>1, <4>1, MadeNow DEF HasRoom
    <3>3. ASSUME NEW r \in Requests, NEW d \in Consumers,
                 Queue(<<s, r, n, d>>, "error") \in QueuesOf(new)
          PROVE  FALSE
      <4>1. Queue(<<s, r, n, d>>, "error")[1] = new
        BY <3>1, <3>3, QueuesOfSampler
      <4> QED
        BY <3>2, <4>1 DEF Queue
    <3> HIDE DEF new
    <3> QED
      BY <3>1, <3>3 DEF Made
  <2> QED
    BY <2>1, <2>2, Makers
<1> QED
  BY <1>1, <1>2, <1>3 DEF WasFull

\* A batch is settled once its traces do not change.
LEMMA SettledStays ==
  ASSUME SamplerInv, [Next]_vars, NEW c \in Consumers, NEW n \in DOMAIN Batches[c],
         Settled(c, n),
         \A trace \in Range(Batches[c][n]) :
           /\ trace \in counted' <=> trace \in counted
           /\ pushes'[trace] = pushes[trace]
  PROVE  Settled(c, n)'
<1> DEFINE b == Batches[c][n]
<1>1. /\ b \in Seq(Traces) /\ Len(b) \in Nat /\ DOMAIN b = 1..Len(b)
      /\ \A i \in DOMAIN b : b[i] \in Range(b) /\ b[i] \in Traces
  <2>1. b \in Seq(Traces)
    BY BatchTypes
  <2> QED
    BY <2>1, LenProperties DEF Range
<1>2. PICK k \in 0..Len(b) :
        /\ CountedTo(b, k)
        /\ k < Len(b) => \E i \in DOMAIN Segments[b[k + 1]] :
                           WasFull(Segments[b[k + 1]][i].service)
  BY DEF Settled
<1>3. CountedTo(b, k)'
  BY <1>1, <1>2 DEF CountedTo
<1>4. ASSUME k < Len(b)
      PROVE  \E i \in DOMAIN Segments[b[k + 1]] :
               WasFull(Segments[b[k + 1]][i].service)'
  <2>1. k + 1 \in DOMAIN b
    BY <1>1, <1>4
  <2>2. PICK i \in DOMAIN Segments[b[k + 1]] : WasFull(Segments[b[k + 1]][i].service)
    BY <1>2, <1>4
  <2>3. Segments[b[k + 1]][i].service \in Services
    BY <1>1, <2>1, <2>2, SegmentTypes
  <2> QED
    BY <2>2, <2>3, FullStays
<1> QED
  BY <1>3, <1>4 DEF Settled

\* A consumer keeps what it had when its traces do not change.
LEMMA KeepsTraces ==
  ASSUME SamplerInv, [Next]_vars, NEW c \in Consumers,
         UNCHANGED <<traces[c], calls[c], sampled[c]>>,
         pc'[c] = "refused" =>
           /\ pc[c] \notin {"idle", "count"} /\ segment'[c] = segment[c]
           /\ WasFull(Current(c).service),
         \A n \in DOMAIN Batches[c] : \A trace \in Range(Batches[c][n]) :
           /\ trace \in counted' <=> trace \in counted
           /\ pushes'[trace] = pushes[trace]
  PROVE  TracesOf(c)'
<1>0. TracesOf(c) /\ TypeOK /\ ConsumerInv
  BY DEF SamplerInv, TraceInv
<1>1. ASSUME NEW n \in DOMAIN Batches[c], n < calls[c] \/ (n = calls[c] /\ traces[c] = <<>>)
      PROVE  Settled(c, n)'
  BY <1>0, <1>1, SettledStays DEF TracesOf
<1>2. ASSUME NEW n \in DOMAIN Batches[c], NEW i \in DOMAIN Batches[c][n]
      PROVE  /\ Batches[c][n][i] \in counted' <=> Batches[c][n][i] \in counted
             /\ pushes'[Batches[c][n][i]] = pushes[Batches[c][n][i]]
  BY DEF Range
<1>3. ASSUME traces[c] # <<>>
      PROVE  /\ calls[c] \in DOMAIN Batches[c]
             /\ \E k \in 0..(Len(Batches[c][calls[c]]) - 1) :
                  /\ traces[c] = SubSeq(Batches[c][calls[c]], k + 1,
                                        Len(Batches[c][calls[c]]))
                  /\ CountedTo(Batches[c][calls[c]], k)'
             /\ pushes'[Head(traces[c])] > 0 => sampled[c]
  <2> DEFINE b == Batches[c][calls[c]]
  <2>1. /\ calls[c] \in DOMAIN Batches[c] /\ b \in Seq(Traces)
        /\ pushes[Head(traces[c])] > 0 => sampled[c]
    BY <1>0, <1>3, BatchTypes DEF TracesOf
  <2>2. PICK k \in 0..(Len(b) - 1) :
          traces[c] = SubSeq(b, k + 1, Len(b)) /\ CountedTo(b, k)
    BY <1>0, <1>3 DEF TracesOf
  <2>3. CountedTo(b, k)'
    BY <1>2, <2>1, <2>2 DEF CountedTo
  <2>4. Head(traces[c]) = b[k + 1] /\ k + 1 \in DOMAIN b
    BY <2>1, <2>2, SuffixOf
  <2>5. pushes'[Head(traces[c])] = pushes[Head(traces[c])]
    BY <1>2, <2>1, <2>4
  <2> QED
    BY <2>1, <2>2, <2>3, <2>5
<1>4. ASSUME pc'[c] = "refused" PROVE WasFull(Current(c).service)'
  <2>1. /\ Current(c)' = Current(c) /\ Current(c).service \in Services
        /\ WasFull(Current(c).service)
    BY <1>0, <1>4, CurrentTypes DEF Current
  <2>2. WasFull(Current(c).service)' <=> \E s \in {Current(c).service} : WasFull(s)'
    BY <2>1 DEF WasFull, Made
  <2> QED
    BY <2>1, <2>2, FullStays
<1> QED
  BY <1>0, <1>1, <1>2, <1>3, <1>4 DEF TracesOf

\* What one consumer does to the trace it is at is nothing to another.
LEMMA OtherTraces ==
  ASSUME SamplerInv, [Next]_vars, NEW c \in Consumers, NEW d \in Consumers \ {c},
         UNCHANGED <<traces[d], calls[d], sampled[d], pc[d], segment[d]>>,
         \A trace \in Traces :
           \/ traces[c] # <<>> /\ trace = Head(traces[c])
           \/ /\ trace \in counted' <=> trace \in counted
              /\ pushes'[trace] = pushes[trace]
  PROVE  TracesOf(d)'
<1>0. TracesOf(c) /\ TracesOf(d) /\ TypeOK
  BY DEF SamplerInv, TraceInv
<1>1. ASSUME NEW n \in DOMAIN Batches[d], NEW trace \in Range(Batches[d][n])
      PROVE  /\ trace \in counted' <=> trace \in counted
             /\ pushes'[trace] = pushes[trace]
  <2>1. trace \in Traces
    BY BatchTypes
  <2>2. ASSUME traces[c] # <<>>, trace = Head(traces[c]) PROVE FALSE
    <3>1. calls[c] \in DOMAIN Batches[c] /\ Batches[c][calls[c]] \in Seq(Traces)
      BY <1>0, <2>2, BatchTypes DEF TracesOf
    <3>2. trace \in Range(Batches[c][calls[c]])
      BY <1>0, <2>2, <3>1, SuffixOf DEF TracesOf, Range
    <3> QED
      BY <3>1, <3>2, BatchTypes
  <2> QED
    BY <2>1, <2>2
<1>2. pc'[d] = "refused" =>
        /\ pc[d] \notin {"idle", "count"} /\ segment'[d] = segment[d]
        /\ WasFull(Current(d).service)
  BY <1>0 DEF TracesOf
<1> QED
  BY <1>1, <1>2, KeepsTraces

\* A call begins with the first trace of a batch that nobody knows of yet.
LEMMA CallStep ==
  ASSUME SamplerInv, [Next]_vars, NEW c \in Consumers, Call(c)
  PROVE  TraceInv'
<1>b. PICK n, b : n = calls[c] + 1 /\ b = Batches[c][n]
  OBVIOUS
<1> USE <1>b
<1>0. TypeOK /\ ConsumerInv /\ TracesOf(c) /\ ConsumerTypes
  BY TypeParts DEF SamplerInv, TraceInv
<1>1. /\ calls[c] \in Nat /\ n \in DOMAIN Batches[c] /\ traces[c] = <<>>
      /\ b \in Seq(Traces) /\ Len(b) \in Nat /\ DOMAIN b = 1..Len(b)
  <2>1. calls[c] \in Nat /\ n \in DOMAIN Batches[c] /\ traces[c] = <<>>
    BY <1>0, BatchTypes DEF Call, ConsumerTypes, ConsumerInv, AtWork
  <2>2. b \in Seq(Traces)
    BY <2>1, BatchTypes
  <2> QED
    BY <2>1, <2>2, LenProperties
<1>2. /\ traces' = [traces EXCEPT ![c] = b]
      /\ calls' = [calls EXCEPT ![c] = n]
      /\ sampled' = [sampled EXCEPT ![c] = FALSE]
      /\ UNCHANGED <<counted, pushes>>
      /\ GotoTrace(c, b)
  BY DEF Call, GotoTrace, history
<1>3. /\ traces'[c] = b /\ calls'[c] = n
      /\ pc'[c] # "refused"
      /\ \A d \in Consumers \ {c} :
           UNCHANGED <<traces[d], calls[d], sampled[d], pc[d], segment[d]>>
  BY <1>0, <1>2 DEF ConsumerTypes, GotoTrace, GotoSegment, Goto
<1>4. ASSUME NEW d \in Consumers \ {c} PROVE TracesOf(d)'
  BY <1>2, <1>3, OtherTraces
<1>5. ASSUME NEW m \in DOMAIN Batches[c], m <= calls[c] PROVE Settled(c, m)'
  <2>1. m \in Nat
    BY BatchTypes
  <2>2. Settled(c, m)
    BY <1>0, <1>1, <1>5, <2>1 DEF TracesOf
  <2> QED
    BY <1>2, <2>2, SettledStays
<1>6. CountedTo(b, 0)'
  <2>1. \A i \in DOMAIN b : b[i] \notin counted' /\ pushes'[b[i]] = 0
    BY <1>0, <1>1, <1>2 DEF TracesOf
  <2> QED
    BY <1>1, <2>1 DEF CountedTo
<1>7. CASE b = <<>>
  <2>1. Settled(c, n)'
    BY <1>6, <1>7 DEF Settled
  <2>2. \A m \in DOMAIN Batches[c] : m \in Nat
    BY BatchTypes
  <2>3. ASSUME NEW m \in DOMAIN Batches[c] PROVE m <= n => Settled(c, m)'
    BY <1>1, <1>5, <2>1, <2>2
  <2>4. \A m \in DOMAIN Batches[c] : m > n => \A i \in DOMAIN Batches[c][m] :
          Batches[c][m][i] \notin counted' /\ pushes'[Batches[c][m][i]] = 0
    BY <1>0, <1>1, <1>2, <2>2 DEF TracesOf
  <2>5. TracesOf(c)'
    BY <1>1, <1>3, <1>7, <2>2, <2>3, <2>4 DEF TracesOf
  <2> QED
    BY <1>4, <2>5 DEF TraceInv
<1>8. CASE b # <<>>
  <2>1. 0 \in 0..(Len(b) - 1) /\ b = SubSeq(b, 0 + 1, Len(b))
    BY <1>1, <1>8, EmptySeq
  <2>2. pushes'[Head(b)] = 0
    <3>1. Head(b) = b[1] /\ 1 \in DOMAIN b
      BY <1>1, <2>1, SuffixOf
    <3> QED
      BY <1>0, <1>1, <1>2, <3>1 DEF TracesOf
  <2>3. \A m \in DOMAIN Batches[c] : m \in Nat
    BY BatchTypes
  <2>4. \A m \in DOMAIN Batches[c] :
          /\ m < n => Settled(c, m)'
          /\ m > n => \A i \in DOMAIN Batches[c][m] :
               Batches[c][m][i] \notin counted' /\ pushes'[Batches[c][m][i]] = 0
    BY <1>0, <1>1, <1>2, <1>5, <2>3 DEF TracesOf
  <2>5. TracesOf(c)'
    BY <1>1, <1>3, <1>6, <1>8, <2>1, <2>2, <2>4 DEF TracesOf
  <2> QED
    BY <1>4, <2>5 DEF TraceInv
<1> QED
  BY <1>7, <1>8

\* Where a call is in its batch.
LEMMA InBatch ==
  ASSUME SamplerInv, NEW c \in Consumers, traces[c] # <<>>
  PROVE  LET n == calls[c]
             b == Batches[c][calls[c]]
         IN  /\ n \in DOMAIN Batches[c] /\ n \in Nat
             /\ b \in Seq(Traces) /\ IsInjective(b)
             /\ Len(b) \in Nat /\ DOMAIN b = 1..Len(b)
             /\ \A m \in DOMAIN Batches[c] : m \in Nat
             /\ \E k \in 0..(Len(b) - 1) :
                  /\ traces[c] = SubSeq(b, k + 1, Len(b))
                  /\ CountedTo(b, k)
                  /\ k + 1 \in DOMAIN b
                  /\ Head(traces[c]) = b[k + 1] /\ b[k + 1] \in Traces
                  /\ Tail(traces[c]) = SubSeq(b, k + 2, Len(b))
                  /\ k + 1 = Len(b) => Tail(traces[c]) = <<>>
<1> DEFINE b == Batches[c][calls[c]]
<1>1. /\ TracesOf(c) /\ calls[c] \in DOMAIN Batches[c]
      /\ \E k \in 0..(Len(b) - 1) :
           traces[c] = SubSeq(b, k + 1, Len(b)) /\ CountedTo(b, k)
  BY DEF SamplerInv, TraceInv, TracesOf
<1>2. /\ \A m \in DOMAIN Batches[c] : m \in Nat
      /\ b \in Seq(Traces) /\ IsInjective(b)
  BY <1>1, BatchTypes
<1>3. /\ Len(b) \in Nat /\ DOMAIN b = 1..Len(b)
      /\ \A i \in DOMAIN b : b[i] \in Traces
  BY <1>2, LenProperties
<1>4. PICK k \in 0..(Len(b) - 1) :
        traces[c] = SubSeq(b, k + 1, Len(b)) /\ CountedTo(b, k)
  BY <1>1
<1>5. /\ k + 1 \in DOMAIN b /\ Head(traces[c]) = b[k + 1]
      /\ Tail(traces[c]) = SubSeq(b, k + 2, Len(b))
      /\ k + 1 = Len(b) => Tail(traces[c]) = <<>>
  BY <1>2, <1>4, SuffixOf
<1> QED
  BY <1>1, <1>2, <1>3, <1>4, <1>5

\* The batches of a call's consumer that it is not at keep what they had.
LEMMA OtherBatches ==
  ASSUME SamplerInv, [Next]_vars, NEW c \in Consumers, traces[c] # <<>>,
         \A trace \in Traces :
           \/ trace = Head(traces[c])
           \/ /\ trace \in counted' <=> trace \in counted
              /\ pushes'[trace] = pushes[trace]
  PROVE  \A m \in DOMAIN Batches[c] :
           /\ m < calls[c] => Settled(c, m)'
           /\ m > calls[c] => \A i \in DOMAIN Batches[c][m] :
                Batches[c][m][i] \notin counted' /\ pushes'[Batches[c][m][i]] = 0
<1>0. TracesOf(c)
  BY DEF SamplerInv, TraceInv
<1>1. ASSUME NEW m \in DOMAIN Batches[c], m # calls[c], NEW trace \in Range(Batches[c][m])
      PROVE  /\ trace \in counted' <=> trace \in counted
             /\ pushes'[trace] = pushes[trace]
  <2>1. trace \in Traces
    BY BatchTypes
  <2>2. ASSUME trace = Head(traces[c]) PROVE FALSE
    <3>1. calls[c] \in DOMAIN Batches[c] /\ trace \in Range(Batches[c][calls[c]])
      BY <2>2, InBatch DEF Range
    <3> QED
      BY <1>1, <3>1, BatchTypes
  <2> QED
    BY <2>1, <2>2
<1>2. ASSUME NEW m \in DOMAIN Batches[c], m < calls[c] PROVE Settled(c, m)'
  <2>1. m \in Nat /\ calls[c] \in Nat
    BY InBatch
  <2>2. m # calls[c] /\ Settled(c, m)
    BY <1>0, <1>2, <2>1 DEF TracesOf
  <2> QED
    BY <1>1, <2>2, SettledStays
<1>3. ASSUME NEW m \in DOMAIN Batches[c], m > calls[c], NEW i \in DOMAIN Batches[c][m]
      PROVE  Batches[c][m][i] \notin counted' /\ pushes'[Batches[c][m][i]] = 0
  <2>1. m \in Nat /\ calls[c] \in Nat
    BY InBatch
  <2>2. m # calls[c] /\ Batches[c][m][i] \in Range(Batches[c][m])
    BY <1>3, <2>1 DEF Range
  <2> QED
    BY <1>0, <1>1, <1>3, <2>2 DEF TracesOf
<1> QED
  BY <1>2, <1>3

\* A call that is refused has met a full service, and ends.
LEMMA GiveUpStep ==
  ASSUME SamplerInv, [Next]_vars, NEW c \in Consumers, GiveUp(c)
  PROVE  TraceInv'
<1>b. PICK n, b : n = calls[c] /\ b = Batches[c][n]
  OBVIOUS
<1> USE <1>b
<1>0. TypeOK /\ ConsumerInv /\ AtWork(c) /\ TracesOf(c) /\ ConsumerTypes
  BY TypeParts DEF SamplerInv, TraceInv, ConsumerInv
<1>1. pc[c] = "refused" /\ traces[c] # <<>>
  BY <1>0 DEF GiveUp, AtWork
<1>2. /\ traces' = [traces EXCEPT ![c] = <<>>]
      /\ sampled' = [sampled EXCEPT ![c] = FALSE]
      /\ UNCHANGED <<calls, pushes, counted>>
      /\ GotoTrace(c, <<>>)
  BY DEF GiveUp, GotoTrace, AfterRefusal, history
<1>3. /\ traces'[c] = <<>> /\ pc'[c] = "idle"
      /\ \A d \in Consumers \ {c} :
           UNCHANGED <<traces[d], calls[d], sampled[d], pc[d], segment[d]>>
  BY <1>0, <1>2 DEF ConsumerTypes, GotoTrace, GotoSegment, Goto
<1>4. ASSUME NEW d \in Consumers \ {c} PROVE TracesOf(d)'
  BY <1>2, <1>3, OtherTraces
<1>5. Settled(c, n)
  <2>1. PICK k \in 0..(Len(b) - 1) : CountedTo(b, k) /\ Head(traces[c]) = b[k + 1]
    BY <1>1, InBatch
  <2>2. /\ segment[c] \in DOMAIN Segments[b[k + 1]]
        /\ WasFull(Segments[b[k + 1]][segment[c]].service)
    BY <1>0, <1>1, <2>1 DEF AtWork, TracesOf, Current
  <2>3. k \in 0..Len(b)
    BY <1>1, <2>1, InBatch
  <2> QED
    BY <2>1, <2>2, <2>3 DEF Settled
<1>6. Settled(c, n)'
  BY <1>1, <1>2, <1>5, InBatch, SettledStays
<1>7. \A m \in DOMAIN Batches[c] :
        /\ m < n => Settled(c, m)'
        /\ m > n => \A i \in DOMAIN Batches[c][m] :
             Batches[c][m][i] \notin counted' /\ pushes'[Batches[c][m][i]] = 0
  BY <1>1, <1>2, OtherBatches
<1>8. calls'[c] = n
  BY <1>2
<1>9. TracesOf(c)'
  <2> QED
    BY <1>3, <1>6, <1>7, <1>8 DEF TracesOf
<1> QED
  BY <1>4, <1>9 DEF TraceInv

\* A trace is counted, and the next one is at hand, which is not sampled yet.
LEMMA CountStep ==
  ASSUME SamplerInv, [Next]_vars, NEW c \in Consumers, Count(c)
  PROVE  TraceInv'
<1>b. PICK n, b : n = calls[c] /\ b = Batches[c][n]
  OBVIOUS
<1> USE <1>b
<1>0. TypeOK /\ ConsumerInv /\ AtWork(c) /\ TracesOf(c) /\ ConsumerTypes
  BY TypeParts DEF SamplerInv, TraceInv, ConsumerInv
<1>1. pc[c] = "count" /\ traces[c] # <<>>
  BY <1>0 DEF Count, AtWork
<1>2. /\ n \in DOMAIN Batches[c] /\ n \in Nat /\ IsInjective(b)
      /\ b \in Seq(Traces) /\ Len(b) \in Nat /\ DOMAIN b = 1..Len(b)
      /\ \A m \in DOMAIN Batches[c] : m \in Nat
  BY <1>1, InBatch
<1>3. PICK k \in 0..(Len(b) - 1) :
        /\ CountedTo(b, k)
        /\ k + 1 \in DOMAIN b
        /\ Head(traces[c]) = b[k + 1] /\ b[k + 1] \in Traces
        /\ Tail(traces[c]) = SubSeq(b, k + 2, Len(b))
        /\ k + 1 = Len(b) => Tail(traces[c]) = <<>>
  BY <1>1, InBatch
<1>4. /\ traces' = [traces EXCEPT ![c] = Tail(traces[c])]
      /\ sampled' = [sampled EXCEPT ![c] = FALSE]
      /\ UNCHANGED <<calls, pushes>>
      /\ counted' = counted \cup {b[k + 1]}
      /\ GotoTrace(c, Tail(traces[c]))
  BY <1>3 DEF Count, GotoTrace
<1>5. /\ traces'[c] = SubSeq(b, k + 2, Len(b)) /\ pc'[c] # "refused" /\ calls'[c] = n
      /\ \A d \in Consumers \ {c} :
           UNCHANGED <<traces[d], calls[d], sampled[d], pc[d], segment[d]>>
  BY <1>0, <1>3, <1>4 DEF ConsumerTypes, GotoTrace, GotoSegment, Goto
<1>6. \A trace \in Traces : \/ trace = Head(traces[c])
                            \/ /\ trace \in counted' <=> trace \in counted
                               /\ pushes'[trace] = pushes[trace]
  BY <1>3, <1>4
<1>7. ASSUME NEW d \in Consumers \ {c} PROVE TracesOf(d)'
  BY <1>1, <1>5, <1>6, OtherTraces
<1>8. \A m \in DOMAIN Batches[c] :
        /\ m < n => Settled(c, m)'
        /\ m > n => \A i \in DOMAIN Batches[c][m] :
             Batches[c][m][i] \notin counted' /\ pushes'[Batches[c][m][i]] = 0
  BY <1>1, <1>6, OtherBatches
<1>9. CountedTo(b, k + 1)'
  <2>1. ASSUME NEW i \in DOMAIN b
        PROVE  /\ b[i] \in counted' <=> i <= k + 1
               /\ i > k + 2 => pushes'[b[i]] = 0
    <3>1. /\ b[i] \in counted <=> i <= k
          /\ i > k + 1 => pushes[b[i]] = 0
      BY <1>3 DEF CountedTo
    <3>2. b[i] = b[k + 1] <=> i = k + 1
      BY <1>2, <1>3 DEF IsInjective
    <3>3. b[i] \in counted' <=> i <= k \/ i = k + 1
      BY <1>4, <3>1, <3>2
    <3> QED
      BY <1>2, <1>3, <1>4, <3>1, <3>3
  <2>2. (k + 1) + 1 = k + 2
    BY <1>2, <1>3
  <2> QED
    BY <2>1, <2>2 DEF CountedTo
<1>10. CASE k + 1 = Len(b)
  <2>1. traces'[c] = <<>>
    BY <1>3, <1>5, <1>10
  <2>2. Settled(c, n)'
    <3>1. Len(b) \in 0..Len(b) /\ ~(Len(b) < Len(b)) /\ CountedTo(b, Len(b))'
      BY <1>2, <1>9, <1>10
    <3>2. Settled(c, n)' <=>
            \E j \in 0..Len(b) :
              /\ CountedTo(b, j)'
              /\ j < Len(b) => \E i \in DOMAIN Segments[b[j + 1]] :
                                 WasFull(Segments[b[j + 1]][i].service)'
      BY <1>4 DEF Settled
    <3> QED
      BY <3>1, <3>2
  <2>3. TracesOf(c)'
    <3> QED
      BY <1>5, <1>8, <2>1, <2>2 DEF TracesOf
  <2> QED
    BY <1>7, <2>3 DEF TraceInv
<1>11. CASE k + 1 # Len(b)
  <2>1. /\ k + 1 \in 0..(Len(b) - 1) /\ (k + 1) + 1 = k + 2 /\ k + 2 \in DOMAIN b
    <3>1. k \in Nat /\ k + 1 < Len(b)
      BY <1>2, <1>11
    <3> QED
      BY <1>2, <3>1
  <2>2. /\ traces'[c] = SubSeq(b, (k + 1) + 1, Len(b)) /\ traces'[c] # <<>>
        /\ Head(traces'[c]) = b[k + 2]
    <3>1. /\ SubSeq(b, (k + 1) + 1, Len(b)) # <<>>
          /\ Head(SubSeq(b, (k + 1) + 1, Len(b))) = b[(k + 1) + 1]
      BY <1>2, <2>1, SuffixOf
    <3> QED
      BY <1>5, <2>1, <3>1
  <2>3. pushes'[b[k + 2]] = 0
    <3>1. k + 2 > k + 1
      BY <1>2
    <3>2. pushes[b[k + 2]] = 0
      BY <1>3, <2>1, <3>1 DEF CountedTo
    <3> QED
      BY <1>4, <3>2
  <2>4. \E j \in 0..(Len(b) - 1) :
          traces'[c] = SubSeq(b, j + 1, Len(b)) /\ CountedTo(b, j)'
    BY <1>9, <2>1, <2>2
  <2>5. TracesOf(c)'
    <3>1. ~(pushes'[Head(traces'[c])] > 0)
      BY <2>2, <2>3
    <3>2. b = Batches[c][calls'[c]] /\ calls'[c] \in DOMAIN Batches[c]
      BY <1>2, <1>5
    <3> QED
      BY <1>5, <1>8, <2>2, <2>4, <3>1, <3>2 DEF TracesOf
  <2> QED
    BY <1>7, <2>5 DEF TraceInv
<1> QED
  BY <1>10, <1>11

\* A push is that of the trace a consumer is at.
LEMMA SampleStep ==
  ASSUME SamplerInv, [Next]_vars, NEW c \in Consumers, traces[c] # <<>>,
         pushes' = [pushes EXCEPT ![Head(traces[c])] = 1],
         sampled' = [sampled EXCEPT ![c] = TRUE],
         pc'[c] # "refused",
         \A d \in Consumers \ {c} : UNCHANGED <<pc[d], segment[d]>>,
         UNCHANGED <<traces, calls, counted>>
  PROVE  TraceInv'
<1>b. PICK n, b : n = calls[c] /\ b = Batches[c][n]
  OBVIOUS
<1> USE <1>b
<1>0. TypeOK /\ TracesOf(c) /\ ConsumerTypes
  BY TypeParts DEF SamplerInv, TraceInv
<1>1. /\ sampled'[c] = TRUE
      /\ \A d \in Consumers \ {c} : UNCHANGED sampled[d]
      /\ \A trace \in Traces : trace # Head(traces[c]) => pushes'[trace] = pushes[trace]
  BY <1>0 DEF ConsumerTypes, TypeOK
<1>2. ASSUME NEW d \in Consumers \ {c} PROVE TracesOf(d)'
  BY <1>1, OtherTraces
<1>3. \A m \in DOMAIN Batches[c] :
        /\ m < n => Settled(c, m)'
        /\ m > n => \A i \in DOMAIN Batches[c][m] :
             Batches[c][m][i] \notin counted' /\ pushes'[Batches[c][m][i]] = 0
  BY <1>1, OtherBatches
<1>4. /\ n \in DOMAIN Batches[c] /\ n \in Nat
      /\ b \in Seq(Traces) /\ Len(b) \in Nat /\ DOMAIN b = 1..Len(b)
      /\ \A i, j \in DOMAIN b : b[i] = b[j] => i = j
  BY InBatch DEF IsInjective
<1>5. PICK k \in 0..(Len(b) - 1) :
        /\ traces[c] = SubSeq(b, k + 1, Len(b))
        /\ CountedTo(b, k)
        /\ k + 1 \in DOMAIN b
        /\ Head(traces[c]) = b[k + 1]
  BY InBatch
<1>6. CountedTo(b, k)'
  <2>1. ASSUME NEW i \in DOMAIN b
        PROVE  /\ b[i] \in counted' <=> i <= k
               /\ i > k + 1 => pushes'[b[i]] = 0
    <3>1. /\ b[i] \in counted <=> i <= k
          /\ i > k + 1 => pushes[b[i]] = 0
      BY <1>5 DEF CountedTo
    <3>2. i > k + 1 => b[i] # b[k + 1]
      <4>1. i > k + 1 => i # k + 1
        BY <1>4, <1>5
      <4> QED
        BY <1>4, <1>5, <4>1
    <3>3. b[i] \in Traces
      BY <1>4
    <3> QED
      BY <1>1, <1>5, <3>1, <3>2, <3>3
  <2> QED
    BY <2>1 DEF CountedTo
<1>7. TracesOf(c)'
  <2>1. b = Batches[c][calls'[c]] /\ calls'[c] = n /\ traces'[c] = traces[c]
    OBVIOUS
  <2>2. \E j \in 0..(Len(b) - 1) :
          traces'[c] = SubSeq(b, j + 1, Len(b)) /\ CountedTo(b, j)'
    BY <1>5, <1>6, <2>1
  <2>3. ~(n < n) /\ traces'[c] # <<>> /\ pc'[c] # "refused"
    BY <1>4, <2>1
  <2>4. \A m \in DOMAIN Batches[c] :
          /\ m < n \/ (m = n /\ traces'[c] = <<>>) => Settled(c, m)'
          /\ m > n => \A i \in DOMAIN Batches[c][m] :
               Batches[c][m][i] \notin counted' /\ pushes'[Batches[c][m][i]] = 0
    BY <1>3, <2>3
  <2> QED
    BY <1>1, <1>4, <2>1, <2>2, <2>3, <2>4 DEF TracesOf
<1> QED
  BY <1>2, <1>7 DEF TraceInv

\* Calls go through their batches trace by trace, and end early only when a
\* service is full.
LEMMA TraceStep ==
  ASSUME SamplerInv, [Next]_vars
  PROVE  TraceInv'
<1>0. TypeOK /\ ConsumerInv /\ TraceInv /\ ConsumerTypes /\ RegistryInv
  BY TypeParts DEF SamplerInv
<1>1. ASSUME UNCHANGED <<traces, calls, sampled, counted, pushes>>,
             \A c \in Consumers : pc'[c] = "refused" =>
               /\ pc[c] \notin {"idle", "count"} /\ segment'[c] = segment[c]
               /\ WasFull(Current(c).service)
      PROVE  TraceInv'
  <2>1. ASSUME NEW c \in Consumers PROVE TracesOf(c)'
    BY <1>1, KeepsTraces
  <2> QED
    BY <2>1 DEF TraceInv
<1>2. \A c \in Consumers : pc[c] = "refused" => WasFull(Current(c).service)
  BY <1>0 DEF TraceInv, TracesOf
<1>3. ASSUME UNCHANGED <<traces, calls, sampled, counted, pushes, pc, segment>>
      PROVE  TraceInv'
  BY <1>1, <1>2, <1>3
<1>4. /\ \A c \in Consumers : Call(c) => TraceInv'
      /\ \A c \in Consumers : GiveUp(c) => TraceInv'
      /\ \A c \in Consumers : Count(c) => TraceInv'
  BY CallStep, GiveUpStep, CountStep
<1>5. ASSUME NEW c \in Consumers, Scan(c) PROVE TraceInv'
  <2> DEFINE s == Current(c).spans[span[c]]
             item(kind) == [trace |-> Head(traces[c]), segment |-> segment[c],
                            type |-> kind]
  <2>1. /\ UNCHANGED <<known, registry, epoch, flusherPc, toVisit, toFlush, open, reads,
                       closed, exported, exports, counted, traces, calls>>
        /\ pc[c] = "scan" /\ requestState[c] # None /\ traces[c] # <<>>
    BY <1>0, <1>5 DEF Scan, ConsumerInv, AtWork, delivery
  <2>2. /\ pc'[c] # "refused"
        /\ \A d \in Consumers \ {c} : UNCHANGED <<pc[d], segment[d]>>
    BY <1>0, <1>5 DEF Scan, GotoSegment, Goto, ConsumerTypes
  <2>3. CASE Takes(c, s)
    <3>1. ~sampled[c]
      BY <2>3 DEF Takes
    <3>2. /\ sampled' = [sampled EXCEPT ![c] = TRUE]
          /\ \/ Push(c, Queue(requestState[c], "error"), item("error"))
             \/ Push(c, Queue(requestState[c], "slow"), item("slow"))
      BY <1>5, <2>3 DEF Scan
    <3>3. pushes' = [pushes EXCEPT ![Head(traces[c])] = 1]
      <4>1. CASE Push(c, Queue(requestState[c], "error"), item("error"))
        BY <2>1, <3>1, <4>1, ConsumerPush
      <4>2. CASE Push(c, Queue(requestState[c], "slow"), item("slow"))
        BY <2>1, <3>1, <4>2, ConsumerPush
      <4> QED
        BY <3>2, <4>1, <4>2
    <3> QED
      BY <2>1, <2>2, <3>2, <3>3, SampleStep
  <2>4. CASE ~Takes(c, s)
    <3>1. UNCHANGED <<sampled, pushes>>
      BY <1>5, <2>4 DEF Scan, NoPush
    <3>2. \A d \in Consumers : pc'[d] = "refused" =>
            /\ pc[d] \notin {"idle", "count"} /\ segment'[d] = segment[d]
            /\ WasFull(Current(d).service)
      BY <1>2, <2>2
    <3> QED
      BY <1>1, <2>1, <3>1, <3>2
  <2> QED
    BY <2>3, <2>4
<1>6. ASSUME NEW c \in Consumers, Due(c) PROVE TraceInv'
  <2>1. /\ UNCHANGED <<known, registry, epoch, flusherPc, toVisit, toFlush, open, reads,
                       closed, exported, exports, counted, traces, calls>>
        /\ pc[c] = "decide" /\ requestState[c] # None /\ ~sampled[c] /\ traces[c] # <<>>
        /\ Push(c, Queue(requestState[c], "slow"),
                [trace |-> Head(traces[c]), segment |-> segment[c], type |-> "normal"])
        /\ sampled' = [sampled EXCEPT ![c] = TRUE]
    BY <1>0, <1>6 DEF Due, ConsumerInv, AtWork, delivery
  <2>2. /\ pc'[c] # "refused"
        /\ \A d \in Consumers \ {c} : UNCHANGED <<pc[d], segment[d]>>
    BY <1>0, <1>6 DEF Due, GotoSegment, Goto, ConsumerTypes
  <2>3. pushes' = [pushes EXCEPT ![Head(traces[c])] = 1]
    BY <2>1, ConsumerPush
  <2> QED
    BY <2>1, <2>2, <2>3, SampleStep
<1>7. ASSUME NEW c \in Consumers, Resolve(c) PROVE TraceInv'
  <2>1. /\ UNCHANGED <<traces, calls, sampled, counted, pushes, segment>>
        /\ pc[c] = "resolve"
        /\ Find(c) \/ Create(c) \/ Refuse(c)
        /\ pc' = [pc EXCEPT ![c] = IF requestState'[c] = None THEN "refused" ELSE "scan"]
    BY <1>7 DEF Resolve, Goto
  <2>2. Current(c).service \in Services /\ Current(c).request \in Requests
    BY <1>0, <2>1, CurrentTypes
  <2>3. ASSUME pc'[c] = "refused" PROVE WasFull(Current(c).service)
    <3>1. requestState'[c] = None
      BY <1>0, <2>1, <2>3 DEF ConsumerTypes
    <3>2. ~Find(c)
      BY <1>0, <3>1 DEF Find, Absent, ConsumerTypes
    <3>3. ~Create(c)
      <4>1. <<Current(c).service, Current(c).request, epoch[Current(c).service], c>> # None
        BY <1>0, <2>2, SamplerConstants DEF TypeOK
      <4> QED
        BY <1>0, <3>1, <4>1 DEF Create, ConsumerTypes
    <3>4. ~HasRoom(Current(c).service)
      BY <2>1, <3>2, <3>3 DEF Refuse
    <3> QED
      BY <1>0, <2>2, <3>4, NoRoom
  <2>4. \A d \in Consumers \ {c} : pc'[d] = pc[d]
    BY <1>0, <2>1 DEF ConsumerTypes
  <2>5. \A d \in Consumers : pc'[d] = "refused" =>
          /\ pc[d] \notin {"idle", "count"} /\ segment'[d] = segment[d]
          /\ WasFull(Current(d).service)
    BY <1>2, <2>1, <2>3, <2>4
  <2> QED
    BY <1>1, <2>1, <2>5
<1>8. ASSUME NEW c \in Consumers, Load(c) \/ ResolveAgain(c) \/ NotDue(c)
      PROVE  TraceInv'
  <2>1. UNCHANGED <<traces, calls, sampled, counted, pushes>>
    BY <1>8 DEF Load, ResolveAgain, NotDue, history
  <2>2. /\ pc'[c] # "refused"
        /\ \A d \in Consumers \ {c} : UNCHANGED <<pc[d], segment[d]>>
    BY <1>0, <1>8 DEF Load, ResolveAgain, NotDue, GotoSegment, Goto, ConsumerTypes
  <2>3. \A d \in Consumers : pc'[d] = "refused" =>
          /\ pc[d] \notin {"idle", "count"} /\ segment'[d] = segment[d]
          /\ WasFull(Current(d).service)
    BY <1>2, <2>2
  <2> QED
    BY <1>1, <2>1, <2>3
<1>9. /\ \A c \in Consumers : DuePanics(c) => TraceInv'
      /\ \A c \in Consumers : HeapPush(c) => TraceInv'
      /\ \A c \in Consumers : Unlock(c) => TraceInv'
  BY <1>3 DEF DuePanics, HeapPush, Unlock, consumers, history
<1>10. /\ Flush => TraceInv'
       /\ \A service \in Services : Clear(service) => TraceInv'
       /\ \A sampler \in toFlush : OpenErrors(sampler) => TraceInv'
       /\ Export => TraceInv'
       /\ ExportPanics => TraceInv'
       /\ EndFlush => TraceInv'
       /\ Stop => TraceInv'
       /\ Update => TraceInv'
       /\ UNCHANGED vars => TraceInv'
  BY <1>3 DEF Flush, Clear, OpenErrors, Export, ExportPanics, EndFlush, Stop, Update,
              vars, consumers, history
<1>11. /\ \A c \in Consumers : Load(c) => TraceInv'
       /\ \A c \in Consumers : Resolve(c) => TraceInv'
       /\ \A c \in Consumers : Scan(c) => TraceInv'
       /\ \A c \in Consumers : ResolveAgain(c) => TraceInv'
       /\ \A c \in Consumers : NotDue(c) => TraceInv'
       /\ \A c \in Consumers : Due(c) => TraceInv'
  BY <1>5, <1>6, <1>7, <1>8
<1> QED
  BY <1>4, <1>9, <1>10, <1>11, Cases

-----------------------------------------------------------------------------
(* The invariants                                                          *)

\* The processor as created, with no call under way.
LEMMA InitEstablishesSamplerInv == Init => SamplerInv
<1> SUFFICES ASSUME Init PROVE SamplerInv
  OBVIOUS
<1>1. kept = <<>> /\ pushed = <<>> /\ DOMAIN kept = {} /\ DOMAIN pushed = {}
  BY DEF Init
<1>2. TypeOK
  <2>1. /\ RegistryTypes
        /\ WalkTypes
        /\ HistoryTypes
        /\ OtherTypes
    <3>1. RegistryTypes
      BY DEF Init, RegistryTypes
    <3>2. WalkTypes
      BY DEF Init, WalkTypes
    <3>3. HistoryTypes
      BY DEF Init, HistoryTypes
    <3>4. OtherTypes
      <4>1. MaxUpdates \in Nat
        BY SamplerConstants
      <4>2. /\ panicked = FALSE /\ threshold \in Thresholds
            /\ ignoreClientErrors = FALSE /\ updates = 0
        BY DEF Init
      <4>3. updates \in 0..MaxUpdates
        BY <4>1, <4>2
      <4> QED
        BY <4>2, <4>3, Zenon DEF OtherTypes
    <3> QED
      BY <3>1, <3>2, <3>3, <3>4
  <2>2. QueueTypes
    <3>1. pushing \in [Consumers -> {None}]
      BY DEF Init
    <3> QED
      BY <1>1, <3>1 DEF QueueTypes
  <2>3. ConsumerTypes
    <3>1. \A c \in Consumers : 0 <= Len(Batches[c])
      BY BatchTypes
    <3> QED
      BY <3>1 DEF Init, ConsumerTypes
  <2> QED
    BY <2>1, <2>2, <2>3, TypeParts
<1>3. ConsumerInv
  BY DEF Init, ConsumerInv, AtWork
<1>4. RegistryInv
  BY <1>1 DEF Init, RegistryInv
<1>5. FlusherInv
  BY DEF Init, FlusherInv
<1>6. QueueInv
  BY <1>1 DEF Init, QueueInv
<1>7. TraceInv
  <2>1. ASSUME NEW c \in Consumers PROVE TracesOf(c)
    <3>1. /\ traces[c] = <<>> /\ pc[c] = "idle" /\ calls[c] = 0 /\ counted = {}
          /\ \A trace \in Traces : pushes[trace] = 0
      BY DEF Init
    <3>2. ASSUME NEW n \in DOMAIN Batches[c]
          PROVE  /\ n > 0 /\ ~(n < 0) /\ n # 0
                 /\ \A i \in DOMAIN Batches[c][n] : pushes[Batches[c][n][i]] = 0
      BY <3>1, BatchTypes DEF Range
    <3> QED
      BY <3>1, <3>2 DEF TracesOf
  <2> QED
    BY <2>1 DEF TraceInv
<1>8. SampledOnce
  BY DEF Init, SampledOnce
<1>9. PushInv /\ ExportInv
  BY DEF Init, PushInv, ExportInv
<1> QED
  BY <1>2, <1>3, <1>4, <1>5, <1>6, <1>7, <1>8, <1>9 DEF SamplerInv

\* Every step of a consumer or of the flusher keeps the invariant.
LEMMA StepKeepsSamplerInv == SamplerInv /\ [Next]_vars => SamplerInv'
<1> SUFFICES ASSUME SamplerInv, [Next]_vars PROVE SamplerInv'
  OBVIOUS
<1>1. ConsumerTypes' /\ ConsumerInv'
  BY ConsumerStep
<1>2. RegistryTypes' /\ RegistryInv'
  BY RegistryStep
<1>3. /\ QueueTypes' /\ WalkTypes' /\ HistoryTypes'
      /\ QueueInv' /\ FlusherInv' /\ PushInv' /\ ExportInv' /\ SampledOnce'
  BY QueueStep
<1>4. OtherTypes'
  BY OtherStep, TypeParts DEF SamplerInv
<1>5. TypeOK'
  BY <1>1, <1>2, <1>3, <1>4
  DEF TypeOK, RegistryTypes, QueueTypes, ConsumerTypes, WalkTypes, HistoryTypes,
      OtherTypes
<1> QED
  BY <1>1, <1>2, <1>3, <1>5, TraceStep DEF SamplerInv

\* The inductive invariant of consumers and flusher.
THEOREM SamplerInvariant == Spec => []SamplerInv
BY InitEstablishesSamplerInv, StepKeepsSamplerInv, PTL DEF Spec

\* The state of the sampler has its type, and no queue is over its limit.
THEOREM TailSamplerTypeCorrect == Spec => []TypeOK
<1>1. SamplerInv => TypeOK
  BY DEF SamplerInv
<1> QED
  BY <1>1, SamplerInvariant, PTL

\* sampleTraces and captureNormalSample queue a trace at most once, over all
\* of its segments and spans; startTraceFlusher hands it to the next consumer
\* at most once, unless a push into its queue was not done when the queue was
\* taken.
THEOREM TracesAreSampledOnce == Spec => []SampledOnce
<1>1. SamplerInv => SampledOnce
  BY DEF SamplerInv
<1> QED
  BY <1>1, SamplerInvariant, PTL

\* startTraceFlusher exports all a queue kept, the slowest of its items,
\* unless a consumer still pushes into the queue it has taken.
THEOREM QueuesAreFlushedInFull == Spec => []FlushedInFull
<1>1. SamplerInv => FlushedInFull
  <2> SUFFICES ASSUME SamplerInv, NEW queue \in closed \ late,
                      NEW dropped \in pushed[queue] \ exported
               PROVE  LET out == pushed[queue] \cap exported
                      IN /\ Cardinality(out) = PerRequestLimit
                         /\ \A item \in out : Latency(dropped) <= Latency(item)
    BY DEF FlushedInFull
  <2>1. queue \in DOMAIN kept
    BY DEF SamplerInv, TypeOK
  <2>2. pushed[queue] \cap exported = kept[queue]
    BY <2>1 DEF SamplerInv, QueueInv
  <2>3. dropped \in pushed[queue] \ kept[queue]
    BY <2>2
  <2> QED
    BY <2>1, <2>2, <2>3 DEF SamplerInv, QueueInv
<1> QED
  BY <1>1, SamplerInvariant, PTL

\* sampleTraces counts the traces it is given one after the other, and leaves
\* its loops early only at a trace of a service that was full, with nothing
\* behind that one sampled.
THEOREM TracesAreSettled == Spec => []TracesSettled
<1>1. SamplerInv => TracesSettled
  <2> SUFFICES ASSUME SamplerInv, NEW c \in Consumers, pc[c] = "idle",
                      NEW n \in 1..calls[c]
               PROVE  Settled(c, n)
    BY DEF TracesSettled
  <2>1. /\ calls[c] \in Nat /\ calls[c] <= Len(Batches[c])
        /\ traces[c] = <<>>
    BY DEF SamplerInv, TypeOK, ConsumerInv, AtWork
  <2>2. n \in DOMAIN Batches[c] /\ (n < calls[c] \/ n = calls[c])
    BY <2>1, BatchTypes
  <2> QED
    BY <2>1, <2>2 DEF SamplerInv, TraceInv, TracesOf
<1> QED
  BY <1>1, SamplerInvariant, PTL

-----------------------------------------------------------------------------
(* The maps of the services are used as RequestRegistry says               *)

\* A sampler's name is no nil.
LEMMA NameOf ==
  ASSUME NEW sampler \in Samplers \cup {None}
  PROVE  Name(sampler) = None <=> sampler = None
BY SamplerConstants DEF Name, Samplers

\* Where the call of a consumer is, as its service's map sees it.
StageAt(c) ==
  \A service \in Services :
    /\ /\ pc[c] \in {"resolve", "resolveAgain"} /\ Current(c).service = service
       => Stage(service, c) = "missed"
    /\ /\ pc[c] \in {"refused", "scan", "decide"} /\ Current(c).service = service
       => Stage(service, c) = "answered"
    /\ \/ pc[c] \in {"idle", "load", "loadAgain", "count"}
       \/ Current(c).service # service
       => Stage(service, c) = "idle"

\* Where every call is and what its locals hold.
LEMMA Stages == SamplerInv => \A c \in Consumers : StageAt(c)
<1> SUFFICES ASSUME SamplerInv, NEW c \in Consumers, NEW service \in Services
             PROVE  /\ pc[c] \in {"resolve", "resolveAgain"} /\ Current(c).service = service
                       => Stage(service, c) = "missed"
                    /\ pc[c] \in {"refused", "scan", "decide"} /\ Current(c).service = service
                       => Stage(service, c) = "answered"
                    /\ \/ pc[c] \in {"idle", "load", "loadAgain", "count"}
                       \/ Current(c).service # service
                       => Stage(service, c) = "idle"
  BY DEF StageAt
<1>1. /\ requestState[c] # None => /\ pc[c] \in {"scan", "decide"}
                                   /\ requestState[c][1] = Current(c).service
      /\ pc[c] = "scan" => requestState[c] # None
  BY DEF SamplerInv, ConsumerInv, AtWork
<1>2. CASE requestState[c] # None
  BY <1>1, <1>2 DEF Stage
<1>3. CASE requestState[c] = None
  BY <1>1, <1>3 DEF Stage
<1> QED
  BY <1>2, <1>3

\* The same after a step.
LEMMA StagesNext == ASSUME SamplerInv' PROVE (\A c \in Consumers : StageAt(c))'
BY Stages, PTL

\* The map of a service and the calls that are about it.
MapOf(s) == [r \in Requests |-> Name(registry[s][r])]
StagesOf(s) == [c \in Consumers |-> Stage(s, c)]
AskedOf(s) == [c \in Consumers |-> Asked(s, c)]
AnswersOf(s) == [c \in Consumers |-> Answer(s, c)]

\* Only the call of the consumer that moves goes on.
LEMMA OneMoves ==
  ASSUME NEW s \in Services, NEW c \in Consumers,
         \A d \in Consumers \ {c} :
           UNCHANGED <<pc[d], requestState[d], traces[d], segment[d]>>
  PROVE  /\ StagesOf(s)' = [StagesOf(s) EXCEPT ![c] = Stage(s, c)']
         /\ AskedOf(s)' = [AskedOf(s) EXCEPT ![c] = Asked(s, c)']
         /\ AnswersOf(s)' = [AnswersOf(s) EXCEPT ![c] = Answer(s, c)']
<1>1. ASSUME NEW d \in Consumers \ {c}
      PROVE  /\ Stage(s, d)' = Stage(s, d)
             /\ Asked(s, d)' = Asked(s, d)
             /\ Answer(s, d)' = Answer(s, d)
  <2>1. Current(d)' = Current(d)
    BY <1>1 DEF Current
  <2>2. Stage(s, d)' = Stage(s, d)
    BY <1>1, <2>1 DEF Stage
  <2> QED
    BY <1>1, <2>1, <2>2 DEF Asked, Answer
<1>2. StagesOf(s)' = [StagesOf(s) EXCEPT ![c] = Stage(s, c)']
  BY <1>1 DEF StagesOf
<1>3. AskedOf(s)' = [AskedOf(s) EXCEPT ![c] = Asked(s, c)']
  BY <1>1 DEF AskedOf
<1>4. AnswersOf(s)' = [AnswersOf(s) EXCEPT ![c] = Answer(s, c)']
  BY <1>1 DEF AnswersOf
<1> QED
  BY <1>2, <1>3, <1>4

\* Nothing happens to the map and to the calls about it.
LEMMA NothingMoves ==
  ASSUME NEW s \in Services, UNCHANGED <<registry, epoch>>,
         UNCHANGED <<StagesOf(s), AskedOf(s), AnswersOf(s)>>
  PROVE  [Registry(s)!Next]_(Registry(s)!vars)
BY DEF Registry!vars, StagesOf, AskedOf, AnswersOf

\* A lookup's first look is a hit or a miss.
LEMMA LoadMaps ==
  ASSUME SamplerInv, SamplerInv', NEW c \in Consumers, Load(c), NEW s \in Services
  PROVE  [Registry(s)!Next]_(Registry(s)!vars)
<1> DEFINE r == Current(c).request
           found == registry[Current(c).service][r]
<1>0. /\ TypeOK /\ ConsumerInv /\ ConsumerTypes /\ StageAt(c)
      /\ (\A d \in Consumers : StageAt(d))'
  BY Stages, StagesNext, TypeParts DEF SamplerInv
<1>1. /\ pc[c] \in {"load", "loadAgain"} /\ UNCHANGED <<registry, epoch, traces, segment>>
      /\ requestState' = [requestState EXCEPT ![c] = found]
      /\ \A d \in Consumers \ {c} : UNCHANGED <<pc[d], requestState[d]>>
      /\ requestState'[c] = found
      /\ pc'[c] \in IF found # None THEN {"scan", "decide"} ELSE {"resolve", "resolveAgain"}
  BY <1>0 DEF Load, Goto, ConsumerTypes
<1>2. /\ Current(c)' = Current(c) /\ r \in Requests
      /\ Current(c).service \in Services
      /\ found \in Samplers \cup {None}
  <2>1. Current(c)' = Current(c)
    BY <1>1 DEF Current
  <2>2. Current(c).service \in Services /\ r \in Requests
    BY <1>0, <1>1, CurrentTypes
  <2>3. registry \in [Services -> [Requests -> Samplers \cup {None}]]
    BY <1>0 DEF TypeOK
  <2> QED
    BY <2>1, <2>2, <2>3
<1>3. /\ StagesOf(s)' = [StagesOf(s) EXCEPT ![c] = Stage(s, c)']
      /\ AskedOf(s)' = [AskedOf(s) EXCEPT ![c] = Asked(s, c)']
      /\ AnswersOf(s)' = [AnswersOf(s) EXCEPT ![c] = Answer(s, c)']
  BY <1>1, OneMoves
<1>4. Stage(s, c) = "idle"
  BY <1>0, <1>1 DEF StageAt
<1>5. CASE Current(c).service = s
  <2>1. Stage(s, c)' = IF found # None THEN "answered" ELSE "missed"
    BY <1>0, <1>1, <1>2, <1>5 DEF StageAt
  <2>2. Asked(s, c)' = r /\ Answer(s, c)' = Name(found)
    <3>1. CASE found # None
      BY <1>1, <1>2, <2>1, <3>1 DEF Asked, Answer
    <3>2. CASE found = None
      BY <1>1, <1>2, <2>1, <3>2 DEF Asked, Answer, Name
    <3> QED
      BY <3>1, <3>2
  <2>3. /\ StagesOf(s)[c] = "idle" /\ MapOf(s)' = MapOf(s)
        /\ MapOf(s)[r] = Name(found)
    BY <1>1, <1>2, <1>4, <1>5 DEF StagesOf, MapOf
  <2>4. CASE found # None
    <3>1. Name(found) # None
      BY <1>2, <2>4, NameOf
    <3>2. /\ StagesOf(s)[c] = "idle" /\ MapOf(s)[r] # None
          /\ StagesOf(s)' = [StagesOf(s) EXCEPT ![c] = "answered"]
          /\ AskedOf(s)' = [AskedOf(s) EXCEPT ![c] = r]
          /\ AnswersOf(s)' = [AnswersOf(s) EXCEPT ![c] = MapOf(s)[r]]
          /\ MapOf(s)' = MapOf(s) /\ epoch'[s] = epoch[s]
      BY <1>1, <1>3, <2>1, <2>2, <2>3, <2>4, <3>1
    <3>3. Registry(s)!Hit(c, r)
      BY <3>2 DEF Registry!Hit, StagesOf, AskedOf, AnswersOf, MapOf
    <3> QED
      BY <1>2, <3>3 DEF Registry!Next
  <2>5. CASE found = None
    <3>1. /\ StagesOf(s)[c] = "idle" /\ MapOf(s)[r] = None
          /\ StagesOf(s)' = [StagesOf(s) EXCEPT ![c] = "missed"]
          /\ AskedOf(s)' = [AskedOf(s) EXCEPT ![c] = r]
          /\ AnswersOf(s)' = [AnswersOf(s) EXCEPT ![c] = None]
          /\ MapOf(s)' = MapOf(s) /\ epoch'[s] = epoch[s]
      BY <1>1, <1>3, <2>1, <2>2, <2>3, <2>5 DEF Name
    <3>2. Registry(s)!Miss(c, r)
      BY <3>1 DEF Registry!Miss, StagesOf, AskedOf, AnswersOf, MapOf
    <3> QED
      BY <1>2, <3>2 DEF Registry!Next
  <2> QED
    BY <2>4, <2>5
<1>6. CASE Current(c).service # s
  <2>1. Stage(s, c)' = "idle"
    BY <1>0, <1>2, <1>6 DEF StageAt
  <2>2. UNCHANGED <<StagesOf(s), AskedOf(s), AnswersOf(s)>>
    BY <1>3, <1>4, <2>1 DEF StagesOf, AskedOf, AnswersOf, Asked, Answer
  <2> QED
    BY <1>1, <2>2, NothingMoves
<1> QED
  BY <1>5, <1>6

\* Going on, a consumer returns from the lookup.
LEMMA ReturnMaps ==
  ASSUME SamplerInv, SamplerInv', NEW c \in Consumers, NEW s \in Services,
         pc[c] \in {"refused", "scan", "decide"},
         pc'[c] \in {"idle", "load", "loadAgain", "count"},
         \A d \in Consumers \ {c} :
           UNCHANGED <<pc[d], requestState[d], traces[d], segment[d]>>,
         UNCHANGED <<registry, epoch>>
  PROVE  [Registry(s)!Next]_(Registry(s)!vars)
<1>0. StageAt(c) /\ (\A d \in Consumers : StageAt(d))'
  BY Stages, StagesNext
<1>1. Stage(s, c)' = "idle"
  BY <1>0 DEF StageAt
<1>2. Asked(s, c)' = None /\ Answer(s, c)' = None
  BY <1>1 DEF Asked, Answer
<1>3. /\ StagesOf(s)' = [StagesOf(s) EXCEPT ![c] = "idle"]
      /\ AskedOf(s)' = [AskedOf(s) EXCEPT ![c] = None]
      /\ AnswersOf(s)' = [AnswersOf(s) EXCEPT ![c] = None]
  BY <1>1, <1>2, OneMoves
<1>4. CASE Current(c).service = s
  <2>1. StagesOf(s)[c] = "answered"
    BY <1>0, <1>4 DEF StageAt, StagesOf
  <2>2. Registry(s)!Return(c)
    BY <1>3, <2>1 DEF Registry!Return, StagesOf, AskedOf, AnswersOf
  <2> QED
    BY <2>2 DEF Registry!Next
<1>5. CASE Current(c).service # s
  <2>1. Stage(s, c) = "idle"
    BY <1>0, <1>5 DEF StageAt
  <2>2. UNCHANGED <<StagesOf(s), AskedOf(s), AnswersOf(s)>>
    BY <1>3, <2>1 DEF StagesOf, AskedOf, AnswersOf, Asked, Answer
  <2> QED
    BY <2>2, NothingMoves
<1> QED
  BY <1>4, <1>5

\* Outside of a lookup a consumer moves without the maps.
LEMMA OutsideMaps ==
  ASSUME SamplerInv, SamplerInv', NEW c \in Consumers, NEW s \in Services,
         pc[c] \in {"idle", "load", "loadAgain", "count"},
         pc'[c] \in {"idle", "load", "loadAgain", "count"},
         \A d \in Consumers \ {c} :
           UNCHANGED <<pc[d], requestState[d], traces[d], segment[d]>>,
         UNCHANGED <<registry, epoch>>
  PROVE  [Registry(s)!Next]_(Registry(s)!vars)
<1>0. StageAt(c) /\ (\A d \in Consumers : StageAt(d))'
  BY Stages, StagesNext
<1>1. Stage(s, c)' = "idle" /\ Stage(s, c) = "idle"
  BY <1>0 DEF StageAt
<1>2. UNCHANGED <<StagesOf(s), AskedOf(s), AnswersOf(s)>>
  <2>1. /\ StagesOf(s)' = [StagesOf(s) EXCEPT ![c] = Stage(s, c)']
        /\ AskedOf(s)' = [AskedOf(s) EXCEPT ![c] = Asked(s, c)']
        /\ AnswersOf(s)' = [AnswersOf(s) EXCEPT ![c] = Answer(s, c)']
    BY OneMoves
  <2>2. /\ Asked(s, c) = None /\ Answer(s, c) = None
        /\ Asked(s, c)' = None /\ Answer(s, c)' = None
    BY <1>1 DEF Asked, Answer
  <2>3. UNCHANGED StagesOf(s)
    <3>1. StagesOf(s)' = [StagesOf(s) EXCEPT ![c] = StagesOf(s)[c]]
      BY <1>1, <2>1 DEF StagesOf
    <3>2. StagesOf(s) = [d \in Consumers |-> StagesOf(s)[d]]
      BY DEF StagesOf
    <3> QED
      BY <3>1, <3>2
  <2>4. UNCHANGED AskedOf(s)
    BY <2>1, <2>2 DEF AskedOf
  <2>5. UNCHANGED AnswersOf(s)
    BY <2>1, <2>2 DEF AnswersOf
  <2> QED
    BY <2>3, <2>4, <2>5
<1> QED
  BY <1>2, NothingMoves

\* The second look finds, creates or refuses.
LEMMA ResolveMaps ==
  ASSUME SamplerInv, SamplerInv', NEW c \in Consumers, NEW s \in Services,
         pc[c] \in {"resolve", "resolveAgain"},
         Find(c) \/ Create(c) \/ Refuse(c),
         pc' = [pc EXCEPT ![c] = pc'[c]],
         pc'[c] \in {"refused", "scan", "decide"},
         UNCHANGED <<epoch, traces, segment>>
  PROVE  [Registry(s)!Next]_(Registry(s)!vars)
<1> DEFINE own == Current(c).service
           r == Current(c).request
           new == <<own, r, epoch[own], c>>
<1>0. /\ TypeOK /\ ConsumerInv /\ RegistryInv /\ ConsumerTypes /\ StageAt(c)
      /\ AtWork(c) /\ (\A d \in Consumers : StageAt(d))'
  BY Stages, StagesNext, TypeParts DEF SamplerInv, ConsumerInv
<1>1. requestState[c] = None
  BY <1>0 DEF AtWork
<1>2. /\ requestState' = [requestState EXCEPT ![c] = requestState'[c]]
  BY <1>0, <1>1, Resolved
<1>3. \A d \in Consumers \ {c} :
        UNCHANGED <<pc[d], requestState[d], traces[d], segment[d]>>
  BY <1>0, <1>2 DEF ConsumerTypes
<1>4. /\ Current(c)' = Current(c) /\ own \in Services /\ r \in Requests
      /\ registry \in [Services -> [Requests -> Samplers \cup {None}]]
  <2>1. Current(c)' = Current(c)
    BY DEF Current
  <2>2. own \in Services /\ r \in Requests
    BY <1>0, CurrentTypes
  <2>3. registry \in [Services -> [Requests -> Samplers \cup {None}]]
    BY <1>0 DEF TypeOK
  <2> QED
    BY <2>1, <2>2, <2>3
<1>5. /\ StagesOf(s)' = [StagesOf(s) EXCEPT ![c] = Stage(s, c)']
      /\ AskedOf(s)' = [AskedOf(s) EXCEPT ![c] = Asked(s, c)']
      /\ AnswersOf(s)' = [AnswersOf(s) EXCEPT ![c] = Answer(s, c)']
  BY <1>3, OneMoves
<1>6. CASE own # s
  <2>1. Stage(s, c)' = "idle" /\ Stage(s, c) = "idle"
    BY <1>0, <1>4, <1>6 DEF StageAt
  <2>2. UNCHANGED <<StagesOf(s), AskedOf(s), AnswersOf(s)>>
    BY <1>5, <2>1 DEF StagesOf, AskedOf, AnswersOf, Asked, Answer
  <2>3. registry'[s] = registry[s]
    BY <1>4, <1>6 DEF Find, Create, Refuse
  <2> QED
    BY <2>2, <2>3 DEF Registry!vars, StagesOf, AskedOf, AnswersOf
<1>7. CASE own = s
  <2>1. Stage(s, c) = "missed" /\ Stage(s, c)' = "answered"
    BY <1>0, <1>4, <1>7 DEF StageAt
  <2>2. Asked(s, c) = r /\ Asked(s, c)' = r /\ Answer(s, c)' = Name(requestState'[c])
    BY <1>4, <2>1 DEF Asked, Answer
  <2>3. /\ StagesOf(s)[c] = "missed" /\ AskedOf(s)[c] = r
        /\ StagesOf(s)' = [StagesOf(s) EXCEPT ![c] = "answered"]
        /\ AskedOf(s)' = AskedOf(s)
        /\ AnswersOf(s)' = [AnswersOf(s) EXCEPT ![c] = Name(requestState'[c])]
        /\ AnswersOf(s)[c] = None
    <3>1. StagesOf(s)[c] = "missed" /\ AskedOf(s)[c] = r /\ AnswersOf(s)[c] = None
      BY <2>1, <2>2 DEF StagesOf, AskedOf, AnswersOf, Answer
    <3>2. AskedOf(s)' = AskedOf(s)
      BY <1>5, <2>2 DEF AskedOf
    <3> QED
      BY <1>5, <2>1, <2>2, <3>1, <3>2
  <2>4. MapOf(s)[r] = Name(registry[s][r]) /\ registry[s][r] \in Samplers \cup {None}
    BY <1>4 DEF MapOf
  <2>5. Registry(s)!Registered = Registered(s)
    <3>1. {q \in Requests : MapOf(s)[q] # None} = Registered(s)
      BY <1>4, NameOf DEF MapOf, Registered
    <3> QED
      BY <3>1 DEF Registry!Registered, MapOf
  <2>6. CASE Find(c)
    <3>1. /\ registry[s][r] # None /\ registry' = registry
          /\ requestState' = [requestState EXCEPT ![c] = registry[s][r]]
      BY <1>7, <2>6 DEF Find, Absent
    <3>2. requestState'[c] = registry[s][r]
      BY <1>0, <3>1 DEF ConsumerTypes
    <3>3. /\ MapOf(s)[AskedOf(s)[c]] # None
          /\ AnswersOf(s)' = [AnswersOf(s) EXCEPT ![c] = MapOf(s)[AskedOf(s)[c]]]
          /\ MapOf(s)' = MapOf(s)
      BY <2>3, <2>4, <3>1, <3>2, NameOf DEF MapOf
    <3>4. Registry(s)!Find(c)
      BY <3>3 DEF Registry!Find, StagesOf, AskedOf, AnswersOf, MapOf
    <3>5. Registry(s)!Resolve(c)
      BY <2>3, <3>4 DEF Registry!Resolve, StagesOf, AskedOf
    <3> QED
      BY <3>5 DEF Registry!Next
  <2>7. CASE Create(c)
    <3>1. /\ registry[s][r] = None /\ HasRoom(s)
          /\ registry' = [registry EXCEPT ![s][r] = new]
          /\ requestState' = [requestState EXCEPT ![c] = new]
      BY <1>7, <2>7 DEF Create, Absent
    <3>2. /\ requestState'[c] = new
          /\ Name(new) = <<r, epoch[s], c>>
      <4>1. requestState'[c] = new
        BY <1>0, <3>1 DEF ConsumerTypes
      <4>2. new \in Samplers
        BY <1>0, <1>4 DEF Samplers, TypeOK
      <4>3. new # None
        BY <4>2, SamplerConstants DEF Samplers
      <4> QED
        BY <1>7, <4>1, <4>3 DEF Name
    <3> HIDE DEF new
    <3>3. MapOf(s)' = [MapOf(s) EXCEPT ![r] = <<r, epoch[s], c>>]
      BY <1>4, <3>1, <3>2 DEF MapOf
    <3>4. /\ MapOf(s)[AskedOf(s)[c]] = None
          /\ MapOf(s)' = [MapOf(s) EXCEPT ![AskedOf(s)[c]] = <<AskedOf(s)[c], epoch[s], c>>]
          /\ MapOf(s)'[AskedOf(s)[c]] = <<r, epoch[s], c>>
          /\ AnswersOf(s)' = [AnswersOf(s) EXCEPT ![c] = MapOf(s)'[AskedOf(s)[c]]]
      <4>1. MapOf(s)[r] = None
        BY <2>4, <3>1 DEF Name
      <4>2. MapOf(s)'[r] = <<r, epoch[s], c>>
        BY <1>4, <3>3 DEF MapOf
      <4> QED
        BY <2>3, <3>2, <3>3, <4>1, <4>2
    <3>5. Registry(s)!HasRoom
      BY <2>5, <3>1, Zenon DEF Registry!HasRoom, HasRoom, Registry!Cardinality, Cardinality
    <3>6. Registry(s)!Create(c)
      BY <3>4, <3>5 DEF Registry!Create, StagesOf, AskedOf, AnswersOf, MapOf
    <3>7. Registry(s)!Resolve(c)
      BY <2>3, <3>6 DEF Registry!Resolve, StagesOf, AskedOf
    <3> QED
      BY <3>7 DEF Registry!Next
  <2>8. CASE Refuse(c)
    <3>1. /\ ~HasRoom(s) /\ registry' = registry /\ requestState' = requestState
      BY <1>7, <2>8 DEF Refuse
    <3>2. ~Registry(s)!HasRoom
      BY <2>5, <3>1, Zenon DEF Registry!HasRoom, HasRoom, Registry!Cardinality, Cardinality
    <3>3. AnswersOf(s)' = AnswersOf(s) /\ MapOf(s)' = MapOf(s)
      BY <1>1, <2>3, <3>1 DEF AnswersOf, MapOf, Name
    <3>4. Registry(s)!Refuse
      BY <3>2, <3>3 DEF Registry!Refuse, AnswersOf, MapOf
    <3>5. Registry(s)!Resolve(c)
      BY <2>3, <3>4 DEF Registry!Resolve, StagesOf, AskedOf
    <3> QED
      BY <3>5 DEF Registry!Next
  <2> QED
    BY <2>6, <2>7, <2>8
<1> QED
  BY <1>6, <1>7

\* The flusher takes what there is.
LEMMA ClearMaps ==
  ASSUME SamplerInv, NEW service \in Services, Clear(service), NEW s \in Services
  PROVE  [Registry(s)!Next]_(Registry(s)!vars)
<1>1. /\ registry \in [Services -> [Requests -> Samplers \cup {None}]]
      /\ epoch \in [Services -> Nat]
  BY DEF SamplerInv, TypeOK
<1>2. /\ registry' = [registry EXCEPT ![service] = [r \in Requests |-> None]]
      /\ epoch' = [epoch EXCEPT ![service] =
                     IF Registered(service) = {} THEN @ ELSE @ + 1]
      /\ UNCHANGED <<pc, requestState, traces, segment>>
  BY DEF Clear, consumers
<1>3. UNCHANGED <<StagesOf(s), AskedOf(s), AnswersOf(s)>>
  BY <1>2 DEF StagesOf, AskedOf, AnswersOf, Stage, Asked, Answer, Current
<1>4. CASE s # service
  <2>1. registry'[s] = registry[s] /\ epoch'[s] = epoch[s]
    BY <1>1, <1>2, <1>4
  <2> QED
    BY <1>3, <2>1 DEF Registry!vars, StagesOf, AskedOf, AnswersOf
<1>5. CASE s = service /\ Registered(service) = {}
  <2>1. epoch'[s] = epoch[s] /\ \A r \in Requests : registry'[s][r] = registry[s][r]
    BY <1>1, <1>2, <1>5 DEF Registered
  <2>2. MapOf(s)' = MapOf(s)
    BY <2>1 DEF MapOf
  <2> QED
    BY <1>3, <2>1, <2>2 DEF Registry!vars, StagesOf, AskedOf, AnswersOf, MapOf
<1>6. CASE s = service /\ Registered(service) # {}
  <2>1. epoch'[s] = epoch[s] + 1 /\ \A r \in Requests : registry'[s][r] = None
    BY <1>1, <1>2, <1>6
  <2>2. MapOf(s)' = [r \in Requests |-> None]
    BY <2>1 DEF MapOf, Name
  <2>3. {r \in Requests : MapOf(s)[r] # None} # {}
    BY <1>1, <1>6, NameOf DEF MapOf, Registered
  <2>4. Registry(s)!Registered # {}
    BY <2>3 DEF Registry!Registered, MapOf
  <2>5. Registry(s)!Clear
    BY <1>3, <2>1, <2>2, <2>4
    DEF Registry!Clear, StagesOf, AskedOf, AnswersOf, MapOf
  <2> QED
    BY <2>5 DEF Registry!Next
<1> QED
  BY <1>4, <1>5, <1>6

\* Every step is one of each map, or none.
LEMMA MapsStep ==
  ASSUME SamplerInv, SamplerInv', [Next]_vars, NEW s \in Services
  PROVE  [Registry(s)!Next]_(Registry(s)!vars)
<1> DEFINE P == [Registry(s)!Next]_(Registry(s)!vars)
           Still(c) == \A d \in Consumers \ {c} :
                         UNCHANGED <<pc[d], requestState[d], traces[d], segment[d]>>
<1>0. ConsumerTypes /\ ConsumerInv
  BY TypeParts DEF SamplerInv
<1>1. ASSUME UNCHANGED <<registry, epoch, pc, requestState, traces, segment>> PROVE P
  <2>1. UNCHANGED <<StagesOf(s), AskedOf(s), AnswersOf(s)>>
    BY <1>1 DEF StagesOf, AskedOf, AnswersOf, Stage, Asked, Answer, Current
  <2> QED
    BY <1>1, <2>1, NothingMoves
<1>2. ASSUME NEW c \in Consumers, NEW k \in Nat, NEW label, GotoSegment(c, k, label),
             UNCHANGED traces,
             \/ UNCHANGED requestState
             \/ requestState' = [requestState EXCEPT ![c] = None]
      PROVE  Still(c) /\ pc'[c] = IF k = 0 THEN "count" ELSE label
  BY <1>0, <1>2 DEF GotoSegment, Goto, ConsumerTypes
<1>3. ASSUME NEW c \in Consumers, NEW rest, GotoTrace(c, rest), UNCHANGED requestState
      PROVE  Still(c) /\ pc'[c] \in {"idle", "load", "count"}
  <2>1. CASE rest = <<>>
    BY <1>0, <1>3, <2>1 DEF GotoTrace, Goto, ConsumerTypes
  <2>2. CASE rest # <<>>
    BY <1>0, <1>3, <2>2 DEF GotoTrace, GotoSegment, Goto, ConsumerTypes
  <2> QED
    BY <2>1, <2>2
<1> HIDE DEF P
<1>4. ASSUME NEW c \in Consumers, Call(c) PROVE P
  <2>1. Still(c) /\ pc'[c] \in {"idle", "load", "count"}
    BY <1>3, <1>4 DEF Call
  <2> QED
    BY <1>4, <2>1, OutsideMaps DEF P, Call, shared
<1>5. ASSUME NEW c \in Consumers, Count(c) PROVE P
  <2>1. Still(c) /\ pc'[c] \in {"idle", "load", "count"}
    BY <1>3, <1>5 DEF Count
  <2> QED
    BY <1>5, <2>1, OutsideMaps DEF P, Count, shared
<1>6. ASSUME NEW c \in Consumers, GiveUp(c) PROVE P
  <2>1. Still(c) /\ pc'[c] \in {"idle", "load", "count"}
    BY <1>3, <1>6 DEF GiveUp
  <2> QED
    BY <1>6, <2>1, ReturnMaps DEF P, GiveUp, shared
<1>7. ASSUME NEW c \in Consumers, Resolve(c) PROVE P
  <2>1. /\ pc[c] = "resolve"
        /\ Find(c) \/ Create(c) \/ Refuse(c)
        /\ pc' = [pc EXCEPT ![c] = IF requestState'[c] = None THEN "refused" ELSE "scan"]
        /\ UNCHANGED <<epoch, traces, segment>>
    BY <1>7 DEF Resolve, Goto
  <2>2. pc' = [pc EXCEPT ![c] = pc'[c]] /\ pc'[c] \in {"refused", "scan", "decide"}
    BY <1>0, <2>1 DEF ConsumerTypes
  <2> QED
    BY <2>1, <2>2, ResolveMaps DEF P
<1>8. ASSUME NEW c \in Consumers, ResolveAgain(c) PROVE P
  <2>1. /\ pc[c] = "resolveAgain"
        /\ Find(c) \/ Create(c) \/ Refuse(c)
        /\ pc' = [pc EXCEPT ![c] = "decide"]
        /\ UNCHANGED <<epoch, traces, segment>>
    BY <1>8 DEF ResolveAgain, Goto
  <2>2. pc' = [pc EXCEPT ![c] = pc'[c]] /\ pc'[c] \in {"refused", "scan", "decide"}
    BY <1>0, <2>1 DEF ConsumerTypes
  <2> QED
    BY <2>1, <2>2, ResolveMaps DEF P
<1>9. ASSUME NEW c \in Consumers, Scan(c) PROVE P
  <2> DEFINE next == NextSegment(Head(traces[c]), segment[c])
             first == NextSegment(Head(traces[c]), 0)
  <2>1. pc[c] = "scan" /\ UNCHANGED <<registry, epoch, traces>>
    BY <1>9 DEF Scan
  <2>2. Head(traces[c]) \in Traces /\ segment[c] \in Nat
    BY <1>0, <2>1, CurrentTypes DEF SamplerInv, ConsumerTypes
  <2>3. next \in Nat /\ first \in Nat
    BY <2>2, NextSegmentOf, 0 \in Nat
  <2>4. CASE span[c] < Len(Current(c).spans)
    BY <1>1, <1>9, <2>1, <2>4 DEF Scan
  <2>5. CASE ~(span[c] < Len(Current(c).spans))
    <3>1. /\ requestState' = [requestState EXCEPT ![c] = None]
          /\ GotoSegment(c, first, "loadAgain") \/ GotoSegment(c, next, "load")
      BY <1>9, <2>5 DEF Scan
    <3> HIDE DEF next, first
    <3>2. Still(c) /\ pc'[c] \in {"load", "loadAgain", "count"}
      <4>1. CASE GotoSegment(c, first, "loadAgain")
        BY <1>2, <2>1, <2>3, <3>1, <4>1
      <4>2. CASE GotoSegment(c, next, "load")
        BY <1>2, <2>1, <2>3, <3>1, <4>2
      <4> QED
        BY <3>1, <4>1, <4>2
    <3> QED
      BY <2>1, <3>2, ReturnMaps DEF P
  <2> QED
    BY <2>4, <2>5
<1>10. ASSUME NEW c \in Consumers, NotDue(c) PROVE P
  <2> DEFINE next == NextSegment(Head(traces[c]), segment[c])
  <2>1. /\ pc[c] = "decide" /\ UNCHANGED <<registry, epoch, traces>>
        /\ requestState' = [requestState EXCEPT ![c] = None]
        /\ GotoSegment(c, next, "loadAgain")
    BY <1>10 DEF NotDue, shared
  <2>2. Head(traces[c]) \in Traces /\ segment[c] \in Nat
    BY <1>0, <2>1, CurrentTypes DEF SamplerInv, ConsumerTypes
  <2>3. next \in Nat
    BY <2>2, NextSegmentOf
  <2> HIDE DEF next
  <2>4. Still(c) /\ pc'[c] \in {"loadAgain", "count"}
    BY <1>2, <2>1, <2>3
  <2> QED
    BY <2>1, <2>4, ReturnMaps DEF P
<1>11. ASSUME NEW c \in Consumers, Due(c) PROVE P
  <2>1. /\ pc[c] = "decide" /\ UNCHANGED <<registry, epoch, traces>>
        /\ requestState' = [requestState EXCEPT ![c] = None]
        /\ GotoSegment(c, 0, "count")
    BY <1>11 DEF Due
  <2>2. Still(c) /\ pc'[c] = "count"
    BY <1>2, <2>1, 0 \in Nat
  <2> QED
    BY <2>1, <2>2, ReturnMaps DEF P
<1>12. \A c \in Consumers : Load(c) => P
  BY LoadMaps DEF P
<1>13. \A service \in Services : Clear(service) => P
  BY ClearMaps DEF P
<1>14. /\ \A c \in Consumers : DuePanics(c) => P
       /\ \A c \in Consumers : HeapPush(c) => P
       /\ \A c \in Consumers : Unlock(c) => P
       /\ Flush => P
       /\ \A sampler \in toFlush : OpenErrors(sampler) => P
       /\ Export => P
       /\ ExportPanics => P
       /\ EndFlush => P
       /\ Stop => P
       /\ Update => P
       /\ UNCHANGED vars => P
  BY <1>1 DEF DuePanics, HeapPush, Unlock, Flush, OpenErrors, Export, ExportPanics,
              EndFlush, Stop, Update, vars, shared, consumers
<1>15. P
  BY <1>4, <1>5, <1>6, <1>7, <1>8, <1>9, <1>10, <1>11, <1>12, <1>13, <1>14, Cases
<1> QED
  BY <1>15 DEF P

\* sampleTraces, captureNormalSample and the flusher use the map of each
\* service as RequestRegistry says, in no other way and in no other order.
THEOREM SamplerUsesRegistries == Spec => UsesRegistries
<1>1. Init => \A service \in Services : Registry(service)!Init
  BY DEF Init, Registry!Init, Name, Stage, Asked, Answer
<1>2. SamplerInv /\ SamplerInv' /\ [Next]_vars => [OnlyRegistrySteps]_vars
  BY MapsStep DEF OnlyRegistrySteps, UsesRegistry
<1> QED
  BY <1>1, <1>2, SamplerInvariant, PTL DEF Spec, UsesRegistries
=============================================================================
