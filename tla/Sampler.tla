------------------------------- MODULE Sampler -------------------------------
(***************************************************************************)
(* The tail sampler (sampler.go): goroutines in ConsumeTraces that push    *)
(* the traces they sample into the queues of a service and request, and    *)
(* the trace flusher that takes the queues away and exports them.          *)
(*                                                                         *)
(* It is put together from what other modules detail: a lookup is the one  *)
(* or two steps of RequestRegistry (RequestStates shows that the locks     *)
(* implement them), a push decides as the push of TraceQueue (which        *)
(* HeapQueue implements), and whether a normal trace is due is left open   *)
(* here (PeriodicSampler).                                                 *)
(*                                                                         *)
(* The flusher walks the slice of a queue it has taken without the queue's *)
(* mutex.  A goroutine that looked the queue up before it was taken may be *)
(* pushing into it: the slice may be without the item that heap.Pop took   *)
(* out, and what the slots hold that the flusher reads is left open while  *)
(* others swap them, the nil a heap.Pop leaves in one included.            *)
(*                                                                         *)
(* A panic is not recovered anywhere in this code and ends the collector.  *)
(***************************************************************************)
EXTENDS Integers, Sequences, FiniteSets, FiniteSetsExt, Functions

CONSTANTS
  Consumers,          \* goroutines in ConsumeTraces
  Services,           \* entity keys
  Requests,           \* request contexts
  Traces,             \* the *trace values convertToTraces makes
  Segments,           \* the segments of each trace: service, request and the
                      \* non-internal spans, each [error, latency]
  Batches,            \* the traces of each call each consumer makes
  LimitPerService,    \* config.LimitPerService
  LimitPerRequest,    \* config.LimitPerRequestPerService
  Thresholds,         \* latency thresholds the Asserts server may set
  MaxUpdates,         \* bound: updates of thresholds and configuration
  None

ASSUME SamplerConstants ==
  /\ LimitPerService \in Int
  /\ LimitPerRequest \in Int \ {0}
  /\ MaxUpdates \in Nat
  /\ \A trace \in Traces : Segments[trace] \in
       Seq([service : Services, request : Requests,
            spans : Seq([error : {"no", "client", "other"}, latency : Int])])
  /\ None \notin Services \X Requests \X Nat \X Consumers
  /\ None \notin Requests \X Nat \X Consumers
  /\ None \notin (Services \X Requests \X Nat \X Consumers)
                   \X {"error", "slow"}

\* convertToTraces makes every *trace anew, for one call.
ASSUME BatchesAssumption ==
  /\ Batches \in [Consumers -> Seq(Seq(Traces))]
  /\ \A c \in Consumers : \A n \in DOMAIN Batches[c] : IsInjective(Batches[c][n])
  /\ \A c, d \in Consumers : \A n \in DOMAIN Batches[c], m \in DOMAIN Batches[d] :
       <<c, n>> # <<d, m>> => Range(Batches[c][n]) \cap Range(Batches[d][m]) = {}

VARIABLES
  \* shared by the consumers and the flusher
  known,       \* the keys of topTracesByService
  registry,    \* requestStates of each service: the sampler of each request
  epoch,       \* clears of each service so far, to name samplers
  kept,        \* the items of each queue ever made, once pushes are done
  pushing,     \* of each consumer: the queue it is pushing into, and the item
               \* it has yet to append
  panicked,
  \* set by the server's updates
  threshold, ignoreClientErrors, updates,
  \* the locals of a consumer's call
  pc, calls, traces, segment, span, requestState, sampled,
  \* the locals of the flusher
  flusherPc,   \* "wait", "range" or "stopped"
  toVisit,     \* services of this Range not yet visited
  toFlush,     \* samplers of the map taken from the service, not yet visited
  open,        \* the queue whose slice is being walked
  reads,       \* the length of that slice
  visible,     \* the items its slots hold or have held during the walk
  raced,       \* what pushes do to its slots: "no", "swapped", "popped"
  \* history
  pushed,      \* the items pushed into each queue
  pushes,      \* the number of times each trace was pushed
  late,        \* queues of which a push was not done when they were taken
  closed,      \* queues the flusher is done with
  exported,    \* items handed to the next consumer
  exports,     \* the number of times each trace was
  counted      \* traces in the total count

queues == <<kept, pushing>>
shared == <<known, registry, epoch, queues, panicked>>
settings == <<threshold, ignoreClientErrors, updates>>
consumers == <<pc, calls, traces, segment, span, requestState, sampled>>
walk == <<open, reads, visible, raced>>
flusher == <<flusherPc, toVisit, toFlush, walk>>
delivery == <<closed, exported, exports>>
history == <<pushed, pushes, late, delivery, counted>>
vars == <<shared, settings, consumers, flusher, history>>

-----------------------------------------------------------------------------
\* Items and queues

\* The maxSize getRequestState gives NewTraceQueue.
PerRequestLimit == IF LimitPerRequest < 5 THEN LimitPerRequest ELSE 5

\* ts.latency is the latency of the main span, the first non-internal one.
Latency(item) == Segments[item.trace][item.segment].spans[1].latency

Least(heap) == {p \in heap : \A other \in heap : Latency(p) <= Latency(other)}

\* Mutant: the limit is noticed one item late.
AtLimitLate(heap) == Cardinality(heap) > PerRequestLimit

AtLimit(heap) == Cardinality(heap) = PerRequestLimit

\* Mutant: the comparison is the wrong way round.
AfterPushFastest(heap, item) ==
  IF AtLimit(heap)
    THEN {IF Latency(p) < Latency(item)
            THEN heap ELSE (heap \ {p}) \cup {item} : p \in Least(heap)}
    ELSE {heap \cup {item}}

\* The heaps a push may leave.
AfterPush(heap, item) ==
  IF AtLimit(heap)
    THEN {IF Latency(p) > Latency(item)
            THEN heap ELSE (heap \ {p}) \cup {item} : p \in Least(heap)}
    ELSE {heap \cup {item}}

Queue(sampler, kind) == <<sampler, kind>>

\* A sampler is <<service, request, epoch, maker>>.
Live(sampler) == registry[sampler[1]][sampler[2]] = sampler

QueuesOf(sampler) == {Queue(sampler, "error"), Queue(sampler, "slow")}

\* Who has the queue's mutex.
Pushers(queue) == {c \in Consumers : pushing[c] # None /\ pushing[c].queue = queue}

\* The items in the slice: while one is in the hands of a push, the others.
Slice(queue) == kept[queue] \ {pushing[c].item : c \in Pushers(queue)}

\* heap.Pop leaves nil in the last slot, which the walk may have yet to read.
NilLeft(queue) == AtLimit(kept[queue]) /\ Cardinality(kept[queue]) <= reads

\* The first step of a push, into a queue whoever may have taken it meanwhile.
\* With room the item is appended; at the limit heap.Pop takes an item out,
\* and either that one or the new one is to be appended.
Push(c, queue, item) ==
  /\ Pushers(queue) = {}
  /\ \E heap \in AfterPush(kept[queue], item) :
       /\ kept' = [kept EXCEPT ![queue] = heap]
       /\ \E winner \in IF item \in heap THEN {item} ELSE Least(heap) :
            pushing' = [pushing EXCEPT
              ![c] = [queue |-> queue,
                      item  |-> IF AtLimit(kept[queue]) THEN winner ELSE None]]
  /\ pushed' = [pushed EXCEPT ![queue] = @ \cup {item}]
  /\ pushes' = [pushes EXCEPT ![item.trace] = @ + 1]
  /\ late' = IF Live(queue[1]) THEN late ELSE late \cup {queue}
  /\ IF open = queue
       THEN /\ visible' = IF AtLimit(kept[queue]) THEN visible ELSE visible \cup {item}
            /\ raced' = IF NilLeft(queue) \/ raced = "popped" THEN "popped" ELSE "swapped"
       ELSE UNCHANGED <<visible, raced>>

NoPush == UNCHANGED <<queues, pushed, pushes, late, visible, raced>>

-----------------------------------------------------------------------------
\* Where a consumer's loops stand

Current(c) == Segments[Head(traces[c])][segment[c]]

\* The next segment with a main span, 0 if there is none.
NextSegment(trace, k) ==
  LET later == {i \in (k + 1)..Len(Segments[trace]) :
                  Segments[trace][i].spans # <<>>}
  IN IF later = {} THEN 0 ELSE Min(later)

Goto(c, label) == pc' = [pc EXCEPT ![c] = label]

\* Go to segment k at label, or on to the count if there is none.
GotoSegment(c, k, label) ==
  /\ segment' = [segment EXCEPT ![c] = k]
  /\ Goto(c, IF k = 0 THEN "count" ELSE label)

\* The outer loop of sampleTraces: the first trace of rest is next.
GotoTrace(c, rest) ==
  /\ traces' = [traces EXCEPT ![c] = rest]
  /\ sampled' = [sampled EXCEPT ![c] = FALSE]
  /\ IF rest = <<>>
       THEN segment' = [segment EXCEPT ![c] = 0] /\ Goto(c, "idle")
       ELSE GotoSegment(c, NextSegment(Head(rest), 0), "load")

-----------------------------------------------------------------------------

Init ==
  /\ known = {}
  /\ registry = [s \in Services |-> [r \in Requests |-> None]]
  /\ epoch = [s \in Services |-> 0]
  /\ kept = <<>>
  /\ pushing = [c \in Consumers |-> None]
  /\ panicked = FALSE
  /\ threshold \in Thresholds
  /\ ignoreClientErrors = FALSE
  /\ updates = 0
  /\ pc = [c \in Consumers |-> "idle"]
  /\ calls = [c \in Consumers |-> 0]
  /\ traces = [c \in Consumers |-> <<>>]
  /\ segment = [c \in Consumers |-> 0]
  /\ span = [c \in Consumers |-> 0]
  /\ requestState = [c \in Consumers |-> None]
  /\ sampled = [c \in Consumers |-> FALSE]
  /\ flusherPc = "wait"
  /\ toVisit = {}
  /\ toFlush = {}
  /\ open = None
  /\ reads = 0
  /\ visible = {}
  /\ raced = "no"
  /\ pushed = <<>>
  /\ pushes = [trace \in Traces |-> 0]
  /\ late = {}
  /\ closed = {}
  /\ exported = {}
  /\ exports = [trace \in Traces |-> 0]
  /\ counted = {}

-----------------------------------------------------------------------------
\* sampleTraces, called by c

Call(c) ==
  /\ pc[c] = "idle"
  /\ calls[c] < Len(Batches[c])
  /\ calls' = [calls EXCEPT ![c] = @ + 1]
  /\ GotoTrace(c, Batches[c][calls[c] + 1])
  /\ UNCHANGED <<shared, settings, span, requestState, flusher, history>>

\* Mutant: the service is looked up and not stored.
NotStored(c) == known

Stored(c) == known \cup {Current(c).service}

\* LoadOrStore the service and Load the request: a hit goes straight on.
\* Both sampleTraces and captureNormalSample look the request up.
Load(c) ==
  LET found == registry[Current(c).service][Current(c).request]
  IN /\ pc[c] \in {"load", "loadAgain"}
     /\ known' = Stored(c)
     /\ requestState' = [requestState EXCEPT ![c] = found]
     /\ span' = [span EXCEPT ![c] = IF pc[c] = "load" THEN 1 ELSE 0]
     /\ Goto(c, CASE pc[c] = "load" /\ found # None -> "scan"
                  [] pc[c] = "load" /\ found = None -> "resolve"
                  [] pc[c] = "loadAgain" /\ found # None -> "decide"
                  [] pc[c] = "loadAgain" /\ found = None -> "resolveAgain")
     /\ UNCHANGED <<registry, epoch, queues, panicked, settings, calls, traces,
                    segment, sampled, flusher, history>>

Registered(service) ==
  {r \in Requests : registry[service][r] # None}

\* Mutant: off by one.
HasRoomForOneMore(service) ==
  Cardinality(Registered(service)) <= LimitPerService

HasRoom(service) == Cardinality(Registered(service)) < LimitPerService

Absent(c) == registry[Current(c).service][Current(c).request] = None

\* The rest of getRequestState finds the request stored by another call ...
Find(c) ==
  /\ ~Absent(c)
  /\ requestState' =
       [requestState EXCEPT ![c] = registry[Current(c).service][Current(c).request]]
  /\ UNCHANGED <<registry, kept, pushed>>

\* ... or stores a new sampler with two empty queues ...
Create(c) ==
  LET service == Current(c).service
      request == Current(c).request
      new     == <<service, request, epoch[service], c>>
      empty   == [queue \in QueuesOf(new) |-> {}]
  IN /\ Absent(c)
     /\ HasRoom(service)
     /\ registry' = [registry EXCEPT ![service][request] = new]
     /\ requestState' = [requestState EXCEPT ![c] = new]
     /\ kept' = [q \in DOMAIN kept \cup DOMAIN empty |->
                   IF q \in DOMAIN empty THEN {} ELSE kept[q]]
     /\ pushed' = [q \in DOMAIN kept' |->
                     IF q \in DOMAIN empty THEN {} ELSE pushed[q]]

\* ... or returns nil for want of room.
Refuse(c) ==
  /\ ~HasRoom(Current(c).service)
  /\ UNCHANGED <<registry, requestState, kept, pushed>>

\* sampleTraces looks at what getRequestState returns ...
Resolve(c) ==
  /\ pc[c] = "resolve"
  /\ Find(c) \/ Create(c) \/ Refuse(c)
  /\ Goto(c, IF requestState'[c] = None THEN "refused" ELSE "scan")
  /\ UNCHANGED <<known, epoch, pushing, panicked, settings, calls, traces, segment,
                 span, sampled, flusher, pushes, late, delivery, counted>>

\* Mutant: the call goes on with the next trace.
NextTraces(c) == Tail(traces[c])

\* What is left of the batch for a call that was refused: it returns.
AfterRefusal(c) == <<>>

\* ... and gives up when it is nil.
GiveUp(c) ==
  /\ pc[c] = "refused"
  /\ span' = [span EXCEPT ![c] = 0]
  /\ GotoTrace(c, AfterRefusal(c))
  /\ UNCHANGED <<shared, settings, calls, requestState, flusher, history>>

\* captureNormalSample does not look at what it gets.
ResolveAgain(c) ==
  /\ pc[c] = "resolveAgain"
  /\ Find(c) \/ Create(c) \/ Refuse(c)
  /\ Goto(c, "decide")
  /\ UNCHANGED <<known, epoch, pushing, panicked, settings, calls, traces, segment,
                 span, sampled, flusher, pushes, late, delivery, counted>>

IsError(s) == s.error = "other" \/ (s.error = "client" /\ ~ignoreClientErrors)

IsSlow(s) == s.latency > threshold

\* Mutant: sampled is not looked at.
TakesAgain(c, s) == IsError(s) \/ IsSlow(s)

Takes(c, s) == ~sampled[c] /\ (IsError(s) \/ IsSlow(s))

\* One span of the segment: the first error or slow span of the whole trace
\* has the trace pushed, and decides into which queue.  After the last span
\* of the last segment a trace not sampled may be taken as a normal one.
Scan(c) ==
  LET tr    == Head(traces[c])
      s     == Current(c).spans[span[c]]
      Take(kind) ==
        /\ Push(c, Queue(requestState[c], kind),
                [trace |-> tr, segment |-> segment[c], type |-> kind])
        /\ sampled' = [sampled EXCEPT ![c] = TRUE]
      next  == NextSegment(tr, segment[c])
  IN /\ pc[c] = "scan"
     /\ IF Takes(c, s)
          THEN IF IsError(s) THEN Take("error") ELSE Take("slow")
          ELSE NoPush /\ UNCHANGED sampled
     /\ IF span[c] < Len(Current(c).spans)
          THEN /\ span' = [span EXCEPT ![c] = @ + 1]
               /\ UNCHANGED <<pc, segment, requestState>>
          ELSE /\ span' = [span EXCEPT ![c] = 0]
               /\ requestState' = [requestState EXCEPT ![c] = None]
               /\ IF next = 0 /\ ~sampled'[c]
                    THEN GotoSegment(c, NextSegment(tr, 0), "loadAgain")
                    ELSE GotoSegment(c, next, "load")
     /\ UNCHANGED <<known, registry, epoch, panicked, settings, calls, traces,
                    flusherPc, toVisit, toFlush, open, reads, delivery,
                    counted>>

\* captureNormalSample is told that no normal trace is due, or the service
\* has too many sampling states: try the next segment.
NotDue(c) ==
  /\ pc[c] = "decide"
  /\ requestState' = [requestState EXCEPT ![c] = None]
  /\ GotoSegment(c, NextSegment(Head(traces[c]), segment[c]), "loadAgain")
  /\ UNCHANGED <<shared, settings, calls, traces, span, sampled, flusher,
                 history>>

\* A normal trace is due: it goes into the slow queue.
Due(c) ==
  /\ pc[c] = "decide"
  /\ requestState[c] # None
  /\ Push(c, Queue(requestState[c], "slow"),
          [trace |-> Head(traces[c]), segment |-> segment[c], type |-> "normal"])
  /\ sampled' = [sampled EXCEPT ![c] = TRUE]
  /\ requestState' = [requestState EXCEPT ![c] = None]
  /\ GotoSegment(c, 0, "count")
  /\ UNCHANGED <<known, registry, epoch, panicked, settings, calls, traces,
                 span, flusherPc, toVisit, toFlush, open, reads, delivery,
                    counted>>

\* heap.Push of the item in hand.
HeapPush(c) ==
  /\ pushing[c] # None /\ pushing[c].item # None
  /\ pushing' = [pushing EXCEPT ![c].item = None]
  /\ IF open = pushing[c].queue
       THEN /\ visible' = visible \cup {pushing[c].item}
            /\ raced' = IF raced = "no" THEN "swapped" ELSE raced
       ELSE UNCHANGED <<visible, raced>>
  /\ UNCHANGED <<known, registry, epoch, kept, panicked, settings, consumers,
                 flusherPc, toVisit, toFlush, open, reads, history>>

\* The item appended has risen to its slot, and push returns.
Unlock(c) ==
  /\ pushing[c] # None /\ pushing[c].item = None
  /\ pushing' = [pushing EXCEPT ![c] = None]
  /\ UNCHANGED <<known, registry, epoch, kept, panicked, settings, consumers,
                 flusher, history>>

\* A normal trace is due, and the nil requestState is dereferenced.
DuePanics(c) ==
  /\ pc[c] = "decide"
  /\ requestState[c] = None
  /\ panicked' = TRUE
  /\ UNCHANGED <<known, registry, epoch, queues, settings, consumers, flusher,
                 history>>

\* incrTotalCounts, and on to the next trace.
Count(c) ==
  /\ pc[c] = "count"
  /\ counted' = counted \cup {Head(traces[c])}
  /\ GotoTrace(c, Tail(traces[c]))
  /\ UNCHANGED <<shared, settings, calls, span, requestState, flusher, pushed,
                 pushes, late, delivery>>

-----------------------------------------------------------------------------
\* The goroutine of startTraceFlusher

\* The ticker fires: range over the services there are.
Flush ==
  /\ flusherPc = "wait"
  /\ flusherPc' = "range"
  /\ toVisit' = known
  /\ UNCHANGED <<shared, settings, consumers, toFlush, walk, history>>

\* clearRequestStates of the next service, in the map's order, which may be
\* any.  An empty map in place of an empty map is no change.
Clear(service) ==
  /\ flusherPc = "range"
  /\ service \in toVisit
  /\ toFlush = {} /\ open = None
  /\ toVisit' = toVisit \ {service}
  /\ toFlush' = {registry[service][r] : r \in Registered(service)}
  /\ registry' = [registry EXCEPT ![service] = [r \in Requests |-> None]]
  /\ epoch' = [epoch EXCEPT
                 ![service] = IF Registered(service) = {} THEN @ ELSE @ + 1]
  /\ late' = late \cup {queue \in DOMAIN kept :
                         queue[1] \in toFlush' /\ Pushers(queue) # {}}
  /\ UNCHANGED <<known, queues, panicked, settings, consumers, flusherPc, walk,
                 pushed, pushes, delivery, counted>>

\* Begin to walk the slice of a queue as it is now, the last item appended
\* perhaps still rising.
Open(queue) ==
  /\ open' = queue
  /\ reads' = Cardinality(Slice(queue))
  /\ visible' = Slice(queue)
  /\ raced' = IF \E c \in Pushers(queue) : pushing[c].item = None
                THEN "swapped" ELSE "no"

\* The error queue of a sampler comes first.
OpenErrors(sampler) ==
  /\ sampler \in toFlush
  /\ open = None
  /\ toFlush' = toFlush \ {sampler}
  /\ Open(Queue(sampler, "error"))
  /\ UNCHANGED <<shared, settings, consumers, flusherPc, toVisit, history>>

\* What the walk may have read: each item there, or, if others swapped them,
\* in each slot one that was there, be it in another slot as well.
Readings ==
  IF raced = "no" THEN Bijection(1..reads, visible) ELSE [1..reads -> visible]

\* All slots are read and exported; the slow queue comes next.
Export ==
  /\ open # None
  /\ \E slots \in Readings :
       /\ exported' = exported \cup Range(slots)
       /\ exports' = [trace \in Traces |-> exports[trace]
                        + Cardinality({i \in 1..reads : slots[i].trace = trace})]
  /\ closed' = closed \cup {open}
  /\ IF open[2] = "error"
       THEN Open(Queue(open[1], "slow"))
       ELSE open' = None /\ reads' = 0 /\ visible' = {} /\ raced' = "no"
  /\ UNCHANGED <<shared, settings, consumers, flusherPc, toVisit, toFlush,
                 pushed, pushes, late, counted>>

\* A slot is read between heap.Pop's nil and heap.Push's item.
ExportPanics ==
  /\ open # None
  /\ raced = "popped"
  /\ panicked' = TRUE
  /\ UNCHANGED <<known, registry, epoch, queues, settings, consumers, flusher,
                 history>>

\* The Range is over: back to the select.
EndFlush ==
  /\ flusherPc = "range"
  /\ toVisit = {} /\ toFlush = {} /\ open = None
  /\ flusherPc' = "wait"
  /\ UNCHANGED <<shared, settings, consumers, toVisit, toFlush, walk, history>>

\* Shutdown: the flusher receives from stop and returns, without a flush.
Stop ==
  /\ flusherPc = "wait"
  /\ flusherPc' = "stopped"
  /\ UNCHANGED <<shared, settings, consumers, toVisit, toFlush, walk, history>>

-----------------------------------------------------------------------------

\* thresholdHelper stores a threshold, or onUpdate a new configuration.
Update ==
  /\ updates < MaxUpdates
  /\ updates' = updates + 1
  /\ threshold' \in Thresholds
  /\ ignoreClientErrors' \in BOOLEAN
  /\ <<threshold', ignoreClientErrors'>> # <<threshold, ignoreClientErrors>>
  /\ UNCHANGED <<shared, consumers, flusher, history>>

Work(c) ==
  \/ Load(c)
  \/ Resolve(c)
  \/ GiveUp(c)
  \/ Scan(c)
  \/ ResolveAgain(c)
  \/ NotDue(c)
  \/ Due(c)
  \/ DuePanics(c)
  \/ Count(c)

\* A push ends before the call goes on.
Proceed(c) ==
  \/ HeapPush(c)
  \/ Unlock(c)
  \/ pushing[c] = None /\ Work(c)

FlusherStep ==
  \/ Flush
  \/ \E service \in Services : Clear(service)
  \/ \E sampler \in toFlush : OpenErrors(sampler)
  \/ Export
  \/ ExportPanics
  \/ EndFlush

Next ==
  /\ ~panicked
  /\ \/ \E c \in Consumers : (pushing[c] = None /\ Call(c)) \/ Proceed(c)
     \/ FlusherStep
     \/ Stop
     \/ Update

Spec == Init /\ [][Next]_vars

\* A goroutine that can run does run, and the ticker keeps firing; nobody
\* has to call, to stop or to update anything.
Fairness ==
  /\ \A c \in Consumers : WF_vars(~panicked /\ Proceed(c))
  /\ WF_vars(~panicked /\ FlusherStep)

FairSpec == Spec /\ Fairness

-----------------------------------------------------------------------------

Samplers == Services \X Requests \X Nat \X Consumers

Items == [trace : Traces, segment : Nat, type : {"error", "slow", "normal"}]

IsQueue(queue) == queue \in Samplers \X {"error", "slow"}

TypeOK ==
  /\ known \subseteq Services
  /\ registry \in [Services -> [Requests -> Samplers \cup {None}]]
  /\ epoch \in [Services -> Nat]
  /\ \A queue \in DOMAIN kept :
       /\ IsQueue(queue)
       /\ kept[queue] \subseteq pushed[queue]
       /\ LimitPerRequest > 0 => Cardinality(kept[queue]) <= PerRequestLimit
       /\ pushed[queue] \subseteq Items
  /\ DOMAIN pushed = DOMAIN kept
  /\ pushing \in [Consumers -> [queue : DOMAIN kept, item : Items \cup {None}]
                                \cup {None}]
  /\ panicked \in BOOLEAN
  /\ threshold \in Thresholds /\ ignoreClientErrors \in BOOLEAN
  /\ updates \in 0..MaxUpdates
  /\ pc \in [Consumers -> {"idle", "load", "resolve", "refused", "scan",
                           "loadAgain", "resolveAgain", "decide", "count"}]
  /\ calls \in [Consumers -> Nat]
  /\ \A c \in Consumers : calls[c] <= Len(Batches[c])
  /\ traces \in [Consumers -> Seq(Traces)]
  /\ segment \in [Consumers -> Nat] /\ span \in [Consumers -> Nat]
  /\ requestState \in [Consumers -> Samplers \cup {None}]
  /\ sampled \in [Consumers -> BOOLEAN]
  /\ flusherPc \in {"wait", "range", "stopped"}
  /\ toVisit \subseteq known
  /\ toFlush \subseteq Samplers
  /\ open \in DOMAIN kept \cup {None}
  /\ reads \in Nat /\ visible \subseteq Items
  /\ raced \in {"no", "swapped", "popped"}
  /\ pushes \in [Traces -> Nat]
  /\ late \subseteq DOMAIN kept /\ closed \subseteq DOMAIN kept
  /\ exported \subseteq Items
  /\ exports \in [Traces -> Nat]
  /\ counted \subseteq Traces

\* However many of its segments and spans are slow or failed, and however
\* often it is offered as a normal trace, a trace is queued at most once; and
\* the next consumer gets it at most once, unless another push into its queue
\* was not done when the flusher took the queue (the walk without the mutex).
SampledOnce ==
  \A trace \in Traces :
    /\ pushes[trace] <= 1
    /\ exports[trace] > 1 =>
         \E queue \in late : \E item \in pushed[queue] : item.trace = trace

\* A queue nobody pushed into once it was taken is flushed in full: what it
\* does not export it had dropped for as many slower traces as it may hold.
FlushedInFull ==
  \A queue \in closed \ late :
    LET out == pushed[queue] \cap exported
    IN \A dropped \in pushed[queue] \ exported :
         /\ Cardinality(out) = PerRequestLimit
         /\ \A item \in out : Latency(dropped) <= Latency(item)

\* The requests of a service that got queues in one of its epochs.
Made(service, n) ==
  {r \in Requests : \E c \in Consumers :
                      Queue(<<service, r, n, c>>, "error") \in DOMAIN kept}

\* In some period between two flushes the service had as many requests as it
\* may have.
WasFull(service) ==
  \E n \in 0..epoch[service] : ~(Cardinality(Made(service, n)) < LimitPerService)

\* The first k traces of a batch are counted, and no other; of the others only
\* the first may be sampled.
CountedTo(b, k) ==
  \A i \in DOMAIN b :
    /\ b[i] \in counted <=> i <= k
    /\ i > k + 1 => pushes[b[i]] = 0

\* The calls are cut short by full services only.
Settled(c, n) ==
  LET b == Batches[c][n] IN
  \E k \in 0..Len(b) :
    /\ CountedTo(b, k)
    /\ k < Len(b) => \E i \in DOMAIN Segments[b[k + 1]] :
                       WasFull(Segments[b[k + 1]][i].service)

\* A call that is over has counted the traces of its batch up to one that met
\* a full service, and has sampled none behind that one; without a full
\* service it has counted them all (the return for a full service, which
\* leaves both loops of sampleTraces).
TracesSettled ==
  \A c \in Consumers : pc[c] = "idle" => \A n \in 1..calls[c] : Settled(c, n)

\* The strengthening the proofs need.  Where a consumer is in its trace, and
\* which sampler it holds there.
AtWork(c) ==
  /\ pc[c] = "idle" <=> traces[c] = <<>>
  /\ pc[c] \notin {"idle", "count"} =>
       segment[c] \in DOMAIN Segments[Head(traces[c])] /\ Current(c).spans # <<>>
  /\ pc[c] \in {"resolve", "scan"} => span[c] \in DOMAIN Current(c).spans
  /\ pc[c] = "scan" => requestState[c] # None
  /\ pc[c] \in {"loadAgain", "resolveAgain", "decide"} => ~sampled[c]
  /\ requestState[c] # None =>
       /\ pc[c] \in {"scan", "decide"}
       /\ QueuesOf(requestState[c]) \subseteq DOMAIN kept
       /\ requestState[c][1] = Current(c).service
       /\ requestState[c][2] = Current(c).request

ConsumerInv == \A c \in Consumers : AtWork(c)

\* A queue has the epoch of its service only while it is in its map.
RegistryInv ==
  /\ \A s \in Services, r \in Requests : registry[s][r] # None =>
       /\ \E c \in Consumers : registry[s][r] = <<s, r, epoch[s], c>>
       /\ QueuesOf(registry[s][r]) \subseteq DOMAIN kept
  /\ \A queue \in DOMAIN kept :
       /\ queue[1][3] <= epoch[queue[1][1]]
       /\ queue[1][3] = epoch[queue[1][1]] => Live(queue[1])

Taken(sampler) == sampler[3] < epoch[sampler[1]]

\* What the flusher walks and is to walk was taken and not walked before.
FlusherInv ==
  /\ \A sampler \in toFlush :
       Taken(sampler) /\ QueuesOf(sampler) \subseteq DOMAIN kept \ (closed \cup {open})
  /\ open # None =>
       /\ open \notin closed /\ Taken(open[1])
       /\ open[2] = "error" => Queue(open[1], "slow") \in DOMAIN kept \ closed
       /\ visible \subseteq pushed[open]
       /\ open \notin late => raced = "no" /\ visible = kept[open]
  /\ \A queue \in closed \cup late : Taken(queue[1])

\* A queue has one pusher, and none that is not late once it was taken.
PushInv ==
  \A c \in Consumers : pushing[c] # None =>
    /\ \A d \in Consumers \ {c} :
         pushing[d] # None => pushing[d].queue # pushing[c].queue
    /\ pushing[c].item \in kept[pushing[c].queue] \cup {None}
    /\ Taken(pushing[c].queue[1]) => pushing[c].queue \in late

\* A queue keeps the slowest of its items; no two items are of one trace.
QueueInv ==
  /\ \A queue \in DOMAIN kept :
       /\ IsFiniteSet(kept[queue])
       /\ \A item \in pushed[queue] :
            /\ item.segment \in DOMAIN Segments[item.trace]
            /\ Segments[item.trace][item.segment].spans # <<>>
            /\ pushes[item.trace] > 0
            /\ \A other \in DOMAIN kept : \A same \in pushed[other] :
                 same.trace = item.trace => same = item /\ other = queue
       /\ \A dropped \in pushed[queue] \ kept[queue] :
            /\ Cardinality(kept[queue]) = PerRequestLimit
            /\ \A item \in kept[queue] : Latency(dropped) <= Latency(item)
       /\ queue \in closed \ late => pushed[queue] \cap exported = kept[queue]
  /\ \A item \in exported : \E queue \in closed : item \in pushed[queue]

\* What was exported of a trace was in a queue that was walked, and once unless
\* a push came late.
ExportInv ==
  \A trace \in Traces : exports[trace] > 0 =>
    \E queue \in closed : \E item \in pushed[queue] :
      item.trace = trace /\ (exports[trace] > 1 => queue \in late)

\* A call has counted the traces behind it and sampled none ahead, but for the
\* one it is at.
TracesOf(c) ==
  /\ \A n \in DOMAIN Batches[c] :
       /\ n < calls[c] \/ (n = calls[c] /\ traces[c] = <<>>) => Settled(c, n)
       /\ n > calls[c] => \A i \in DOMAIN Batches[c][n] :
            Batches[c][n][i] \notin counted /\ pushes[Batches[c][n][i]] = 0
  /\ traces[c] # <<>> =>
       /\ calls[c] \in DOMAIN Batches[c]
       /\ LET b == Batches[c][calls[c]] IN
          \E k \in 0..(Len(b) - 1) :
            /\ traces[c] = SubSeq(b, k + 1, Len(b))
            /\ CountedTo(b, k)
       /\ pushes[Head(traces[c])] > 0 => sampled[c]
  /\ pc[c] = "refused" => WasFull(Current(c).service)

TraceInv == \A c \in Consumers : TracesOf(c)

SamplerInv ==
  /\ TypeOK
  /\ ConsumerInv /\ RegistryInv /\ FlusherInv /\ PushInv /\ QueueInv /\ ExportInv
  /\ TraceInv
  /\ SampledOnce

\* A trace in a queue leaves it: it is displaced by a slower one, or the
\* flusher gets to the queue, unless the collector stops first.  There are
\* finitely many calls, so that in the end the queues are empty.
Queued(trace) ==
  \E queue \in DOMAIN kept \ closed :
    \E item \in kept[queue] : item.trace = trace

QueuedTraceLeaves ==
  <>[](panicked \/ flusherPc = "stopped" \/ \A trace \in Traces : ~Queued(trace))

\* The comment in startTraceFlusher: "Flush all the errors".  A consumer
\* that looked the queue up before the map was taken pushes into it after
\* its errors were flushed, and nobody flushes it again.
FlushesAllErrors ==
  \A queue \in closed : queue[2] = "error" => kept[queue] \subseteq exported

\* The comment in captureNormalSample: "push to the latency queue to
\* prioritize the healthy sample too".  A due normal trace is pushed, though
\* the flusher emptied the service since sampleTraces looked the request up
\* and other requests have filled it again.
NormalTracePushed ==
  ~ \E c \in Consumers :
      panicked /\ pc[c] = "decide" /\ requestState[c] = None

-----------------------------------------------------------------------------
\* Each service's map as a RequestRegistry

Name(sampler) ==
  IF sampler = None THEN None ELSE <<sampler[2], sampler[3], sampler[4]>>

Stage(service, c) ==
  CASE requestState[c] # None -> IF requestState[c][1] = service
                                   THEN "answered" ELSE "idle"
    [] pc[c] \in {"resolve", "resolveAgain"} /\ Current(c).service = service
         -> "missed"
    [] pc[c] \in {"refused", "decide"} /\ Current(c).service = service
         -> "answered"
    [] OTHER -> "idle"

Asked(service, c) ==
  IF Stage(service, c) = "idle" THEN None ELSE Current(c).request

Answer(service, c) ==
  IF Stage(service, c) = "answered" THEN Name(requestState[c]) ELSE None

Registry(service) == INSTANCE RequestRegistry
  WITH Callers <- Consumers,
       registry <- [r \in Requests |-> Name(registry[service][r])],
       epoch <- epoch[service],
       stage <- [c \in Consumers |-> Stage(service, c)],
       asked <- [c \in Consumers |-> Asked(service, c)],
       answer <- [c \in Consumers |-> Answer(service, c)]

UsesRegistry(service) == [Registry(service)!Next]_(Registry(service)!vars)

OnlyRegistrySteps == \A service \in Services : UsesRegistry(service)

\* sampleTraces and the flusher use each service's map as RequestRegistry
\* says and in no other way; what RequestStates shows of the map holds here.
UsesRegistries ==
  /\ \A service \in Services : Registry(service)!Init
  /\ [][OnlyRegistrySteps]_vars
=============================================================================
