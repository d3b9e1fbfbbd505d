---------------------------- MODULE RequestStates ----------------------------
(***************************************************************************)
(* serviceQueues (service_queue.go) at the grain of its locks: the         *)
(* goroutines that call getRequestState, and the flusher that calls        *)
(* clearRequestStates.                                                     *)
(*                                                                         *)
(* getRequestState loads the sync.Map with no lock held, reads the count   *)
(* under the read lock in hasRoom, and only then takes the write lock and  *)
(* looks again.  The field requestStates is read without the lock as well; *)
(* a map the flusher has taken is never stored into again, so a Load from  *)
(* it is a Load made just before the swap, and one step models both.       *)
(***************************************************************************)
EXTENDS Integers, FiniteSets

CONSTANTS
  Callers,            \* goroutines in ConsumeTraces
  Requests,           \* request contexts
  LimitPerService,    \* config.LimitPerService
  Flusher,            \* the trace flusher's goroutine
  None,               \* the nil sampler; nobody; no request
  MaxClears           \* bound: clears that find something to flush

ASSUME StatesAssumption ==
  /\ LimitPerService \in Int
  /\ MaxClears \in Nat
  /\ Flusher \notin Callers
  /\ None \notin Callers \cup {Flusher} \cup Requests
  /\ None \notin Requests \X Nat \X Callers
  /\ IsFiniteSet(Requests)

VARIABLES
  requestStates,    \* sq.requestStates: the sampler of each request
  requestCount,     \* sq.requestCount
  writer,           \* the holder of sq.rwMutex's write lock
  pc,               \* the next step of each goroutine
  request,          \* the argument of each call
  result,           \* the sampler each call is to return
  epoch,            \* clears so far, to name samplers
  taken             \* the samplers clearRequestStates handed to the flusher

vars == <<requestStates, requestCount, writer, pc, request, result, epoch,
          taken>>

Registered == {r \in Requests : requestStates[r] # None}

\* Mutant: nobody waits for the lock.
FreeAlways == TRUE

Free == writer = None

\* Mutant: off by one.
RoomForOneMore == requestCount <= LimitPerService

RoomLeft == requestCount < LimitPerService

\* Mutant: the map is not looked at again under the lock.
AbsentUnchecked(c) == TRUE

Absent(c) == requestStates[request[c]] = None

\* Every traceSampler is a new object; who made it, for what and when names it.
NewSampler(c) == <<request[c], epoch, c>>

Goto(g, label) == pc' = [pc EXCEPT ![g] = label]

Init ==
  /\ requestStates = [r \in Requests |-> None]
  /\ requestCount = 0
  /\ writer = None
  /\ pc = [g \in Callers \cup {Flusher} |-> "idle"]
  /\ request = [c \in Callers |-> None]
  /\ result = [c \in Callers |-> None]
  /\ epoch = 0
  /\ taken = {}

-----------------------------------------------------------------------------
\* getRequestState, called by c

\* The Load without the lock returns at once if it finds the request.
Load(c, r) ==
  /\ pc[c] = "idle"
  /\ request' = [request EXCEPT ![c] = r]
  /\ result' = [result EXCEPT ![c] = requestStates[r]]
  /\ Goto(c, IF requestStates[r] = None THEN "hasRoom" ELSE "return")
  /\ UNCHANGED <<requestStates, requestCount, writer, epoch, taken>>

\* hasRoom reads the count under the read lock; without room, nil it is.
CheckRoom(c) ==
  /\ pc[c] = "hasRoom"
  /\ Free
  /\ Goto(c, IF RoomLeft THEN "lock" ELSE "return")
  /\ UNCHANGED <<requestStates, requestCount, writer, request, result, epoch,
                 taken>>

Lock(c) ==
  /\ pc[c] = "lock"
  /\ Free
  /\ writer' = c
  /\ Goto(c, "recheck")
  /\ UNCHANGED <<requestStates, requestCount, request, result, epoch, taken>>

\* Someone else has stored the request: return theirs.
RecheckFinds(c) ==
  /\ pc[c] = "recheck"
  /\ ~Absent(c)
  /\ result' = [result EXCEPT ![c] = requestStates[request[c]]]
  /\ writer' = None
  /\ Goto(c, "return")
  /\ UNCHANGED <<requestStates, requestCount, request, epoch, taken>>

\* Mutant: this way out keeps the lock.
RecheckFullLocked(c) ==
  /\ pc[c] = "recheck"
  /\ Absent(c)
  /\ ~RoomLeft
  /\ Goto(c, "return")
  /\ UNCHANGED <<requestStates, requestCount, writer, request, result, epoch,
                 taken>>

\* Someone else has taken the room: return nil.
RecheckFull(c) ==
  /\ pc[c] = "recheck"
  /\ Absent(c)
  /\ ~RoomLeft
  /\ writer' = None
  /\ Goto(c, "return")
  /\ UNCHANGED <<requestStates, requestCount, request, result, epoch, taken>>

\* A new traceSampler goes into the map, where Load already sees it.
Store(c) ==
  /\ pc[c] = "recheck"
  /\ Absent(c)
  /\ RoomLeft
  /\ requestStates' = [requestStates EXCEPT ![request[c]] = NewSampler(c)]
  /\ result' = [result EXCEPT ![c] = NewSampler(c)]
  /\ Goto(c, "count")
  /\ UNCHANGED <<requestCount, writer, request, epoch, taken>>

\* The count follows; the deferred Unlock ends the call.
Count(c) ==
  /\ pc[c] = "count"
  /\ requestCount' = requestCount + 1
  /\ writer' = None
  /\ Goto(c, "return")
  /\ UNCHANGED <<requestStates, request, result, epoch, taken>>

Return(c) ==
  /\ pc[c] = "return"
  /\ request' = [request EXCEPT ![c] = None]
  /\ result' = [result EXCEPT ![c] = None]
  /\ Goto(c, "idle")
  /\ UNCHANGED <<requestStates, requestCount, writer, epoch, taken>>

-----------------------------------------------------------------------------
\* clearRequestStates, called by the flusher

ClearLock ==
  /\ pc[Flusher] = "idle"
  /\ epoch < MaxClears
  /\ Free
  /\ writer' = Flusher
  /\ Goto(Flusher, "swap")
  /\ UNCHANGED <<requestStates, requestCount, request, result, epoch, taken>>

\* An empty map in place of an empty map is no change.
Swap ==
  /\ pc[Flusher] = "swap"
  /\ taken' = taken \cup {requestStates[r] : r \in Registered}
  /\ requestStates' = [r \in Requests |-> None]
  /\ epoch' = IF Registered = {} THEN epoch ELSE epoch + 1
  /\ Goto(Flusher, "reset")
  /\ UNCHANGED <<requestCount, writer, request, result>>

\* Mutant: the count is not reset.
ResetForgotten ==
  /\ pc[Flusher] = "reset"
  /\ writer' = None
  /\ Goto(Flusher, "idle")
  /\ UNCHANGED <<requestStates, requestCount, request, result, epoch, taken>>

ResetCount ==
  /\ pc[Flusher] = "reset"
  /\ requestCount' = 0
  /\ writer' = None
  /\ Goto(Flusher, "idle")
  /\ UNCHANGED <<requestStates, request, result, epoch, taken>>

-----------------------------------------------------------------------------

\* What is left of a call once it has begun.
Proceed(c) ==
  \/ CheckRoom(c)
  \/ Lock(c)
  \/ RecheckFinds(c)
  \/ RecheckFull(c)
  \/ Store(c)
  \/ Count(c)
  \/ Return(c)

FinishClear == Swap \/ ResetCount

Next ==
  \/ \E c \in Callers : (\E r \in Requests : Load(c, r)) \/ Proceed(c)
  \/ ClearLock
  \/ FinishClear

Spec == Init /\ [][Next]_vars

\* A goroutine inside a call keeps running, and sync.RWMutex does not starve
\* a waiter: its Mutex hands over in starvation mode, and a waiting writer
\* holds back new readers.  Nobody has to call again.
Fairness ==
  /\ \A c \in Callers : SF_vars(Proceed(c))
  /\ WF_vars(FinishClear)

FairSpec == Spec /\ Fairness

-----------------------------------------------------------------------------

\* The number of entries the limit allows; Validate lets it be negative.
Room == IF LimitPerService > 0 THEN LimitPerService ELSE 0

Samplers == Requests \X (0..MaxClears) \X Callers

TypeOK ==
  /\ requestStates \in [Requests -> Samplers \cup {None}]
  /\ requestCount \in Nat /\ requestCount <= Room
  /\ writer \in Callers \cup {Flusher, None}
  /\ pc \in [Callers \cup {Flusher} ->
               {"idle", "hasRoom", "lock", "recheck", "count", "return",
                "swap", "reset"}]
  /\ request \in [Callers -> Requests \cup {None}]
  /\ result \in [Callers -> Samplers \cup {None}]
  /\ epoch \in 0..MaxClears
  /\ taken \subseteq Samplers

\* Whenever the lock is free the counter tells the size of the map, so
\* hasRoom, which reads nothing else, is never wrong at the time it reads.
CountIsSize == writer = None => requestCount = Cardinality(Registered)

\* However the goroutines interleave, a service never has more request
\* contexts than LimitPerService between two flushes.
WithinLimit ==
  Cardinality(Registered) <= Room

\* Every sampler a caller was given is in the map or was taken by the
\* flusher: none was overwritten by a second Store, which would leave the
\* traces pushed into it where no flush looks.
NoSamplerLost ==
  \A c \in Callers :
    result[c] # None =>
      \/ result[c] \in taken
      \/ requestStates[request[c]] = result[c]

-----------------------------------------------------------------------------
\* The inductive invariant behind these

HoldsLock(g) == pc[g] \in {"recheck", "count", "swap", "reset"}

\* The write lock is held by the one goroutine between Lock and Unlock.
LockInv ==
  /\ \A g \in Callers \cup {Flusher} : HoldsLock(g) <=> writer = g
  /\ pc[Flusher] \in {"idle", "swap", "reset"}
  /\ \A c \in Callers : pc[c] \notin {"swap", "reset"}

\* Between Store and Count the map is one ahead of the counter; between Swap
\* and ResetCount the map is empty and the counter tells nothing.
CountInv ==
  /\ (\A c \in Callers : pc[c] # "count") /\ pc[Flusher] # "reset"
       => requestCount = Cardinality(Registered)
  /\ \A c \in Callers : pc[c] = "count" =>
       requestCount + 1 = Cardinality(Registered)
  /\ pc[Flusher] = "reset" => Registered = {}

\* A call is about a request, there is no result outside of a call, and a
\* clear that has begun may end.
CallInv ==
  /\ \A c \in Callers :
       IF pc[c] = "idle" THEN request[c] = None /\ result[c] = None
                         ELSE request[c] \in Requests
  /\ pc[Flusher] = "swap" => epoch < MaxClears

StatesInv ==
  TypeOK /\ LockInv /\ CallInv /\ CountInv /\ WithinLimit /\ NoSamplerLost

-----------------------------------------------------------------------------

\* A registered request changes its sampler only by being flushed: two
\* callers between the same two flushes push into the same queues.
SamplerStable ==
  [][\A r \in Requests :
       requestStates[r] # None /\ requestStates'[r] # requestStates[r] =>
         requestStates'[r] = None /\ requestStates[r] \in taken']_vars

\* Every call of getRequestState returns.
CallReturns == \A c \in Callers : pc[c] = "hasRoom" ~> pc[c] = "idle"

\* The stage of a call in terms of RequestRegistry: it is answered as soon
\* as its result is fixed.
Stage(c) ==
  IF pc[c] = "idle" THEN "idle"
  ELSE IF pc[c] \in {"count", "return"} THEN "answered"
  ELSE "missed"

Registry == INSTANCE RequestRegistry
  WITH registry <- requestStates,
       stage <- [c \in Callers |-> Stage(c)],
       asked <- request,
       answer <- result

\* The locks and the counter implement the registry.
ImplementsRegistry == Registry!Spec
=============================================================================
