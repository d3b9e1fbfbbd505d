--------------------------- MODULE PeriodicSampler ---------------------------
(***************************************************************************)
(* Whether a normal trace is due (sampler.go, captureNormalSample, and     *)
(* periodic_sampler.go).  A service keeps a cache of sampling states, one  *)
(* per request, that limits the requests normal traces are taken of.  A    *)
(* goroutine looks its request up, makes a state when there is none and    *)
(* there is room, and asks the state.                                      *)
(*                                                                         *)
(* Lookup, Len and Set are separate calls of the cache.  sample reads the  *)
(* clock and lastSampleTime under the read lock, lets the lock go, and if  *)
(* the interval has passed takes the write lock and looks again.  Whatever *)
(* the second look finds, sampleNow is still true from the first one, and  *)
(* the caller is granted a sample.                                         *)
(*                                                                         *)
(* Each critical section touches no other shared state, so it is one step. *)
(***************************************************************************)
EXTENDS Integers, FiniteSets

CONSTANTS
  Callers,         \* goroutines in captureNormalSample
  Requests,        \* requests of one service
  SamplingStates,  \* pool of periodicSamplingState objects; bounds Room
  Limit,           \* LimitPerService
  Interval,        \* everyNMinutes * 60, in seconds
  StartTime,       \* the clock when the service is first seen
  MaxTime,         \* bound on the clock
  None

\* time.Now().Unix() is far beyond any interval after lastSampleTime = 0.
ASSUME SamplerAssumption ==
  /\ Interval \in Nat
  /\ StartTime \in Nat
  /\ MaxTime \in Nat
  /\ Interval < StartTime
  /\ StartTime <= MaxTime
  /\ Limit \in Int
  /\ None \notin SamplingStates \cup Requests
  /\ IsFiniteSet(Requests)

VARIABLES
  now,              \* the clock
  entry,            \* the cache: the state of each request, or None
  expired,          \* the requests whose entry is older than the TTL
  lapsed,           \* history: requests whose entry expired or was evicted
  made,             \* history: who made which state for which request
  lastSampleTime,   \* state.lastSampleTime
  pc,               \* the next step of each caller
  request, state, currentTime,   \* the local variables of each call
  grants            \* history: who was told to sample by which state,
                    \* reading which clock, and lastSampleTime then

cache == <<entry, expired, lapsed, made>>
locals == <<request, state, currentTime>>
sampling == <<lastSampleTime, grants>>

vars == <<now, cache, pc, locals, sampling>>

Init ==
  /\ now = StartTime
  /\ entry = [r \in Requests |-> None]
  /\ expired = {}
  /\ lapsed = {}
  /\ made = {}
  /\ lastSampleTime = [s \in SamplingStates |-> 0]
  /\ pc = [c \in Callers |-> "idle"]
  /\ request = [c \in Callers |-> None]
  /\ state = [c \in Callers |-> None]
  /\ currentTime = [c \in Callers |-> 0]
  /\ grants = {}

Tick ==
  /\ now < MaxTime
  /\ now' = now + 1
  /\ UNCHANGED <<cache, pc, locals, sampling>>

-----------------------------------------------------------------------------
(* The cache.  It is never started, so that an entry that has expired is    *)
(* not found any more but stays.                                            *)

Cached == {r \in Requests : entry[r] # None}

Found(r) == r \in Cached \ expired

\* Mutant: an expired entry does not count.
LenFound == Cardinality(Cached \ expired)

Len == Cardinality(Cached)

Expire(r) ==
  /\ Found(r)
  /\ expired' = expired \cup {r}
  /\ lapsed' = lapsed \cup {r}
  /\ UNCHANGED <<now, entry, made, pc, locals, sampling>>

Goto(c, step) == pc' = [pc EXCEPT ![c] = step]

Return(c) ==
  /\ Goto(c, "idle")
  /\ request' = [request EXCEPT ![c] = None]
  /\ state' = [state EXCEPT ![c] = None]
  /\ currentTime' = [currentTime EXCEPT ![c] = 0]

\* samplingStates.Get.
Get(c, r) ==
  /\ pc[c] = "idle"
  /\ request' = [request EXCEPT ![c] = r]
  /\ IF Found(r)
       THEN state' = [state EXCEPT ![c] = entry[r]] /\ Goto(c, "read")
       ELSE state' = state /\ Goto(c, "len")
  /\ UNCHANGED <<now, cache, currentTime, sampling>>

\* samplingStates.Len() < LimitPerService: a state of its own is made.
Room(c) ==
  /\ pc[c] = "len"
  /\ Len < Limit
  /\ \E s \in SamplingStates \ {m.state : m \in made} :
       /\ state' = [state EXCEPT ![c] = s]
       /\ made' = made \cup {[by |-> c, request |-> request[c], state |-> s]}
  /\ Goto(c, "set")
  /\ UNCHANGED <<now, entry, expired, lapsed, request, currentTime, sampling>>

TooManyContexts(c) ==
  /\ pc[c] = "len"
  /\ Len >= Limit
  /\ Return(c)
  /\ UNCHANGED <<now, cache, sampling>>

\* Whom Set(r) evicts: one entry when the cache is full and r is not found.
Victims(r) ==
  IF Found(r) \/ Len < Limit THEN {{}} ELSE {{v} : v \in Cached}

\* Mutant: the new state is not stored.
NotStored(c) == entry[request[c]]

Stored(c) == state[c]

\* samplingStates.Set takes the place of what is there.
Set(c) ==
  /\ pc[c] = "set"
  /\ \E victims \in Victims(request[c]) :
       /\ entry' = [r \in Requests |-> IF r = request[c] THEN Stored(c)
                                       ELSE IF r \in victims THEN None
                                       ELSE entry[r]]
       /\ expired' = expired \ (victims \cup {request[c]})
       /\ lapsed' = lapsed \cup victims
  /\ Goto(c, "read")
  /\ UNCHANGED <<now, made, locals, sampling>>

-----------------------------------------------------------------------------
(* sample                                                                   *)

LastSampleTime(c) == lastSampleTime[state[c]]

\* The look under the read lock.
Due(c) ==
  /\ pc[c] = "read"
  /\ now - LastSampleTime(c) > Interval
  /\ currentTime' = [currentTime EXCEPT ![c] = now]
  /\ Goto(c, "write")
  /\ UNCHANGED <<now, cache, request, state, sampling>>

\* A call that is not due returns false.
NotDue(c) ==
  /\ pc[c] = "read"
  /\ now - LastSampleTime(c) <= Interval
  /\ Return(c)
  /\ UNCHANGED <<now, cache, sampling>>

\* Whether the second look still finds the interval passed.
\* Mutant: it never finds it.
NeverDue(c) == FALSE

StillDue(c) == currentTime[c] - LastSampleTime(c) > Interval

\* Mutant: the time of the next sample is stored.
NextDueTime(c) == currentTime[c] + Interval

SampleTime(c) == currentTime[c]

GrantTo(c) ==
  [by |-> c, state |-> state[c], at |-> currentTime[c],
   period |-> lastSampleTime'[state[c]]]

\* Mutant: only a call whose second look fails is granted.
GrantedOnRetry(c) == IF StillDue(c) THEN {} ELSE {GrantTo(c)}

\* sampleNow is true since the first look, whatever the second one finds.
Granted(c) == {GrantTo(c)}

\* The look under the write lock; the call returns sampleNow, which is true.
Write(c) ==
  /\ pc[c] = "write"
  /\ lastSampleTime' =
       IF StillDue(c)
         THEN [lastSampleTime EXCEPT ![state[c]] = SampleTime(c)]
         ELSE lastSampleTime
  /\ grants' = grants \cup Granted(c)
  /\ Return(c)
  /\ UNCHANGED <<now, cache>>

Sample(c) == Due(c) \/ NotDue(c) \/ Write(c)

Next ==
  \/ Tick
  \/ \E r \in Requests : Expire(r)
  \/ \E c \in Callers, r \in Requests : Get(c, r)
  \/ \E c \in Callers : Room(c) \/ TooManyContexts(c) \/ Set(c) \/ Sample(c)

Spec == Init /\ [][Next]_vars

-----------------------------------------------------------------------------

Times == 0..MaxTime

Grants ==
  [by : Callers, state : SamplingStates, at : Times, period : Times]

Steps == {"idle", "len", "set", "read", "write"}

TypeOK ==
  /\ now \in Times
  /\ entry \in [Requests -> SamplingStates \cup {None}]
  /\ expired \subseteq Cached
  /\ lapsed \subseteq Requests
  /\ made \subseteq
       [by : Callers, request : Requests, state : SamplingStates]
  /\ lastSampleTime \in [SamplingStates -> Times]
  /\ pc \in [Callers -> Steps]
  /\ request \in [Callers -> Requests \cup {None}]
  /\ \A c \in Callers : pc[c] # "idle" => request[c] \in Requests
  /\ state \in [Callers -> SamplingStates \cup {None}]
  /\ \A c \in Callers :
       pc[c] \in {"set", "read", "write"} => state[c] \in SamplingStates
  /\ currentTime \in [Callers -> Times]
  /\ grants \subseteq Grants

\* Two values of a state's lastSampleTime are more than an interval apart,
\* also when callers write in another order than they read the clock.
PeriodsApart ==
  [][\A s \in SamplingStates :
       lastSampleTime'[s] # lastSampleTime[s] =>
         lastSampleTime'[s] - lastSampleTime[s] > Interval]_vars

\* The interval is started anew only by a call that also takes a sample: no
\* interval passes without its normal trace because a call that returned
\* false had moved lastSampleTime.
NoPeriodSwallowed ==
  \A s \in SamplingStates :
    lastSampleTime[s] # 0 =>
      \E grant \in grants : grant.state = s /\ grant.at = lastSampleTime[s]

\* No caller is granted two samples in one period of a state: what the missing
\* reset of sampleNow can add to the sampling rate is bounded by the number of
\* goroutines that race.
OneGrantPerPeriod ==
  [][\A c \in Callers :
       pc[c] = "write" /\ pc'[c] = "idle" =>
         ~ \E grant \in grants :
             /\ grant.by = c
             /\ grant.state = state[c]
             /\ grant.period = lastSampleTime'[state[c]]]_vars

\* What makes OneGrantPerPeriod inductive: periods do not lie ahead, and a
\* caller about to be granted a second sample in one period will find, when it
\* looks again, that the period is over.
GrantInv ==
  \A grant \in grants :
    /\ grant.period <= lastSampleTime[grant.state]
    /\ \A c \in Callers :
         /\ pc[c] = "write"
         /\ grant.by = c
         /\ grant.state = state[c]
         /\ grant.period = LastSampleTime(c)
         => StillDue(c)

\* Looking a state up and setting it are two steps, so that goroutines that
\* meet a new request may each make a state and sample with it.  But as long as
\* no entry of the request expires or is evicted, no goroutine makes a second
\* one: the excess is one state per goroutine.
OneStatePerCaller ==
  \A m, n \in made :
    m.by = n.by /\ m.request = n.request /\ m # n => m.request \in lapsed

\* What makes it inductive: a state made for a request whose entry has not
\* lapsed is about to be stored, or the entry is found, also by its maker.
MadeInv ==
  \A m \in made :
    m.request \notin lapsed =>
      /\ request[m.by] = m.request => pc[m.by] # "len"
      /\ Found(m.request) \/ (pc[m.by] = "set" /\ request[m.by] = m.request)

\* Since expired entries count in Len and nothing removes them, a request that
\* is not found when the cache is full, be it new or expired, is refused for
\* good, unless a goroutine that had found room is yet to store.
Starved(r) ==
  /\ ~Found(r)
  /\ Len >= Limit
  /\ \A c \in Callers : pc[c] # "set"

RefusedForGood ==
  [][\A r \in Requests : Starved(r) => Starved(r)']_vars
=============================================================================
