----------------------- MODULE PeriodicSamplerProofs -----------------------
(***************************************************************************)
(* What is left of the sampling rate when any number of goroutines race,   *)
(* for every interval, every course of the clock and every limit.          *)
(***************************************************************************)
EXTENDS PeriodicSampler, FiniteSetTheorems, TLAPS

\* The steps of a goroutine that leave the states alone.
Looks(c) == Due(c) \/ NotDue(c)

\* Every step is one of these.
LEMMA Cases ==
  ASSUME NEW P,
         Tick => P,
         \A r \in Requests : Expire(r) => P,
         \A c \in Callers : \A r \in Requests : Get(c, r) => P,
         \A c \in Callers : Room(c) => P,
         \A c \in Callers : TooManyContexts(c) => P,
         \A c \in Callers : Set(c) => P,
         \A c \in Callers : Looks(c) => P,
         \A c \in Callers : Write(c) => P,
         UNCHANGED vars => P,
         [Next]_vars
  PROVE  P
BY DEF Next, Sample, Looks

-----------------------------------------------------------------------------

\* Every step keeps the types.
LEMMA TypeStep ==
  ASSUME TypeOK, [Next]_vars
  PROVE  TypeOK'
<1> USE SamplerAssumption DEF TypeOK, Times, Steps, Cached
<1>1. ASSUME Tick PROVE TypeOK'
  BY <1>1 DEF Tick, cache, locals, sampling
<1>2. ASSUME NEW r \in Requests, Expire(r) PROVE TypeOK'
  BY <1>2 DEF Expire, Found, locals, sampling
<1>3. ASSUME NEW c \in Callers, NEW r \in Requests, Get(c, r) PROVE TypeOK'
  BY <1>3 DEF Get, Found, Goto, cache, sampling
<1>4. ASSUME NEW c \in Callers, Room(c) PROVE TypeOK'
  BY <1>4 DEF Room, Goto, sampling
<1>5. ASSUME NEW c \in Callers, TooManyContexts(c) PROVE TypeOK'
  BY <1>5 DEF TooManyContexts, Return, Goto, cache, sampling
<1>6. ASSUME NEW c \in Callers, Set(c) PROVE TypeOK'
  <2>1. PICK victims \in Victims(request[c]) :
          /\ entry' = [r \in Requests |-> IF r = request[c] THEN Stored(c)
                                          ELSE IF r \in victims THEN None
                                          ELSE entry[r]]
          /\ expired' = expired \ (victims \cup {request[c]})
          /\ lapsed' = lapsed \cup victims
    BY <1>6 DEF Set
  <2>2. victims \subseteq Requests
    BY <2>1 DEF Victims
  <2>3. Stored(c) \in SamplingStates
    BY <1>6 DEF Set, Stored
  <2>4. entry' \in [Requests -> SamplingStates \cup {None}]
    BY <2>1, <2>3
  <2>5. expired' \subseteq Cached'
    BY <2>1
  <2> QED
    BY <1>6, <2>1, <2>2, <2>4, <2>5 DEF Set, Goto, locals, sampling
<1>7. ASSUME NEW c \in Callers, Looks(c) PROVE TypeOK'
  BY <1>7 DEF Looks, Due, NotDue, Return, Goto, cache, sampling
<1>8. ASSUME NEW c \in Callers, Write(c) PROVE TypeOK'
  <2>1. state[c] \in SamplingStates
    BY <1>8 DEF Write
  <2>2. lastSampleTime' \in [SamplingStates -> 0..MaxTime]
    BY <1>8, <2>1 DEF Write, SampleTime
  <2>3. Granted(c) \subseteq Grants
    BY <2>1, <2>2 DEF Granted, GrantTo, Grants
  <2>4. grants' \subseteq Grants
    BY <1>8, <2>3 DEF Write
  <2> QED
    BY <1>8, <2>2, <2>4 DEF Write, Return, Goto, cache, Grants
<1>9. ASSUME UNCHANGED vars PROVE TypeOK'
  BY <1>9 DEF vars, cache, locals, sampling
<1> QED
  BY <1>1, <1>2, <1>3, <1>4, <1>5, <1>6, <1>7, <1>8, <1>9, Cases

\* Every step leaves a grant at the time lastSampleTime shows.
LEMMA SwallowStep ==
  ASSUME TypeOK, NoPeriodSwallowed, [Next]_vars
  PROVE  NoPeriodSwallowed'
<1>1. ASSUME NEW c \in Callers, Write(c) PROVE NoPeriodSwallowed'
  <2> SUFFICES ASSUME NEW s \in SamplingStates, lastSampleTime'[s] # 0
               PROVE  \E grant \in grants' :
                        grant.state = s /\ grant.at = lastSampleTime'[s]
    BY DEF NoPeriodSwallowed
  <2>1. CASE StillDue(c) /\ s = state[c]
    <3>1. lastSampleTime'[s] = currentTime[c]
      BY <1>1, <2>1 DEF Write, SampleTime, TypeOK
    <3>2. GrantTo(c) \in grants'
      BY <1>1 DEF Write, Granted
    <3> QED
      BY <2>1, <3>1, <3>2 DEF GrantTo
  <2>2. CASE ~(StillDue(c) /\ s = state[c])
    <3>1. lastSampleTime'[s] = lastSampleTime[s]
      BY <1>1, <2>2 DEF Write, TypeOK
    <3> QED
      BY <1>1, <3>1 DEF Write, NoPeriodSwallowed
  <2> QED
    BY <2>1, <2>2
<1>2. ASSUME UNCHANGED sampling PROVE NoPeriodSwallowed'
  BY <1>2 DEF sampling, NoPeriodSwallowed
<1> QED
  BY <1>1, <1>2, Cases
  DEF Tick, Expire, Get, Room, TooManyContexts, Set, Looks, Due, NotDue, vars

\* Every step leaves the grants in the past and a caller that has one in this
\* period either not due or about to begin the next.
LEMMA GrantStep ==
  ASSUME TypeOK, GrantInv, [Next]_vars
  PROVE  GrantInv'
<1> USE SamplerAssumption
<1>1. ASSUME NEW c \in Callers, Write(c) PROVE GrantInv'
  <2> USE DEF TypeOK, Times, Grants
  <2>1. /\ state[c] \in SamplingStates
        /\ pc' = [pc EXCEPT ![c] = "idle"]
        /\ state' = [state EXCEPT ![c] = None]
        /\ currentTime' = [currentTime EXCEPT ![c] = 0]
        /\ grants' = grants \cup {GrantTo(c)}
    BY <1>1 DEF Write, Return, Goto, Granted
  <2>2. \A s \in SamplingStates : lastSampleTime[s] <= lastSampleTime'[s]
    BY <1>1, <2>1 DEF Write, StillDue, LastSampleTime, SampleTime
  <2>3. lastSampleTime' \in [SamplingStates -> 0..MaxTime]
    BY <1>1, <2>1 DEF Write, SampleTime
  <2> SUFFICES ASSUME NEW grant \in grants'
               PROVE  /\ grant.period <= lastSampleTime'[grant.state]
                      /\ \A d \in Callers :
                           /\ pc'[d] = "write"
                           /\ grant.by = d
                           /\ grant.state = state'[d]
                           /\ grant.period = lastSampleTime'[state'[d]]
                           => currentTime'[d] - lastSampleTime'[state'[d]]
                                > Interval
    BY DEF GrantInv, StillDue, LastSampleTime
  <2>4. CASE grant = GrantTo(c)
    BY <2>1, <2>3, <2>4 DEF GrantTo
  <2>5. CASE grant \in grants
    <3>1. /\ grant.state \in SamplingStates
          /\ grant.period \in 0..MaxTime
          /\ grant.period <= lastSampleTime[grant.state]
      BY <2>5 DEF GrantInv
    <3>2. grant.period <= lastSampleTime'[grant.state]
      BY <2>2, <2>3, <3>1
    <3>3. ASSUME NEW d \in Callers, pc'[d] = "write", grant.by = d,
                 grant.state = state'[d],
                 grant.period = lastSampleTime'[state'[d]]
          PROVE  currentTime'[d] - lastSampleTime'[state'[d]] > Interval
      <4>1. /\ d # c
            /\ pc[d] = "write"
            /\ state[d] = state'[d]
            /\ currentTime[d] = currentTime'[d]
        BY <2>1, <3>3
      <4>2. lastSampleTime[state[d]] = lastSampleTime'[state[d]]
        BY <2>2, <2>3, <3>1, <3>3, <4>1
      <4>3. StillDue(d)
        BY <2>5, <3>3, <4>1, <4>2 DEF GrantInv, LastSampleTime
      <4> QED
        BY <4>1, <4>2, <4>3 DEF StillDue, LastSampleTime
    <3> QED
      BY <3>2, <3>3
  <2> QED
    BY <2>1, <2>4, <2>5
<1>2. ASSUME NEW c \in Callers, Due(c) PROVE GrantInv'
  <2>1. /\ grants' = grants
        /\ lastSampleTime' = lastSampleTime
        /\ state' = state
        /\ currentTime' = [currentTime EXCEPT ![c] = now]
        /\ pc' = [pc EXCEPT ![c] = "write"]
        /\ now - lastSampleTime[state[c]] > Interval
    BY <1>2 DEF Due, Goto, LastSampleTime, sampling
  <2> QED
    BY <2>1 DEF GrantInv, StillDue, LastSampleTime, TypeOK
<1>3. ASSUME UNCHANGED sampling,
             \A c \in Callers :
               pc'[c] = "write" => /\ pc[c] = "write"
                                   /\ state'[c] = state[c]
                                   /\ currentTime'[c] = currentTime[c]
      PROVE  GrantInv'
  BY <1>3 DEF GrantInv, StillDue, LastSampleTime, sampling
<1>4. ASSUME NEW c \in Callers, Return(c), UNCHANGED sampling PROVE GrantInv'
  BY <1>3, <1>4 DEF Return, Goto, TypeOK
<1>5. ASSUME NEW c \in Callers, NEW r \in Requests, Get(c, r) PROVE GrantInv'
  BY <1>3, <1>5 DEF Get, Goto, TypeOK
<1>6. ASSUME NEW c \in Callers, Room(c) PROVE GrantInv'
  BY <1>3, <1>6 DEF Room, Goto, TypeOK
<1>7. ASSUME NEW c \in Callers, Set(c) PROVE GrantInv'
  BY <1>3, <1>7 DEF Set, Goto, TypeOK, locals
<1>8. ASSUME UNCHANGED <<pc, locals, sampling>> PROVE GrantInv'
  BY <1>3, <1>8 DEF locals
<1> QED
  BY <1>1, <1>2, <1>4, <1>5, <1>6, <1>7, <1>8, Cases
  DEF Tick, Expire, TooManyContexts, Looks, NotDue, vars

-----------------------------------------------------------------------------

\* Every step keeps what is known of the states made.
LEMMA MadeStep ==
  ASSUME TypeOK, MadeInv, OneStatePerCaller, [Next]_vars
  PROVE  MadeInv' /\ OneStatePerCaller'
<1> DEFINE Inv == MadeInv /\ OneStatePerCaller
<1> USE SamplerAssumption DEF MadeInv, OneStatePerCaller, Found, Cached
<1>1. ASSUME Tick PROVE Inv'
  BY <1>1 DEF Tick, cache, locals
<1>2. ASSUME NEW r \in Requests, Expire(r) PROVE Inv'
  BY <1>2 DEF Expire, locals, TypeOK
<1>3. ASSUME NEW c \in Callers, NEW r \in Requests, Get(c, r) PROVE Inv'
  BY <1>3 DEF Get, Goto, cache, TypeOK
<1>4. ASSUME NEW c \in Callers, Room(c) PROVE Inv'
  <2>1. PICK s \in SamplingStates :
          made' = made \cup
                    {[by |-> c, request |-> request[c], state |-> s]}
    BY <1>4 DEF Room
  <2>2. \A m \in made : m.by = c /\ m.request = request[c] =>
          m.request \in lapsed
    BY <1>4 DEF Room
  <2>3. OneStatePerCaller'
    BY <1>4, <2>1, <2>2 DEF Room
  <2>4. MadeInv'
    BY <1>4, <2>1, <2>2 DEF Room, Goto, TypeOK
  <2> QED
    BY <2>3, <2>4
<1>5. ASSUME NEW c \in Callers, Return(c), UNCHANGED cache, pc[c] # "set"
      PROVE  Inv'
  BY <1>5 DEF Return, Goto, cache, TypeOK
<1>6. ASSUME NEW c \in Callers, Set(c) PROVE Inv'
  <2>1. PICK victims \in Victims(request[c]) :
          /\ entry' = [r \in Requests |-> IF r = request[c] THEN Stored(c)
                                          ELSE IF r \in victims THEN None
                                          ELSE entry[r]]
          /\ expired' = expired \ (victims \cup {request[c]})
          /\ lapsed' = lapsed \cup victims
    BY <1>6 DEF Set
  <2>2. Stored(c) \in SamplingStates /\ request[c] \in Requests
    BY <1>6 DEF Set, Stored, TypeOK
  <2>3. Found(request[c])'
    BY <1>6, <2>1, <2>2 DEF Set, locals
  <2>4. \A r \in Requests : Found(r) /\ r \notin lapsed' => Found(r)'
    BY <2>1, <2>2
  <2>5. made' = made /\ request' = request /\ pc' = [pc EXCEPT ![c] = "read"]
    BY <1>6 DEF Set, Goto, locals
  <2>6. OneStatePerCaller'
    BY <2>1, <2>5
  <2>7. ASSUME NEW m \in made', m.request \notin lapsed'
        PROVE  /\ request'[m.by] = m.request => pc'[m.by] # "len"
               /\ \/ Found(m.request)'
                  \/ pc'[m.by] = "set" /\ request'[m.by] = m.request
    <3>1. /\ m \in made
          /\ m.request \in Requests
          /\ m.by \in Callers
          /\ m.request \notin lapsed
      BY <2>1, <2>5, <2>7 DEF TypeOK
    <3>2. /\ request[m.by] = m.request => pc[m.by] # "len"
          /\ \/ Found(m.request)
             \/ pc[m.by] = "set" /\ request[m.by] = m.request
      BY <3>1
    <3> HIDE DEF Found
    <3> QED
      BY <2>3, <2>4, <2>5, <2>7, <3>1, <3>2 DEF TypeOK
  <2> QED
    BY <2>6, <2>7
<1>7. ASSUME NEW c \in Callers, Due(c) PROVE Inv'
  BY <1>7 DEF Due, Goto, cache, TypeOK
<1>8. ASSUME UNCHANGED vars PROVE Inv'
  BY <1>8 DEF vars, cache, locals
<1> QED
  BY <1>1, <1>2, <1>3, <1>4, <1>5, <1>6, <1>7, <1>8, Cases
  DEF TooManyContexts, Looks, NotDue, Write, cache

-----------------------------------------------------------------------------

SamplerInv == TypeOK /\ NoPeriodSwallowed /\ GrantInv
                /\ MadeInv /\ OneStatePerCaller

\* The invariant of the sampler.
THEOREM SamplerInvariant == Spec => []SamplerInv
<1>1. Init => SamplerInv
  BY SamplerAssumption
  DEF Init, SamplerInv, TypeOK, Times, Steps, Cached, Grants,
      NoPeriodSwallowed, GrantInv, MadeInv, OneStatePerCaller
<1>2. SamplerInv /\ [Next]_vars => SamplerInv'
  BY TypeStep, SwallowStep, GrantStep, MadeStep DEF SamplerInv
<1> QED
  BY <1>1, <1>2, PTL DEF Spec

\* Type correctness.
THEOREM SamplerTypeCorrect == Spec => []TypeOK
BY SamplerInvariant, PTL DEF SamplerInv

\* No interval goes by without a sample because of a call that took none.
THEOREM SamplerSwallowsNoPeriod == Spec => []NoPeriodSwallowed
BY SamplerInvariant, PTL DEF SamplerInv

\* Goroutines that race make one state each, until an entry lapses.
THEOREM SamplerStatesBounded == Spec => []OneStatePerCaller
BY SamplerInvariant, PTL DEF SamplerInv

\* Two periods of a state start more than an interval apart.
THEOREM SamplerPeriodsApart == Spec => PeriodsApart
<1> DEFINE Apart == \A s \in SamplingStates :
                      lastSampleTime'[s] # lastSampleTime[s] =>
                        lastSampleTime'[s] - lastSampleTime[s] > Interval
<1>1. TypeOK /\ [Next]_vars => [Apart]_vars
  <2> SUFFICES ASSUME TypeOK, [Next]_vars PROVE Apart
    OBVIOUS
  <2>1. ASSUME NEW c \in Callers, Write(c) PROVE Apart
    BY <2>1 DEF Write, StillDue, LastSampleTime, SampleTime, TypeOK
  <2>2. ASSUME UNCHANGED sampling PROVE Apart
    BY <2>2 DEF sampling
  <2> QED
    BY <2>1, <2>2, Cases
    DEF Tick, Expire, Get, Room, TooManyContexts, Set, Looks, Due, NotDue, vars
<1> QED
  BY <1>1, SamplerTypeCorrect, PTL DEF Spec, PeriodsApart

\* No goroutine is granted two samples in one period of a state.
THEOREM SamplerGrantsOnce == Spec => OneGrantPerPeriod
<1> DEFINE Once ==
      \A c \in Callers :
        pc[c] = "write" /\ pc'[c] = "idle" =>
          ~ \E grant \in grants :
              /\ grant.by = c
              /\ grant.state = state[c]
              /\ grant.period = lastSampleTime'[state[c]]
<1>1. TypeOK /\ GrantInv /\ [Next]_vars => [Once]_vars
  <2> SUFFICES ASSUME TypeOK, GrantInv, [Next]_vars,
                      NEW c \in Callers, pc[c] = "write", pc'[c] = "idle",
                      NEW grant \in grants,
                      grant.by = c, grant.state = state[c],
                      grant.period = lastSampleTime'[state[c]]
               PROVE  FALSE
    OBVIOUS
  <2> USE SamplerAssumption DEF TypeOK, Times, Grants
  <2>1. Write(c)
    <3>1. ASSUME NEW d \in Callers, pc[d] # "write", NEW step,
                 pc' = [pc EXCEPT ![d] = step]
          PROVE  FALSE
      BY <3>1
    <3>2. ASSUME NEW d \in Callers, Write(d) PROVE d = c
      BY <3>2 DEF Write, Return, Goto
    <3> QED
      BY <3>1, <3>2
      DEF Next, Sample, Tick, Expire, Get, Room, TooManyContexts, Set, Due,
          NotDue, Return, Goto, vars
  <2>2. CASE StillDue(c)
    BY <2>1, <2>2
    DEF Write, StillDue, LastSampleTime, SampleTime, GrantInv
  <2>3. CASE ~StillDue(c)
    BY <2>1, <2>3 DEF Write, StillDue, LastSampleTime, GrantInv
  <2> QED
    BY <2>2, <2>3
<1> QED
  BY <1>1, SamplerInvariant, PTL DEF Spec, OneGrantPerPeriod, SamplerInv

\* A request not found when the cache is full is refused from then on.
THEOREM SamplerRefusesForGood == Spec => RefusedForGood
<1> DEFINE Stays == \A r \in Requests : Starved(r) => Starved(r)'
<1>1. TypeOK /\ [Next]_vars => [Stays]_vars
  <2> SUFFICES ASSUME TypeOK, [Next]_vars, NEW r \in Requests, Starved(r)
               PROVE  Starved(r)'
    OBVIOUS
  <2>1. Len \in Int
    <3>1. IsFiniteSet(Cached)
      BY SamplerAssumption, FS_Subset DEF Cached
    <3> QED
      BY <3>1, FS_CardinalityType DEF Len
  <2>2. ASSUME entry' = entry, expired \subseteq expired',
               \A c \in Callers : pc'[c] = "set" => pc[c] = "set"
        PROVE  Starved(r)'
    BY <2>2 DEF Starved, Found, Len, Cached
  <2>3. ASSUME NEW c \in Callers, Room(c) PROVE FALSE
    BY <2>1, <2>3, SamplerAssumption DEF Room, Starved
  <2>4. ASSUME NEW c \in Callers, Set(c) PROVE FALSE
    BY <2>4 DEF Set, Starved
  <2>5. ASSUME NEW c \in Callers, Return(c), UNCHANGED cache
        PROVE  Starved(r)'
    BY <2>2, <2>5 DEF Return, Goto, cache, TypeOK
  <2>6. ASSUME NEW c \in Callers, NEW q \in Requests, Get(c, q)
        PROVE  Starved(r)'
    BY <2>2, <2>6 DEF Get, Goto, cache, TypeOK
  <2>7. ASSUME NEW c \in Callers, Due(c) PROVE Starved(r)'
    BY <2>2, <2>7 DEF Due, Goto, cache, TypeOK
  <2>8. ASSUME UNCHANGED <<entry, pc>>, expired \subseteq expired'
        PROVE  Starved(r)'
    BY <2>2, <2>8
  <2> QED
    BY <2>3, <2>4, <2>5, <2>6, <2>7, <2>8, Cases
    DEF Tick, Expire, TooManyContexts, Looks, NotDue, Write, vars, cache
<1> QED
  BY <1>1, SamplerTypeCorrect, PTL DEF Spec, RefusedForGood
=============================================================================
