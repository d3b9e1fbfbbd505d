------------------------ MODULE RequestStatesProofs ------------------------
(***************************************************************************)
(* The double-checked locking of getRequestState keeps its counter, its    *)
(* limit and its samplers for any number of callers and requests, any      *)
(* limit and any number of clears.                                         *)
(***************************************************************************)
EXTENDS RequestStates, FiniteSetTheorems, TLAPS

\* The empty map of newServiceQueues satisfies the invariant.
LEMMA InitEstablishesStatesInv == Init => StatesInv
<1> SUFFICES ASSUME Init PROVE StatesInv
  OBVIOUS
<1> USE StatesAssumption
<1>1. Registered = {}
  BY DEF Init, Registered
<1>2. Cardinality(Registered) = 0
  BY <1>1, FS_EmptySet
<1>3. TypeOK
  BY DEF Init, TypeOK, Room
<1>4. LockInv
  BY DEF Init, LockInv, HoldsLock
<1>5. CallInv
  BY DEF Init, CallInv
<1>6. CountInv
  BY <1>2 DEF Init, CountInv
<1>7. WithinLimit
  BY <1>2 DEF WithinLimit, Room
<1>8. NoSamplerLost
  BY DEF Init, NoSamplerLost
<1> QED
  BY <1>3, <1>4, <1>5, <1>6, <1>7, <1>8 DEF StatesInv

\* A sampler just made is no nil, and the type of one.
LEMMA NewSamplerType ==
  ASSUME TypeOK, NEW c \in Callers, request[c] \in Requests
  PROVE  NewSampler(c) \in Samplers /\ NewSampler(c) # None
BY StatesAssumption DEF NewSampler, Samplers, TypeOK

\* Every step keeps the types.
LEMMA TypeStep ==
  ASSUME StatesInv, [Next]_vars
  PROVE  TypeOK'
<1> USE StatesAssumption DEF StatesInv
<1>1. ASSUME NEW c \in Callers, NEW r \in Requests, Load(c, r) PROVE TypeOK'
  BY <1>1 DEF Load, Goto, TypeOK
<1>2. ASSUME NEW c \in Callers, CheckRoom(c) PROVE TypeOK'
  BY <1>2 DEF CheckRoom, Goto, TypeOK
<1>3. ASSUME NEW c \in Callers, Lock(c) PROVE TypeOK'
  BY <1>3 DEF Lock, Goto, TypeOK
<1>4. ASSUME NEW c \in Callers, RecheckFinds(c) PROVE TypeOK'
  <2>1. request[c] \in Requests
    BY <1>4 DEF RecheckFinds, CallInv
  <2> QED
    BY <1>4, <2>1 DEF RecheckFinds, Goto, TypeOK
<1>5. ASSUME NEW c \in Callers, RecheckFull(c) PROVE TypeOK'
  BY <1>5 DEF RecheckFull, Goto, TypeOK
<1>6. ASSUME NEW c \in Callers, Store(c) PROVE TypeOK'
  <2>1. request[c] \in Requests
    BY <1>6 DEF Store, CallInv
  <2>2. NewSampler(c) \in Samplers
    BY <2>1, NewSamplerType
  <2> QED
    BY <1>6, <2>1, <2>2 DEF Store, Goto, TypeOK
<1>7. ASSUME NEW c \in Callers, Count(c) PROVE TypeOK'
  <2>1. requestCount + 1 = Cardinality(Registered)
    BY <1>7 DEF Count, CountInv
  <2>2. requestCount' \in Nat /\ requestCount' <= Room
    BY <1>7, <2>1 DEF Count, TypeOK, WithinLimit
  <2> QED
    BY <1>7, <2>2 DEF Count, Goto, TypeOK, Room
<1>8. ASSUME NEW c \in Callers, Return(c) PROVE TypeOK'
  BY <1>8 DEF Return, Goto, TypeOK
<1>9. CASE ClearLock
  BY <1>9 DEF ClearLock, Goto, TypeOK
<1>10. CASE Swap
  <2>1. {requestStates[r] : r \in Registered} \subseteq Samplers
    BY DEF Registered, TypeOK
  <2>2. epoch' \in 0..MaxClears
    BY <1>10 DEF Swap, CallInv, TypeOK
  <2> QED
    BY <1>10, <2>1, <2>2 DEF Swap, Goto, TypeOK
<1>11. CASE ResetCount
  BY <1>11 DEF ResetCount, Goto, TypeOK, Room
<1>12. CASE UNCHANGED vars
  BY <1>12 DEF vars, TypeOK
<1> QED
  BY <1>1, <1>2, <1>3, <1>4, <1>5, <1>6, <1>7, <1>8, <1>9, <1>10, <1>11, <1>12
  DEF Next, Proceed, FinishClear

\* Every step leaves at most one goroutine between Lock and Unlock, and every
\* call knows its request.
LEMMA LockStep ==
  ASSUME StatesInv, [Next]_vars
  PROVE  LockInv' /\ CallInv'
<1> USE StatesAssumption DEF StatesInv, Free, HoldsLock
<1>1. ASSUME NEW c \in Callers, NEW r \in Requests, Load(c, r)
      PROVE  LockInv' /\ CallInv'
  BY <1>1 DEF Load, Goto, TypeOK, LockInv, CallInv
<1>2. ASSUME NEW c \in Callers, CheckRoom(c) PROVE LockInv' /\ CallInv'
  BY <1>2 DEF CheckRoom, Goto, TypeOK, LockInv, CallInv
<1>3. ASSUME NEW c \in Callers, Lock(c) PROVE LockInv' /\ CallInv'
  BY <1>3 DEF Lock, Goto, TypeOK, LockInv, CallInv
<1>4. ASSUME NEW c \in Callers, RecheckFinds(c) PROVE LockInv' /\ CallInv'
  BY <1>4 DEF RecheckFinds, Goto, TypeOK, LockInv, CallInv
<1>5. ASSUME NEW c \in Callers, RecheckFull(c) PROVE LockInv' /\ CallInv'
  BY <1>5 DEF RecheckFull, Goto, TypeOK, LockInv, CallInv
<1>6. ASSUME NEW c \in Callers, Store(c) PROVE LockInv' /\ CallInv'
  BY <1>6 DEF Store, Goto, TypeOK, LockInv, CallInv
<1>7. ASSUME NEW c \in Callers, Count(c) PROVE LockInv' /\ CallInv'
  BY <1>7 DEF Count, Goto, TypeOK, LockInv, CallInv
<1>8. ASSUME NEW c \in Callers, Return(c) PROVE LockInv' /\ CallInv'
  BY <1>8 DEF Return, Goto, TypeOK, LockInv, CallInv
<1>9. CASE ClearLock
  BY <1>9 DEF ClearLock, Goto, TypeOK, LockInv, CallInv
<1>10. CASE Swap
  BY <1>10 DEF Swap, Goto, TypeOK, LockInv, CallInv
<1>11. CASE ResetCount
  BY <1>11 DEF ResetCount, Goto, TypeOK, LockInv, CallInv
<1>12. CASE UNCHANGED vars
  BY <1>12 DEF vars, LockInv, CallInv
<1> QED
  BY <1>1, <1>2, <1>3, <1>4, <1>5, <1>6, <1>7, <1>8, <1>9, <1>10, <1>11, <1>12
  DEF Next, Proceed, FinishClear

\* A step that leaves the map and the counter alone, and moves nobody to or
\* from the lines between Store and Count or Swap and ResetCount.
LEMMA QuietStep ==
  ASSUME CountInv, WithinLimit, UNCHANGED <<requestStates, requestCount>>,
         \A c \in Callers : pc'[c] = "count" <=> pc[c] = "count",
         pc'[Flusher] = "reset" <=> pc[Flusher] = "reset"
  PROVE  CountInv' /\ WithinLimit'
<1>1. Registered' = Registered
  BY DEF Registered
<1> QED
  BY <1>1 DEF CountInv, WithinLimit, Room

\* Every step keeps the counter in step with the map, and the map in bounds.
LEMMA CountStep ==
  ASSUME StatesInv, [Next]_vars
  PROVE  CountInv' /\ WithinLimit'
<1> USE StatesAssumption DEF StatesInv
<1> DEFINE Goal == CountInv' /\ WithinLimit'
<1>0. IsFiniteSet(Registered) /\ Cardinality(Registered) \in Nat
  BY FS_Subset, FS_CardinalityType DEF Registered
<1>1. ASSUME NEW c \in Callers, NEW r \in Requests, Load(c, r) PROVE Goal
  BY <1>1, QuietStep DEF Load, Goto, TypeOK
<1>2. ASSUME NEW c \in Callers, CheckRoom(c) PROVE Goal
  BY <1>2, QuietStep DEF CheckRoom, Goto, TypeOK
<1>3. ASSUME NEW c \in Callers, Lock(c) PROVE Goal
  BY <1>3, QuietStep DEF Lock, Goto, TypeOK
<1>4. ASSUME NEW c \in Callers, RecheckFinds(c) PROVE Goal
  BY <1>4, QuietStep DEF RecheckFinds, Goto, TypeOK
<1>5. ASSUME NEW c \in Callers, RecheckFull(c) PROVE Goal
  BY <1>5, QuietStep DEF RecheckFull, Goto, TypeOK
<1>6. ASSUME NEW c \in Callers, Store(c) PROVE Goal
  <2>1. /\ request[c] \in Requests
        /\ requestStates[request[c]] = None
        /\ requestCount < LimitPerService
        /\ UNCHANGED requestCount
    BY <1>6 DEF Store, CallInv, Absent, RoomLeft
  <2>2. NewSampler(c) # None
    BY <2>1, NewSamplerType
  <2>3. requestStates' = [requestStates EXCEPT ![request[c]] = NewSampler(c)]
    BY <1>6 DEF Store
  <2>4. Registered' = Registered \cup {request[c]} /\ request[c] \notin Registered
    BY <2>1, <2>2, <2>3 DEF Registered, TypeOK
  <2>5. Cardinality(Registered') = Cardinality(Registered) + 1
    BY <2>4, <1>0, FS_AddElement
  <2>6. /\ writer = c
        /\ pc[Flusher] # "reset"
        /\ \A other \in Callers : pc[other] # "count"
    BY <1>6 DEF Store, LockInv, HoldsLock
  <2>7. requestCount = Cardinality(Registered)
    BY <2>6 DEF CountInv
  <2>8. /\ pc'[c] = "count"
        /\ pc'[Flusher] # "reset"
        /\ \A other \in Callers \ {c} : pc'[other] # "count"
    BY <1>6, <2>6 DEF Store, Goto, TypeOK
  <2>9. CountInv'
    BY <2>1, <2>5, <2>7, <2>8 DEF CountInv
  <2>10. WithinLimit'
    BY <2>1, <2>5, <2>7, <1>0 DEF WithinLimit, Room
  <2> QED
    BY <2>9, <2>10
<1>7. ASSUME NEW c \in Callers, Count(c) PROVE Goal
  <2>1. /\ requestCount + 1 = Cardinality(Registered)
        /\ requestCount' = requestCount + 1
        /\ Registered' = Registered
    BY <1>7 DEF Count, CountInv, Registered
  <2>2. /\ pc[Flusher] # "reset"
        /\ \A other \in Callers \ {c} : pc[other] # "count"
    BY <1>7 DEF Count, LockInv, HoldsLock
  <2>3. /\ pc'[Flusher] # "reset"
        /\ \A other \in Callers : pc'[other] # "count"
    BY <1>7, <2>2 DEF Count, Goto, TypeOK
  <2> QED
    BY <2>1, <2>3 DEF CountInv, WithinLimit, Room
<1>8. ASSUME NEW c \in Callers, Return(c) PROVE Goal
  BY <1>8, QuietStep DEF Return, Goto, TypeOK
<1>9. CASE ClearLock
  BY <1>9, QuietStep DEF ClearLock, Goto, TypeOK
<1>10. CASE Swap
  <2>1. Registered' = {}
    BY <1>10 DEF Swap, Registered
  <2>2. Cardinality(Registered') = 0
    BY <2>1, FS_EmptySet
  <2>3. \A c \in Callers : pc[c] # "count"
    BY <1>10 DEF Swap, LockInv, HoldsLock
  <2>4. /\ pc'[Flusher] = "reset"
        /\ \A c \in Callers : pc'[c] # "count"
    BY <1>10, <2>3 DEF Swap, Goto, TypeOK
  <2> QED
    BY <2>1, <2>2, <2>4 DEF CountInv, WithinLimit, Room
<1>11. CASE ResetCount
  <2>1. Registered' = {} /\ requestCount' = 0
    BY <1>11 DEF ResetCount, CountInv, Registered
  <2>2. Cardinality(Registered') = 0
    BY <2>1, FS_EmptySet
  <2>3. \A c \in Callers : pc[c] # "count"
    BY <1>11 DEF ResetCount, LockInv, HoldsLock
  <2>4. /\ pc'[Flusher] # "reset"
        /\ \A c \in Callers : pc'[c] # "count"
    BY <1>11, <2>3 DEF ResetCount, Goto, TypeOK
  <2> QED
    BY <2>1, <2>2, <2>4 DEF CountInv, WithinLimit, Room
<1>12. CASE UNCHANGED vars
  BY <1>12, QuietStep DEF vars
<1> QED
  BY <1>1, <1>2, <1>3, <1>4, <1>5, <1>6, <1>7, <1>8, <1>9, <1>10, <1>11, <1>12
  DEF Next, Proceed, FinishClear

\* No step takes a sampler out of the map but into the flusher's hands.
LEMMA LostStep ==
  ASSUME StatesInv, [Next]_vars
  PROVE  NoSamplerLost'
<1> USE StatesAssumption DEF StatesInv
<1>1. ASSUME NEW c \in Callers, NEW r \in Requests, Load(c, r)
      PROVE  NoSamplerLost'
  BY <1>1 DEF Load, TypeOK, NoSamplerLost
<1>2. ASSUME NEW c \in Callers, CheckRoom(c) PROVE NoSamplerLost'
  BY <1>2 DEF CheckRoom, NoSamplerLost
<1>3. ASSUME NEW c \in Callers, Lock(c) PROVE NoSamplerLost'
  BY <1>3 DEF Lock, NoSamplerLost
<1>4. ASSUME NEW c \in Callers, RecheckFinds(c) PROVE NoSamplerLost'
  BY <1>4 DEF RecheckFinds, TypeOK, NoSamplerLost
<1>5. ASSUME NEW c \in Callers, RecheckFull(c) PROVE NoSamplerLost'
  BY <1>5 DEF RecheckFull, NoSamplerLost
<1>6. ASSUME NEW c \in Callers, Store(c) PROVE NoSamplerLost'
  <2>1. /\ requestStates[request[c]] = None
        /\ request[c] \in Requests
        /\ requestStates' = [requestStates EXCEPT ![request[c]] = NewSampler(c)]
        /\ result' = [result EXCEPT ![c] = NewSampler(c)]
        /\ UNCHANGED <<request, taken>>
    BY <1>6 DEF Store, Absent, CallInv
  <2> SUFFICES ASSUME NEW d \in Callers, result'[d] # None
               PROVE  result'[d] \in taken \/ requestStates'[request[d]] = result'[d]
    BY <2>1 DEF NoSamplerLost
  <2>2. CASE d = c
    BY <2>1, <2>2 DEF TypeOK
  <2>3. CASE d # c
    BY <2>1, <2>3 DEF TypeOK, NoSamplerLost
  <2> QED
    BY <2>2, <2>3
<1>7. ASSUME NEW c \in Callers, Count(c) PROVE NoSamplerLost'
  BY <1>7 DEF Count, NoSamplerLost
<1>8. ASSUME NEW c \in Callers, Return(c) PROVE NoSamplerLost'
  BY <1>8 DEF Return, TypeOK, NoSamplerLost
<1>9. CASE ClearLock
  BY <1>9 DEF ClearLock, NoSamplerLost
<1>10. CASE Swap
  <2> SUFFICES ASSUME NEW c \in Callers, result[c] # None
               PROVE  result[c] \in taken'
    BY <1>10 DEF Swap, NoSamplerLost
  <2>1. CASE result[c] \in taken
    BY <1>10, <2>1 DEF Swap
  <2>2. CASE requestStates[request[c]] = result[c] /\ pc[c] # "idle"
    BY <1>10, <2>2 DEF Swap, CallInv, Registered
  <2>3. CASE requestStates[request[c]] = result[c] /\ pc[c] = "idle"
    BY <2>3 DEF CallInv
  <2> QED
    BY <2>1, <2>2, <2>3 DEF NoSamplerLost
<1>11. CASE ResetCount
  BY <1>11 DEF ResetCount, NoSamplerLost
<1>12. CASE UNCHANGED vars
  BY <1>12 DEF vars, NoSamplerLost
<1> QED
  BY <1>1, <1>2, <1>3, <1>4, <1>5, <1>6, <1>7, <1>8, <1>9, <1>10, <1>11, <1>12
  DEF Next, Proceed, FinishClear

\* StatesInv is inductive.
THEOREM StatesInvariant == Spec => []StatesInv
<1>1. StatesInv /\ [Next]_vars => StatesInv'
  BY TypeStep, LockStep, CountStep, LostStep DEF StatesInv
<1> QED
  BY <1>1, InitEstablishesStatesInv, PTL DEF Spec

\* Type correctness.
THEOREM StatesTypeCorrect == Spec => []TypeOK
<1>1. StatesInv => TypeOK
  BY DEF StatesInv
<1> QED
  BY <1>1, StatesInvariant, PTL

\* The counter of a service tells the size of its map.
THEOREM StatesCount == Spec => []CountIsSize
<1>1. StatesInv => CountIsSize
  <2> SUFFICES ASSUME StatesInv, writer = None
               PROVE  requestCount = Cardinality(Registered)
    BY DEF CountIsSize
  <2>1. \A g \in Callers \cup {Flusher} : ~HoldsLock(g)
    BY StatesAssumption DEF StatesInv, LockInv
  <2> QED
    BY <2>1 DEF StatesInv, CountInv, HoldsLock
<1> QED
  BY <1>1, StatesInvariant, PTL

\* A service has no more request contexts than its limit.
THEOREM StatesWithinLimit == Spec => []WithinLimit
<1>1. StatesInv => WithinLimit
  BY DEF StatesInv
<1> QED
  BY <1>1, StatesInvariant, PTL

\* No sampler a caller was given is overwritten in the map.
THEOREM StatesLoseNoSampler == Spec => []NoSamplerLost
<1>1. StatesInv => NoSamplerLost
  BY DEF StatesInv
<1> QED
  BY <1>1, StatesInvariant, PTL

\* Between two clears a request keeps its sampler.
THEOREM StatesSamplerStable == Spec => SamplerStable
<1> DEFINE Stable ==
      \A r \in Requests :
        requestStates[r] # None /\ requestStates'[r] # requestStates[r] =>
          requestStates'[r] = None /\ requestStates[r] \in taken'
<1>1. StatesInv /\ [Next]_vars => [Stable]_vars
  <2> SUFFICES ASSUME StatesInv, Next, NEW r \in Requests,
                      requestStates[r] # None,
                      requestStates'[r] # requestStates[r]
               PROVE  requestStates'[r] = None /\ requestStates[r] \in taken'
    OBVIOUS
  <2>1. CASE \E c \in Callers : Store(c)
    BY <2>1 DEF Store, Absent, StatesInv, TypeOK
  <2>2. CASE Swap
    BY <2>2 DEF Swap, Registered
  <2>3. CASE UNCHANGED requestStates
    BY <2>3
  <2>4. \/ \E c \in Callers : Store(c)
        \/ Swap
        \/ UNCHANGED requestStates
    BY DEF Next, Proceed, FinishClear, Load, CheckRoom, Lock, RecheckFinds,
       RecheckFull, Count, Return, ClearLock, ResetCount
  <2> QED
    BY <2>1, <2>2, <2>3, <2>4
<1> QED
  BY <1>1, StatesInvariant, PTL DEF Spec, SamplerStable

-----------------------------------------------------------------------------

\* The initial states of the code are initial states of the registry.
LEMMA RegistryInit == Init => Registry!Init
BY DEF Init, Registry!Init, Stage

\* When the lock is free, or taken with nothing done yet, the counter and the
\* registry agree on whether there is room.
LEMMA CounterTellsRoom ==
  ASSUME StatesInv,
         writer = None \/ (\E c \in Callers : pc[c] = "recheck")
  PROVE  RoomLeft <=> Registry!HasRoom
<1>1. (\A c \in Callers : pc[c] # "count") /\ pc[Flusher] # "reset"
  BY StatesAssumption DEF StatesInv, LockInv, HoldsLock
<1>2. requestCount = Cardinality(Registered)
  BY <1>1 DEF StatesInv, CountInv
<1> QED
  BY <1>2 DEF RoomLeft, Registered, Registry!HasRoom, Registry!Registered,
     Cardinality, Registry!Cardinality

\* Every step of the code is a step of the registry or leaves it alone.
LEMMA RegistryStep ==
  ASSUME StatesInv, [Next]_vars
  PROVE  [Registry!Next]_(Registry!vars)
<1> USE StatesAssumption DEF StatesInv
<1> DEFINE stage == [c \in Callers |-> Stage(c)]
           Still == UNCHANGED <<requestStates, epoch, stage, request, result>>
<1>0. Still => UNCHANGED Registry!vars
  BY DEF Registry!vars
<1>1. ASSUME NEW c \in Callers, NEW r \in Requests, Load(c, r)
      PROVE  Registry!Next
  <2>1. CASE requestStates[r] # None
    <3>1. stage[c] = "idle" /\ stage' = [stage EXCEPT ![c] = "answered"]
      BY <1>1, <2>1 DEF Load, Goto, TypeOK, Stage
    <3>2. Registry!Hit(c, r)
      BY <1>1, <2>1, <3>1 DEF Load, Registry!Hit
    <3> QED
      BY <3>2 DEF Registry!Next
  <2>2. CASE requestStates[r] = None
    <3>1. stage[c] = "idle" /\ stage' = [stage EXCEPT ![c] = "missed"]
      BY <1>1, <2>2 DEF Load, Goto, TypeOK, Stage
    <3>2. Registry!Miss(c, r)
      BY <1>1, <2>2, <3>1 DEF Load, Registry!Miss
    <3> QED
      BY <3>2 DEF Registry!Next
  <2> QED
    BY <2>1, <2>2
<1>2. ASSUME NEW c \in Callers, CheckRoom(c) PROVE Registry!Next \/ Still
  <2>1. CASE RoomLeft
    BY <1>2, <2>1 DEF CheckRoom, Goto, TypeOK, Stage
  <2>2. CASE ~RoomLeft
    <3>1. stage[c] = "missed" /\ stage' = [stage EXCEPT ![c] = "answered"]
      BY <1>2, <2>2 DEF CheckRoom, Goto, TypeOK, Stage
    <3>2. ~Registry!HasRoom
      BY <1>2, <2>2, CounterTellsRoom DEF CheckRoom, Free
    <3>3. Registry!Resolve(c)
      BY <1>2, <3>1, <3>2 DEF CheckRoom, Registry!Resolve, Registry!Refuse
    <3> QED
      BY <3>3 DEF Registry!Next
  <2> QED
    BY <2>1, <2>2
<1>3. ASSUME NEW c \in Callers, Lock(c) PROVE Still
  BY <1>3 DEF Lock, Goto, TypeOK, Stage
<1>4. ASSUME NEW c \in Callers, RecheckFinds(c) PROVE Registry!Next
  <2>1. stage[c] = "missed" /\ stage' = [stage EXCEPT ![c] = "answered"]
    BY <1>4 DEF RecheckFinds, Goto, TypeOK, Stage
  <2>2. Registry!Find(c)
    BY <1>4 DEF RecheckFinds, Absent, Registry!Find
  <2>3. Registry!Resolve(c)
    BY <1>4, <2>1, <2>2 DEF RecheckFinds, Registry!Resolve
  <2> QED
    BY <2>3 DEF Registry!Next
<1>5. ASSUME NEW c \in Callers, RecheckFull(c) PROVE Registry!Next
  <2>1. stage[c] = "missed" /\ stage' = [stage EXCEPT ![c] = "answered"]
    BY <1>5 DEF RecheckFull, Goto, TypeOK, Stage
  <2>2. ~Registry!HasRoom
    BY <1>5, CounterTellsRoom DEF RecheckFull
  <2>3. Registry!Resolve(c)
    BY <1>5, <2>1, <2>2 DEF RecheckFull, Registry!Resolve, Registry!Refuse
  <2> QED
    BY <2>3 DEF Registry!Next
<1>6. ASSUME NEW c \in Callers, Store(c) PROVE Registry!Next
  <2>1. stage[c] = "missed" /\ stage' = [stage EXCEPT ![c] = "answered"]
    BY <1>6 DEF Store, Goto, TypeOK, Stage
  <2>2. Registry!HasRoom
    BY <1>6, CounterTellsRoom DEF Store
  <2>3. request[c] \in Requests
    BY <1>6 DEF Store, CallInv
  <2>4. Registry!Create(c)
    BY <1>6, <2>2, <2>3 DEF Store, Absent, NewSampler, TypeOK, Registry!Create
  <2>5. Registry!Resolve(c)
    BY <1>6, <2>1, <2>4 DEF Store, Registry!Resolve
  <2> QED
    BY <2>5 DEF Registry!Next
<1>7. ASSUME NEW c \in Callers, Count(c) PROVE Still
  BY <1>7 DEF Count, Goto, TypeOK, Stage
<1>8. ASSUME NEW c \in Callers, Return(c) PROVE Registry!Next
  <2>1. stage[c] = "answered" /\ stage' = [stage EXCEPT ![c] = "idle"]
    BY <1>8 DEF Return, Goto, TypeOK, Stage
  <2>2. Registry!Return(c)
    BY <1>8, <2>1 DEF Return, Registry!Return
  <2> QED
    BY <2>2 DEF Registry!Next
<1>9. ASSUME ClearLock PROVE Still
  BY <1>9 DEF ClearLock, Goto, TypeOK, Stage
<1>10. ASSUME Swap PROVE Registry!Next \/ Still
  <2>1. stage' = stage
    BY <1>10 DEF Swap, Goto, TypeOK, Stage
  <2>2. CASE Registered = {}
    <3>1. requestStates = [r \in Requests |-> None]
      BY <2>2 DEF Registered, TypeOK
    <3> QED
      BY <1>10, <2>1, <2>2, <3>1 DEF Swap
  <2>3. CASE Registered # {}
    <3>1. Registry!Registered # {}
      BY <2>3 DEF Registered, Registry!Registered
    <3>2. Registry!Clear
      BY <1>10, <2>1, <2>3, <3>1 DEF Swap, Registry!Clear
    <3> QED
      BY <3>2 DEF Registry!Next
  <2> QED
    BY <2>2, <2>3
<1>11. ASSUME ResetCount PROVE Still
  BY <1>11 DEF ResetCount, Goto, TypeOK, Stage
<1>12. ASSUME UNCHANGED vars PROVE Still
  BY <1>12 DEF vars, Stage
<1> QED
  BY <1>0, <1>1, <1>2, <1>3, <1>4, <1>5, <1>6, <1>7, <1>8, <1>9, <1>10, <1>11,
     <1>12
  DEF Next, Proceed, FinishClear

\* The locks and the counter of serviceQueues implement RequestRegistry.
THEOREM StatesImplementRegistry == Spec => ImplementsRegistry
<1>1. StatesInv /\ [Next]_vars => [Registry!Next]_(Registry!vars)
  BY RegistryStep
<1> QED
  BY <1>1, RegistryInit, StatesInvariant, PTL
  DEF Spec, ImplementsRegistry, Registry!Spec
=============================================================================
