--------------------------- MODULE ThresholdsProofs ---------------------------
(***************************************************************************)
(* What a lookup answers and what is cached, for any number of entities,   *)
(* callers and fetches that overlap, and any course of the server.         *)
(***************************************************************************)
EXTENDS Thresholds, TLAPS

\* Every step is one of these.
LEMMA Cases ==
  ASSUME NEW P,
         \A e \in Entities, t \in Tables \cup {None} : Serve(e, t) => P,
         Reach => P,
         \A d \in Defaults : UpdateDefault(d) => P,
         \A c \in Callers, e \in Entities, r \in Requests : Call(c, e, r) => P,
         \A c \in Callers : Load(c) => P,
         \A c \in Callers : Answer(c) => P,
         \A c \in Callers : Return(c) => P,
         \A f \in Fetches : Tick(f) => P,
         \A f \in Fetches : Respond(f) => P,
         \A f \in Fetches : Fail(f) => P,
         \A f \in Fetches, e \in Entities : Store(f, e) => P,
         \A f \in Fetches : EndFetch(f) => P,
         StopUpdates => P,
         TakeStop => P,
         UNCHANGED vars => P,
         [Next]_vars
  PROVE  P
BY DEF Next, Fetching

\* getThreshold's ifs give what the precedence says.
LEMMA ThresholdIsReference ==
  ASSUME NEW t \in Tables \cup {None}, NEW r \in Requests, NEW d \in Defaults
  PROVE  /\ Threshold(t, r, d) = Reference(t, r, d)
         /\ Threshold(t, r, d) \in Int
<1> USE ThresholdAssumption DEF Threshold, Contexts
<1>1. Threshold(t, r, d) \in Int
  OBVIOUS
<1>2. CASE t = None
  BY <1>2 DEF Reference
<1>3. CASE t # None /\ t[r] # None
  BY <1>3 DEF Reference
<1>4. CASE t # None /\ t[r] = None /\ t[AnyRequest] # None
  <2>1. {x \in {r, AnyRequest} : t[x] # None} = {AnyRequest}
    BY <1>4
  <2> QED
    BY <1>4, <2>1 DEF Reference
<1>5. CASE t # None /\ t[r] = None /\ t[AnyRequest] = None
  <2>1. {x \in {r, AnyRequest} : t[x] # None} = {}
    BY <1>5
  <2> QED
    BY <1>5, <2>1 DEF Reference
<1> QED
  BY <1>1, <1>2, <1>3, <1>4, <1>5

\* A goroutine that does nothing, and what its state is made of.
LEMMA FetchTypes ==
  /\ Idle \in FetchStates
  /\ \A x \in FetchStates :
       /\ DOMAIN x.dtos \in SUBSET Entities
       /\ \A e \in DOMAIN x.dtos : x.dtos[e] \in Tables
  /\ \A x \in FetchStates, found \in SUBSET Entities : \A dtos \in [found -> Tables] :
       /\ [x EXCEPT !.dtos = dtos] \in FetchStates
       /\ [x EXCEPT !.state = "storing", !.dtos = dtos] \in FetchStates
<1>1. \A found \in SUBSET Entities : [found -> Tables] \subseteq Dtos
  BY DEF Dtos
<1>2. [e \in {} |-> None] \in [{} -> Tables]
  OBVIOUS
<1>3. [e \in {} |-> None] \in Dtos
  BY <1>1, <1>2
<1>4. \A dtos \in Dtos : /\ DOMAIN dtos \in SUBSET Entities
                         /\ \A e \in DOMAIN dtos : dtos[e] \in Tables
  BY DEF Dtos
<1> QED
  BY <1>1, <1>3, <1>4 DEF FetchStates, Idle

-----------------------------------------------------------------------------

\* Every step leaves the fetches with what the server has had.
LEMMA FetchStep ==
  ASSUME ThresholdsInv, [Next]_vars
  PROVE  FetchInv' /\ PastInv'
<1> DEFINE Inv == FetchInv /\ PastInv
<1> USE ThresholdAssumption DEF ThresholdsInv
<1>1. ASSUME NEW e \in Entities, NEW t \in Tables \cup {None}, Serve(e, t)
      PROVE  Inv'
  BY <1>1 DEF Serve, FetchInv, PastInv, TypeOK, loop
<1>2. ASSUME UNCHANGED <<fetch, served, past>> PROVE Inv'
  BY <1>2 DEF FetchInv, PastInv
<1>3. ASSUME NEW f \in Fetches, NEW x \in FetchStates,
             \A e \in DOMAIN x.dtos : x.dtos[e] \in past[e],
             fetch' = [fetch EXCEPT ![f] = x], UNCHANGED world
      PROVE  Inv'
  BY <1>3 DEF FetchInv, PastInv, world
<1>4. ASSUME NEW f \in Fetches, fetch' = [fetch EXCEPT ![f] = Idle],
             UNCHANGED world
      PROVE  Inv'
  <2>1. DOMAIN Idle.dtos = {}
    BY DEF Idle
  <2> QED
    BY <1>3, <1>4, <2>1, FetchTypes
<1>5. ASSUME NEW f \in Fetches, Tick(f) PROVE Inv'
  <2> DEFINE x == [Idle EXCEPT !.state = "asking", !.keys = KeysToFetch]
  <2>1. x \in FetchStates /\ DOMAIN x.dtos = {}
    BY FetchTypes DEF Idle, FetchStates, KeysToFetch, TypeOK
  <2>2. fetch' = [fetch EXCEPT ![f] = x] /\ UNCHANGED world
    BY <1>5 DEF Tick
  <2> HIDE DEF x
  <2> QED
    BY <1>3, <2>1, <2>2
<1>6. ASSUME NEW f \in Fetches, Respond(f) PROVE Inv'
  <2> DEFINE found == {e \in fetch[f].keys : served[e] # None}
             dtos == [e \in found |-> served[e]]
             x == [fetch[f] EXCEPT !.state = "storing", !.dtos = dtos]
  <2>1. fetch[f] \in FetchStates
    BY DEF FetchInv
  <2>2. found \in SUBSET Entities /\ dtos \in [found -> Tables]
    BY <2>1 DEF FetchStates, TypeOK
  <2>3. x \in FetchStates
    BY <2>1, <2>2, FetchTypes
  <2>4. x.dtos = dtos
    BY <2>1 DEF FetchStates
  <2>5. \A e \in DOMAIN x.dtos : x.dtos[e] \in past[e]
    BY <2>2, <2>4 DEF PastInv
  <2>6. fetch' = [fetch EXCEPT ![f] = x] /\ UNCHANGED world
    BY <1>6, <2>1 DEF Respond, FetchInv, FetchStates
  <2> HIDE DEF x
  <2> QED
    BY <1>3, <2>3, <2>5, <2>6
<1>7. ASSUME NEW f \in Fetches, NEW e \in Entities, Store(f, e) PROVE Inv'
  <2> DEFINE rest == DOMAIN fetch[f].dtos \ {e}
             dtos == [k \in rest |-> fetch[f].dtos[k]]
             x == [fetch[f] EXCEPT !.dtos = dtos]
  <2>1. fetch[f] \in FetchStates
    BY DEF FetchInv
  <2>2. rest \in SUBSET Entities /\ dtos \in [rest -> Tables]
    BY <2>1, FetchTypes
  <2>3. x \in FetchStates
    BY <2>1, <2>2, FetchTypes
  <2>4. x.dtos = dtos
    BY <2>1 DEF FetchStates
  <2>5. \A k \in DOMAIN x.dtos : x.dtos[k] \in past[k]
    BY <2>4 DEF FetchInv
  <2>6. fetch' = [fetch EXCEPT ![f] = x] /\ UNCHANGED world
    BY <1>7, <2>1 DEF Store, FetchInv, FetchStates
  <2> HIDE DEF x
  <2> QED
    BY <1>3, <2>3, <2>5, <2>6
<1> QED
  BY <1>1, <1>2, <1>4, <1>5, <1>6, <1>7, Cases
  DEF Reach, UpdateDefault, Call, Load, Answer, Return, Fail, EndFetch,
      StopUpdates, TakeStop, vars, world, loop

\* Every step keeps the types.
LEMMA TypeStep ==
  ASSUME ThresholdsInv, [Next]_vars
  PROVE  TypeOK'
<1> USE ThresholdAssumption
    DEF ThresholdsInv, TypeOK, world, cache, loop, calls
<1>1. ASSUME NEW e \in Entities, NEW t \in Tables \cup {None}, Serve(e, t)
      PROVE  TypeOK'
  BY <1>1 DEF Serve, Change
<1>2. ASSUME Reach PROVE TypeOK'
  BY <1>2 DEF Reach, Change
<1>3. ASSUME NEW d \in Defaults, UpdateDefault(d) PROVE TypeOK'
  BY <1>3 DEF UpdateDefault, Change
<1>4. ASSUME NEW c \in Callers, NEW e \in Entities, NEW r \in Requests,
             Call(c, e, r)
      PROVE  TypeOK'
  BY <1>4 DEF Call
<1>5. ASSUME NEW c \in Callers, Load(c) PROVE TypeOK'
  BY <1>5 DEF Load, CallInv
<1>6. ASSUME NEW c \in Callers, Answer(c) PROVE TypeOK'
  <2>1. Threshold(table[c], asked[c].request, default) \in Int
    BY <1>6, ThresholdIsReference DEF Answer, CallInv
  <2> QED
    BY <1>6, <2>1 DEF Answer, CallInv
<1>7. ASSUME NEW c \in Callers, Return(c) PROVE TypeOK'
  BY <1>7 DEF Return, CallInv
<1>8. ASSUME NEW f \in Fetches, Tick(f) PROVE TypeOK'
  BY <1>8 DEF Tick, Idle, KeysToFetch, FetchInv
<1>9. ASSUME NEW f \in Fetches, Respond(f) PROVE TypeOK'
  BY <1>9 DEF Respond, FetchInv, FetchStates
<1>10. ASSUME NEW f \in Fetches, fetch' = [fetch EXCEPT ![f] = Idle],
              UNCHANGED <<world, cache, running, stop, calls>>
       PROVE  TypeOK'
  BY <1>10 DEF Idle, FetchInv
<1>11. ASSUME NEW f \in Fetches, NEW e \in Entities, Store(f, e) PROVE TypeOK'
  <2>1. fetch[f].dtos[e] \in Tables
    BY <1>11, FetchTypes DEF Store, FetchInv
  <2> QED
    BY <1>11, <2>1 DEF Store, KeyOf, FetchInv, FetchStates
<1>12. ASSUME StopUpdates \/ TakeStop PROVE TypeOK'
  BY <1>12 DEF StopUpdates, TakeStop
<1>13. ASSUME UNCHANGED vars PROVE TypeOK'
  BY <1>13 DEF vars
<1> QED
  BY <1>1, <1>2, <1>3, <1>4, <1>5, <1>6, <1>7, <1>8, <1>9, <1>10, <1>11,
     <1>12, <1>13, Cases
  DEF Fail, EndFetch

\* Every step leaves an entity with thresholds of its own.
LEMMA EntityStep ==
  ASSUME ThresholdsInv, [Next]_vars
  PROVE  ThresholdsOfEntity'
<1> USE DEF ThresholdsInv, ThresholdsOfEntity, TypeOK, world, cache, loop
<1>1. ASSUME NEW e \in Entities, NEW t \in Tables \cup {None}, Serve(e, t)
      PROVE  ThresholdsOfEntity'
  BY <1>1 DEF Serve, PastInv
<1>2. ASSUME UNCHANGED <<past, thresholds>>, entityKeys \subseteq entityKeys'
      PROVE  ThresholdsOfEntity'
  BY <1>2
<1>3. ASSUME NEW f \in Fetches, NEW e \in Entities, Store(f, e)
      PROVE  ThresholdsOfEntity'
  BY <1>3 DEF Store, KeyOf, FetchInv
<1> QED
  BY <1>1, <1>2, <1>3, Cases
  DEF Reach, UpdateDefault, Call, Load, Answer, Return, Tick, Respond, Fail,
      EndFetch, StopUpdates, TakeStop, vars

-----------------------------------------------------------------------------

\* What is in force after a step that a call is in the middle of, the call has
\* seen, and it forgets nothing it has seen.
LEMMA WitnessStep ==
  ASSUME ThresholdsInv, Witness, TypeOK', DOMAIN asked' = Callers,
         NEW c \in Callers, pc'[c] # "out",
         asked'[c] \in [entity : Entities, request : Requests]
  PROVE  /\ seen'[c] \in [tables : SUBSET (Tables \cup {None}),
                          defaults : SUBSET Defaults]
         /\ seen[c].tables \subseteq seen'[c].tables
         /\ seen[c].defaults \subseteq seen'[c].defaults
         /\ pc[c] # "return" =>
              /\ thresholds'[asked'[c].entity] \in seen'[c].tables
              /\ default' \in seen'[c].defaults
BY DEF ThresholdsInv, Witness, TypeOK, CallInv

\* Every step leaves the calls with what they have seen, and an answered one
\* with an answer from it.
LEMMA CallStep ==
  ASSUME ThresholdsInv, [Next]_vars
  PROVE  CallInv' /\ AnswerFromItsTime'
<1> DEFINE Inv == CallInv /\ AnswerFromItsTime
<1>1. TypeOK'
  BY TypeStep
<1>2. ASSUME UNCHANGED <<calls, seen, thresholds, default>> PROVE Inv'
  BY <1>2 DEF ThresholdsInv, CallInv, AnswerFromItsTime, calls
<1>3. ASSUME Witness, DOMAIN asked' = Callers, DOMAIN answer' = Callers,
             \A c \in Callers : pc'[c] # "out" =>
               asked'[c] \in [entity : Entities, request : Requests],
             \A c \in Callers : pc'[c] = "answer" =>
               table'[c] \in seen'[c].tables,
             \A c \in Callers : pc'[c] \in {"load", "answer"} =>
               pc[c] # "return",
             AnswerFromItsTime'
      PROVE  Inv'
  <2>1. seen' \in [Callers -> [tables : SUBSET (Tables \cup {None}),
                               defaults : SUBSET Defaults]]
    <3>1. \A c \in Callers : seen'[c] \in [tables : SUBSET (Tables \cup {None}),
                                           defaults : SUBSET Defaults]
      <4> TAKE c \in Callers
      <4>1. CASE pc'[c] = "out"
        BY <1>3, <4>1 DEF Witness, NothingSeen
      <4>2. CASE pc'[c] # "out"
        BY <1>1, <1>3, <4>2, WitnessStep
      <4> QED
        BY <4>1, <4>2
    <3> QED
      BY <1>3, <3>1 DEF Witness
  <2>2. \A c \in Callers : pc'[c] \in {"load", "answer"} =>
          /\ thresholds'[asked'[c].entity] \in seen'[c].tables
          /\ default' \in seen'[c].defaults
    BY <1>1, <1>3, WitnessStep
  <2> QED
    BY <1>3, <2>1, <2>2 DEF CallInv
<1>4. ASSUME Witness, UNCHANGED calls PROVE Inv'
  <2>1. \A c \in Callers : pc[c] # "out" =>
          /\ seen[c].tables \subseteq seen'[c].tables
          /\ seen[c].defaults \subseteq seen'[c].defaults
    BY <1>1, <1>4, WitnessStep DEF ThresholdsInv, CallInv, calls
  <2>2. AnswerFromItsTime'
    BY <1>4, <2>1 DEF ThresholdsInv, AnswerFromItsTime, calls
  <2> QED
    BY <1>3, <1>4, <2>1, <2>2 DEF ThresholdsInv, CallInv, calls
<1>5. ASSUME NEW c \in Callers, Witness,
             \A d \in Callers \ {c} :
               /\ pc'[d] = pc[d] /\ asked'[d] = asked[d]
               /\ table'[d] = table[d] /\ answer'[d] = answer[d],
             DOMAIN asked' = Callers, DOMAIN answer' = Callers,
             pc'[c] # "out" =>
               asked'[c] \in [entity : Entities, request : Requests],
             pc'[c] = "answer" => table'[c] \in seen'[c].tables,
             pc'[c] \in {"load", "answer"} => pc[c] # "return",
             pc'[c] = "return" =>
               \E t \in seen'[c].tables, d \in seen'[c].defaults :
                 answer'[c] = Reference(t, asked'[c].request, d)
      PROVE  Inv'
  <2>1. \A d \in Callers : d # c /\ pc[d] # "out" =>
          /\ seen[d].tables \subseteq seen'[d].tables
          /\ seen[d].defaults \subseteq seen'[d].defaults
    BY <1>1, <1>5, WitnessStep DEF ThresholdsInv, CallInv
  <2>2. AnswerFromItsTime'
    BY <1>5, <2>1 DEF ThresholdsInv, AnswerFromItsTime
  <2> QED
    BY <1>3, <1>5, <2>1, <2>2 DEF ThresholdsInv, CallInv
<1>6. ASSUME NEW c \in Callers, NEW e \in Entities, NEW r \in Requests,
             Call(c, e, r)
      PROVE  Inv'
  BY <1>5, <1>6 DEF Call, ThresholdsInv, CallInv, TypeOK
<1>7. ASSUME NEW c \in Callers, Load(c) PROVE Inv'
  <2>1. table'[c] = thresholds'[asked'[c].entity] /\ pc'[c] = "answer"
    BY <1>7 DEF Load, cache, ThresholdsInv, TypeOK
  <2>2. table'[c] \in seen'[c].tables
    BY <1>1, <1>7, <2>1, WitnessStep
    DEF Load, ThresholdsInv, CallInv, TypeOK
  <2> QED
    BY <1>5, <1>7, <2>2 DEF Load, ThresholdsInv, CallInv, TypeOK
<1>8. ASSUME NEW c \in Callers, Answer(c) PROVE Inv'
  <2>1. /\ table[c] \in seen'[c].tables
        /\ default \in seen'[c].defaults
    BY <1>1, <1>8, WitnessStep DEF Answer, ThresholdsInv, CallInv, TypeOK
  <2>2. answer'[c] = Reference(table[c], asked'[c].request, default)
    BY <1>8, ThresholdIsReference DEF Answer, ThresholdsInv, CallInv, TypeOK
  <2> QED
    BY <1>5, <1>8, <2>1, <2>2 DEF Answer, ThresholdsInv, CallInv, TypeOK
<1>9. ASSUME NEW c \in Callers, Return(c) PROVE Inv'
  BY <1>5, <1>9 DEF Return, ThresholdsInv, CallInv, TypeOK
<1> QED
  BY <1>2, <1>4, <1>6, <1>7, <1>8, <1>9, Cases
  DEF Serve, Reach, UpdateDefault, Tick, Respond, Fail, Store, EndFetch,
      StopUpdates, TakeStop, vars, cache

-----------------------------------------------------------------------------

\* The invariant of the threshold helper.
THEOREM ThresholdsInvariant == Spec => []ThresholdsInv
<1>1. Init => ThresholdsInv
  <2> SUFFICES ASSUME Init PROVE ThresholdsInv
    OBVIOUS
  <2>1. FetchInv
    BY FetchTypes DEF Init, FetchInv, Idle
  <2>2. TypeOK
    <3>1. served \in [Entities -> Tables \cup {None}]
      BY ThresholdAssumption DEF Init
    <3>2. \A f \in Fetches :
            /\ fetch[f].state \in {"idle", "asking", "storing"}
            /\ fetch[f].keys \subseteq entityKeys
            /\ DOMAIN fetch[f].dtos \subseteq fetch[f].keys
      BY DEF Init, Idle
    <3>3. changes \in 0..MaxChanges /\ default \in Defaults
      BY ThresholdAssumption DEF Init
    <3>4. \A c \in Callers :
            IF pc[c] = "return" THEN answer[c] \in Int ELSE answer[c] = None
      BY DEF Init
    <3> QED
      BY <3>1, <3>2, <3>3, <3>4 DEF Init, TypeOK
  <2>3. PastInv /\ CallInv /\ ThresholdsOfEntity /\ AnswerFromItsTime
    BY ThresholdAssumption
    DEF Init, PastInv, CallInv, NothingSeen, ThresholdsOfEntity,
        AnswerFromItsTime
  <2> QED
    BY <2>1, <2>2, <2>3 DEF ThresholdsInv
<1>2. ThresholdsInv /\ [Next]_vars => ThresholdsInv'
  BY TypeStep, FetchStep, EntityStep, CallStep DEF ThresholdsInv
<1> QED
  BY <1>1, <1>2, PTL DEF Spec

\* Type correctness of the thresholds, the fetches and the calls.
THEOREM ThresholdsTypeCorrect == Spec => []TypeOK
BY ThresholdsInvariant, PTL DEF ThresholdsInv

\* No entity ever has thresholds cached that the server did not have for it.
THEOREM ThresholdsBelong == Spec => []ThresholdsOfEntity
BY ThresholdsInvariant, PTL DEF ThresholdsInv

\* Every lookup answers from one table and one default in force during it.
THEOREM ThresholdsAnswerFromTime == Spec => []AnswerFromItsTime
BY ThresholdsInvariant, PTL DEF ThresholdsInv
=============================================================================
