----------------------------- MODULE Thresholds -----------------------------
(***************************************************************************)
(* thresholdHelper (thresholds.go): the latency thresholds of the entities *)
(* whose traces the sampler looks at.  getThreshold registers the entity   *)
(* and answers from what is cached; every tick a goroutine of its own asks *)
(* the Asserts API server for the thresholds of all registered entities    *)
(* and stores the answer, one entity at a time.  A goroutine does not wait *)
(* for the one before it.                                                  *)
(*                                                                         *)
(* entityKeys and thresholds are concurrent maps and the default threshold *)
(* is under a lock of its own: each access is one step.                    *)
(***************************************************************************)
EXTENDS Integers, FiniteSets

CONSTANTS
  Entities,     \* entity keys
  Requests,     \* request contexts
  AnyRequest,   \* the empty request context
  Tables,       \* thresholds the server may have for an entity: the threshold
                \* of each context, None where it has none
  Defaults,     \* values of config.DefaultLatencyThreshold
  FirstServed,  \* bound: what the server may have when the processor starts
  FirstDefault, \* the default threshold of the first config
  Callers,      \* goroutines in sampleTraces
  Fetches,      \* bound: goroutines that fetch at the same time
  MaxChanges,   \* bound: changes of served, reachable and default
  None

Contexts == Requests \cup {AnyRequest}

ASSUME ThresholdAssumption ==
  /\ AnyRequest \notin Requests
  /\ None \notin Tables \cup Int
  /\ Defaults \subseteq Int
  /\ FirstDefault \in Defaults
  /\ FirstServed \subseteq [Entities -> Tables \cup {None}]
  /\ \A table \in Tables : table \in [Contexts -> Int \cup {None}]
  /\ MaxChanges \in Nat

VARIABLES
  served,       \* what the server has for each entity, None for nothing
  reachable,    \* whether the server answers within the client's timeout
  changes,
  entityKeys, thresholds, default,
  fetch,        \* each goroutine of updateThresholdsAsync
  running,      \* whether the goroutine of startUpdates runs
  stop,         \* whether stopUpdates waits to send
  pc, asked, table, answer,   \* the locals and the result of each call
  past,         \* history: all the server has had for each entity
  seen          \* history: tables and defaults in force during each call

world == <<served, reachable, changes, past>>
cache == <<entityKeys, thresholds, default>>
loop == <<fetch, running, stop>>
calls == <<pc, asked, table, answer>>

vars == <<world, cache, loop, calls, seen>>

NothingSeen == [tables |-> {}, defaults |-> {}]

Idle == [state |-> "idle", keys |-> {}, dtos |-> [e \in {} |-> None]]

Init ==
  /\ served \in FirstServed
  /\ reachable \in BOOLEAN
  /\ changes = 0
  /\ entityKeys = {}
  /\ thresholds = [e \in Entities |-> None]
  /\ default = FirstDefault
  /\ fetch = [f \in Fetches |-> Idle]
  /\ running = TRUE
  /\ stop = FALSE
  /\ pc = [c \in Callers |-> "out"]
  /\ asked = [c \in Callers |-> None]
  /\ table = [c \in Callers |-> None]
  /\ answer = [c \in Callers |-> None]
  /\ past = [e \in Entities |-> {served[e]}]
  /\ seen = [c \in Callers |-> NothingSeen]

\* What is in force once a step is taken has been seen by a call that is not
\* answered yet.
Witness ==
  seen' = [c \in Callers |->
             IF pc'[c] = "out" THEN NothingSeen
             ELSE IF pc[c] = "return" THEN seen[c]
             ELSE [tables |-> seen[c].tables \cup {thresholds'[asked'[c].entity]},
                   defaults |-> seen[c].defaults \cup {default'}]]

-----------------------------------------------------------------------------
\* The server and the config refresh

Change == changes < MaxChanges /\ changes' = changes + 1

Serve(e, t) ==
  /\ Change
  /\ t # served[e]
  /\ served' = [served EXCEPT ![e] = t]
  /\ past' = [past EXCEPT ![e] = @ \cup {t}]
  /\ UNCHANGED <<reachable, cache, loop, calls, seen>>

Reach ==
  /\ Change
  /\ reachable' = ~reachable
  /\ UNCHANGED <<served, past, cache, loop, calls, seen>>

\* onUpdate of the threshold helper.
UpdateDefault(d) ==
  /\ Change
  /\ d # default
  /\ default' = d
  /\ UNCHANGED <<served, reachable, past, entityKeys, thresholds, loop, calls>>
  /\ Witness

-----------------------------------------------------------------------------
\* getThreshold

\* buildEntityKey and LoadOrStore.
Call(c, e, r) ==
  /\ pc[c] = "out"
  /\ asked' = [asked EXCEPT ![c] = [entity |-> e, request |-> r]]
  /\ entityKeys' = entityKeys \cup {e}
  /\ pc' = [pc EXCEPT ![c] = "load"]
  /\ UNCHANGED <<world, thresholds, default, loop, table, answer>>
  /\ Witness

Load(c) ==
  /\ pc[c] = "load"
  /\ table' = [table EXCEPT ![c] = thresholds[asked[c].entity]]
  /\ pc' = [pc EXCEPT ![c] = "answer"]
  /\ UNCHANGED <<world, cache, loop, asked, answer>>
  /\ Witness

\* Mutant: the threshold for any request is preferred.
AnyRequestFirst(t, r, d) ==
  IF t = None THEN d
  ELSE IF t[AnyRequest] # None THEN t[AnyRequest]
  ELSE IF t[r] # None THEN t[r] ELSE d

\* Mutant: nothing checks that the table has a threshold for the request.
RequestUnchecked(t, r, d) == IF t = None THEN d ELSE t[r]

\* The threshold of the request, of any request, or the default.
Threshold(t, r, d) ==
  IF t = None THEN d
  ELSE IF t[r] # None THEN t[r]
  ELSE IF t[AnyRequest] # None THEN t[AnyRequest] ELSE d

\* getDefaultThreshold, the last step that looks at shared state.
Answer(c) ==
  /\ pc[c] = "answer"
  /\ answer' = [answer EXCEPT
       ![c] = Threshold(table[c], asked[c].request, default)]
  /\ pc' = [pc EXCEPT ![c] = "return"]
  /\ UNCHANGED <<world, cache, loop, asked, table>>
  /\ Witness

Return(c) ==
  /\ pc[c] = "return"
  /\ pc' = [pc EXCEPT ![c] = "out"]
  /\ asked' = [asked EXCEPT ![c] = None]
  /\ table' = [table EXCEPT ![c] = None]
  /\ answer' = [answer EXCEPT ![c] = None]
  /\ UNCHANGED <<world, cache, loop>>
  /\ Witness

-----------------------------------------------------------------------------
\* startUpdates and updateThresholdsAsync

\* Mutant: entities that have thresholds already are not asked for again.
KeysWithoutThresholds == {e \in entityKeys : thresholds[e] = None}

KeysToFetch == entityKeys

\* A tick with no entity registered is skipped.
Tick(f) ==
  /\ running
  /\ fetch[f].state = "idle"
  /\ KeysToFetch # {}
  /\ fetch' = [fetch EXCEPT ![f] =
                 [Idle EXCEPT !.state = "asking", !.keys = KeysToFetch]]
  /\ UNCHANGED <<world, cache, running, stop, calls, seen>>

\* The server answers with a DTO for each entity it has thresholds for.
Respond(f) ==
  LET found == {e \in fetch[f].keys : served[e] # None} IN
  /\ fetch[f].state = "asking"
  /\ reachable
  /\ fetch' = [fetch EXCEPT ![f].state = "storing",
                            ![f].dtos = [e \in found |-> served[e]]]
  /\ UNCHANGED <<world, cache, running, stop, calls, seen>>

\* An error, a timeout, a body that is no JSON: nothing is stored.
Fail(f) ==
  /\ fetch[f].state = "asking"
  /\ ~reachable
  /\ fetch' = [fetch EXCEPT ![f] = Idle]
  /\ UNCHANGED <<world, cache, running, stop, calls, seen>>

\* Mutant: every iteration stores under the key of another DTO.
AnyKey(f, e) == CHOOSE k \in fetch[f].keys : TRUE

KeyOf(f, e) == e

\* One iteration of the loop over the DTOs.
Store(f, e) ==
  LET rest == DOMAIN fetch[f].dtos \ {e} IN
  /\ fetch[f].state = "storing"
  /\ e \in DOMAIN fetch[f].dtos
  /\ thresholds' = [thresholds EXCEPT ![KeyOf(f, e)] = fetch[f].dtos[e]]
  /\ fetch' = [fetch EXCEPT ![f].dtos = [k \in rest |-> fetch[f].dtos[k]]]
  /\ UNCHANGED <<world, entityKeys, default, running, stop, calls>>
  /\ Witness

EndFetch(f) ==
  /\ fetch[f].state = "storing"
  /\ DOMAIN fetch[f].dtos = {}
  /\ fetch' = [fetch EXCEPT ![f] = Idle]
  /\ UNCHANGED <<world, cache, running, stop, calls, seen>>

StopUpdates ==
  /\ running
  /\ ~stop
  /\ stop' = TRUE
  /\ UNCHANGED <<world, cache, fetch, running, calls, seen>>

StopTaken == stop

\* The select takes the message; fetches that are out go on.
TakeStop ==
  /\ running
  /\ StopTaken
  /\ running' = FALSE
  /\ stop' = FALSE
  /\ UNCHANGED <<world, cache, fetch, calls, seen>>

Fetching(f) ==
  \/ Respond(f) \/ Fail(f) \/ EndFetch(f)
  \/ \E e \in Entities : Store(f, e)

Next ==
  \/ \E e \in Entities, t \in Tables \cup {None} : Serve(e, t)
  \/ Reach
  \/ \E d \in Defaults : UpdateDefault(d)
  \/ \E c \in Callers, e \in Entities, r \in Requests : Call(c, e, r)
  \/ \E c \in Callers : Load(c) \/ Answer(c) \/ Return(c)
  \/ \E f \in Fetches : Tick(f) \/ Fetching(f)
  \/ StopUpdates
  \/ TakeStop

Spec == Init /\ [][Next]_vars

\* The ticker ticks on, goroutines run, the HTTP client gives up after five
\* seconds, and a select with two ready cases picks either at random.
FairSpec ==
  /\ Spec
  /\ WF_vars(\E f \in Fetches : Tick(f))
  /\ \A f \in Fetches : WF_vars(Fetching(f))
  /\ \A c \in Callers : WF_vars(Load(c) \/ Answer(c) \/ Return(c))
  /\ SF_vars(TakeStop)

-----------------------------------------------------------------------------

TypeOK ==
  /\ served \in [Entities -> Tables \cup {None}]
  /\ reachable \in BOOLEAN
  /\ changes \in 0..MaxChanges
  /\ entityKeys \subseteq Entities
  /\ thresholds \in [Entities -> Tables \cup {None}]
  /\ default \in Defaults
  /\ \A f \in Fetches :
       /\ fetch[f].state \in {"idle", "asking", "storing"}
       /\ fetch[f].keys \subseteq entityKeys
       /\ DOMAIN fetch[f].dtos \subseteq fetch[f].keys
  /\ running \in BOOLEAN
  /\ stop \in BOOLEAN
  /\ pc \in [Callers -> {"out", "load", "answer", "return"}]
  /\ table \in [Callers -> Tables \cup {None}]
  /\ \A c \in Callers :
       IF pc[c] = "return" THEN answer[c] \in Int ELSE answer[c] = None

\* What is cached for an entity is something the server has had for that
\* entity, and only entities a trace has named have anything cached.
ThresholdsOfEntity ==
  \A e \in Entities : thresholds[e] # None =>
    thresholds[e] \in past[e] /\ e \in entityKeys

\* The threshold a table and a default give a request, by precedence.
Reference(t, r, d) ==
  LET given == IF t = None THEN {}
               ELSE {x \in {r, AnyRequest} : t[x] # None} IN
  CASE r \in given -> t[r]
    [] given = {AnyRequest} -> t[AnyRequest]
    [] OTHER -> d

\* A call answers with what a table and a default that were in force during
\* the call say, however fetches and updates come in between: never with a mix
\* of two tables, and never with a default the table overrules.
AnswerFromItsTime ==
  \A c \in Callers : pc[c] = "return" =>
    \E t \in seen[c].tables, d \in seen[c].defaults :
      answer[c] = Reference(t, asked[c].request, d)

\* The strengthening the proofs need: what a fetch still has to store, what the
\* server has had, and what a call has seen.
Dtos == UNION {[found -> Tables] : found \in SUBSET Entities}

FetchStates ==
  [state : {"idle", "asking", "storing"}, keys : SUBSET Entities, dtos : Dtos]

FetchInv ==
  /\ fetch \in [Fetches -> FetchStates]
  /\ \A f \in Fetches : \A e \in DOMAIN fetch[f].dtos :
       fetch[f].dtos[e] \in past[e]

PastInv ==
  /\ past \in [Entities -> SUBSET (Tables \cup {None})]
  /\ \A e \in Entities : served[e] \in past[e]

CallInv ==
  /\ DOMAIN asked = Callers /\ DOMAIN answer = Callers
  /\ seen \in [Callers -> [tables : SUBSET (Tables \cup {None}),
                            defaults : SUBSET Defaults]]
  /\ \A c \in Callers : pc[c] # "out" =>
       asked[c] \in [entity : Entities, request : Requests]
  /\ \A c \in Callers : pc[c] \in {"load", "answer"} =>
       /\ thresholds[asked[c].entity] \in seen[c].tables
       /\ default \in seen[c].defaults
       /\ pc[c] = "answer" => table[c] \in seen[c].tables

ThresholdsInv ==
  /\ TypeOK
  /\ FetchInv /\ PastInv /\ CallInv
  /\ ThresholdsOfEntity
  /\ AnswerFromItsTime

\* An answer that overtakes a later one does no lasting harm: when the server
\* can be reached and settles on the thresholds of an entity that is asked
\* for, these are the ones cached in the end.
ThresholdsCatchUp ==
  \A e \in Entities, t \in Tables :
    <>[](running /\ reachable /\ served[e] = t /\ e \in entityKeys)
      => <>[](thresholds[e] = t)
=============================================================================
