--------------------------- MODULE RequestRegistry ---------------------------
(***************************************************************************)
(* What getRequestState and clearRequestStates (service_queue.go) promise  *)
(* the sampler, without their locks and counters.  A service has at most   *)
(* LimitPerService registered requests, each with one traceSampler, until  *)
(* the flusher takes them all away.                                        *)
(*                                                                         *)
(* A call takes effect in one or two steps.  It hits if the request is     *)
(* registered; else it is resolved at a later moment, and at that moment   *)
(* it finds the sampler another caller registered in between, registers    *)
(* one of its own where there is room, or comes back with nothing because  *)
(* there is no room.  The last may happen to a request another caller has  *)
(* just registered, and the sampler has to live with that.                 *)
(*                                                                         *)
(* A traceSampler is named by its request, the number of clears before it  *)
(* and the caller that registered it.                                      *)
(***************************************************************************)
EXTENDS Integers, FiniteSets

CONSTANTS
  Callers,            \* goroutines in ConsumeTraces
  Requests,           \* request contexts
  LimitPerService,    \* config.LimitPerService
  None                \* the nil sampler; no request

VARIABLES
  registry,   \* the sampler of each registered request, None for the others
  epoch,      \* number of clears that took something away
  stage,      \* how far the call of each caller is
  asked,      \* the request it is about, None between calls
  answer      \* its result, once it has one

vars == <<registry, epoch, stage, asked, answer>>

Registered == {request \in Requests : registry[request] # None}

HasRoom == Cardinality(Registered) < LimitPerService

Init ==
  /\ registry = [request \in Requests |-> None]
  /\ epoch = 0
  /\ stage = [c \in Callers |-> "idle"]
  /\ asked = [c \in Callers |-> None]
  /\ answer = [c \in Callers |-> None]

\* The call finds the request registered.
Hit(c, request) ==
  /\ stage[c] = "idle"
  /\ registry[request] # None
  /\ stage' = [stage EXCEPT ![c] = "answered"]
  /\ asked' = [asked EXCEPT ![c] = request]
  /\ answer' = [answer EXCEPT ![c] = registry[request]]
  /\ UNCHANGED <<registry, epoch>>

\* The call does not find it.
Miss(c, request) ==
  /\ stage[c] = "idle"
  /\ registry[request] = None
  /\ stage' = [stage EXCEPT ![c] = "missed"]
  /\ asked' = [asked EXCEPT ![c] = request]
  /\ answer' = [answer EXCEPT ![c] = None]
  /\ UNCHANGED <<registry, epoch>>

\* A second look: someone else has registered the request.
Find(c) ==
  /\ registry[asked[c]] # None
  /\ answer' = [answer EXCEPT ![c] = registry[asked[c]]]
  /\ UNCHANGED registry

Create(c) ==
  /\ registry[asked[c]] = None
  /\ HasRoom
  /\ registry' = [registry EXCEPT ![asked[c]] = <<asked[c], epoch, c>>]
  /\ answer' = [answer EXCEPT ![c] = registry'[asked[c]]]

Refuse ==
  /\ ~HasRoom
  /\ UNCHANGED <<registry, answer>>

Resolve(c) ==
  /\ stage[c] = "missed"
  /\ Find(c) \/ Create(c) \/ Refuse
  /\ stage' = [stage EXCEPT ![c] = "answered"]
  /\ UNCHANGED <<epoch, asked>>

\* The caller goes on with the sampler it was given, or without one.
Return(c) ==
  /\ stage[c] = "answered"
  /\ stage' = [stage EXCEPT ![c] = "idle"]
  /\ asked' = [asked EXCEPT ![c] = None]
  /\ answer' = [answer EXCEPT ![c] = None]
  /\ UNCHANGED <<registry, epoch>>

\* The flusher takes all samplers; calls under way are not disturbed.
Clear ==
  /\ Registered # {}
  /\ registry' = [request \in Requests |-> None]
  /\ epoch' = epoch + 1
  /\ UNCHANGED <<stage, asked, answer>>

Next ==
  \/ \E c \in Callers :
       \/ \E request \in Requests : Hit(c, request) \/ Miss(c, request)
       \/ Resolve(c)
       \/ Return(c)
  \/ Clear

Spec == Init /\ [][Next]_vars
=============================================================================
