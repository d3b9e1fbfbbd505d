------------------------------ MODULE MCSampler ------------------------------
(***************************************************************************)
(* Two consumers and a service with room for one request and, in each      *)
(* queue, for two items.                                                   *)
(***************************************************************************)
EXTENDS Sampler

OK(latency) == [error |-> "no", latency |-> latency]
Rejected(latency) == [error |-> "client", latency |-> latency]

Seg(service, request, spans) ==
  [service |-> service, request |-> request, spans |-> spans]

MCThresholds == {5}

\* A failed trace that is slow when client errors are ignored, and a normal one
\* of the same request; a slow trace of another request that goes on, by way of
\* a segment with internal spans only, in theirs: the three may meet in one queue.
MCTraces == {"failed", "normal", "across"}

MCSegments ==
  [trace \in MCTraces |->
     CASE trace = "failed" -> <<Seg("s1", "r1", <<Rejected(6), OK(7)>>)>>
       [] trace = "normal" -> <<Seg("s1", "r1", <<OK(2)>>)>>
       [] trace = "across" -> <<Seg("s1", "r2", <<OK(1)>>),
                                Seg("s1", "r2", <<>>),
                                Seg("s1", "r1", <<OK(7)>>)>>]

\* A batch that meets a full service at its first or at its second trace,
\* against one trace through two requests.
MCBatches ==
  [c \in {"c1", "c2"} |->
     IF c = "c1" THEN << <<"failed", "normal">> >> ELSE << <<"across">> >>]
=============================================================================
