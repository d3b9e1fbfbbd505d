---------------------------- MODULE TraceAssembly ----------------------------
(***************************************************************************)
(* How the spans of a batch become traces (utils.go, trace.go): what a     *)
(* turn of the loops of convertToTraces does with a span, and what the     *)
(* flusher exports of a trace.  Processor takes the turns.                 *)
(*                                                                         *)
(* A batch is a sequence of groups, the ResourceSpans: a namespace, a      *)
(* service and the spans of all its scopes.  traceById and the segments of *)
(* its traces are one function, from the trace and what getSegment         *)
(* compares; a segment keeps the group it was made for.  The slices of     *)
(* spans in a segment are sets: nothing here depends on their order.       *)
(***************************************************************************)
EXTENDS Integers, Sequences

CONSTANTS
  Spans,      \* the spans that arrive
  Data,       \* of each span: trace, kind, name, attributes, and whether it
              \* has a parent
  NoService   \* the service of a resource without the attribute

ASSUME SpanAssumption ==
  \A s \in Spans :
    LET given == Data[s].attributes IN
    /\ Data[s].hasParent \in BOOLEAN
    /\ given = [name \in DOMAIN given |-> given[name]]

\* Where the spans of a batch are, and what is there.
Positions(b) == UNION {{i} \X DOMAIN b[i].spans : i \in DOMAIN b}

SpanAt(b, p) == b[p[1]].spans[p[2]]

\* The places the loops come to, all but those in a resource without a service,
\* and in what order.
Visited(b) == {p \in Positions(b) : b[p[1]].service # NoService}

Before(p, q) == p[1] < q[1] \/ (p[1] = q[1] /\ p[2] < q[2])

IsRoot(s) == ~Data[s].hasParent
IsEntry(s) == Data[s].kind \in {"Server", "Consumer"}
IsExit(s) == Data[s].kind \in {"Client", "Producer"}

\* The lists of spans a segment has.
Roles == {"root", "entry", "exit", "internal"}

Role(s) ==
  CASE IsRoot(s)                                 -> "root"
    [] ~IsRoot(s) /\ IsEntry(s)                  -> "entry"
    [] ~IsRoot(s) /\ IsExit(s)                   -> "exit"
    [] ~IsRoot(s) /\ ~IsEntry(s) /\ ~IsExit(s)   -> "internal"

\* Mutant: services of the same name in two namespaces are one.
ServiceOnly(group) == group.service

\* What getSegment compares.
SegmentKey(group) == <<group.namespace, group.service>>

Place(span, group) == <<Data[span].trace, SegmentKey(group)>>

\* traceById when it is made.
NoSegments == [place \in {} |-> {}]

NewSegment(group) ==
  [namespace |-> group.namespace, service |-> group.service,
   spans |-> [role \in Roles |-> {}]]

\* A root span takes the place of an earlier one.
WithSpan(spans, s) ==
  [spans EXCEPT ![Role(s)] = IF IsRoot(s) THEN {s} ELSE @ \cup {s}]

\* A turn of the innermost loop.
AddSpan(segments, span, group) ==
  LET place == Place(span, group)
      ts == IF place \in DOMAIN segments THEN segments[place] ELSE NewSegment(group)
  IN  [p \in DOMAIN segments \cup {place} |->
         IF p = place THEN [ts EXCEPT !.spans = WithSpan(@, span)]
                      ELSE segments[p]]

\* The traces: the segments of each trace ID.
TracesOf(segments) ==
  {{segments[p] : p \in {q \in DOMAIN segments : q[1] = place[1]}} :
     place \in DOMAIN segments}

NonInternalSpans(segment) ==
  segment.spans["root"] \cup segment.spans["entry"] \cup segment.spans["exit"]

InternalSpans(segment) == segment.spans["internal"]

\* A span with the namespace and service it is enriched or exported under.
At(span, segment) ==
  [span |-> span, namespace |-> segment.namespace, service |-> segment.service]

\* What the flusher exports of a trace: a group per segment, here each span
\* with its namespace and service.
BuildTrace(trace) ==
  UNION {{At(s, segment) : s \in NonInternalSpans(segment) \cup InternalSpans(segment)} :
           segment \in trace}

-----------------------------------------------------------------------------
(* What the loops have made of the places they came to so far              *)

PlaceOf(b, p) == Place(SpanAt(b, p), b[p[1]])

\* A root span is kept until another one of its segment comes.
Kept(b, places) ==
  {p \in places : ~\E q \in places :
     /\ Before(p, q) /\ PlaceOf(b, p) = PlaceOf(b, q)
     /\ IsRoot(SpanAt(b, p)) /\ IsRoot(SpanAt(b, q))}

SpansIn(b, places, place, role) ==
  {SpanAt(b, p) : p \in {q \in Kept(b, places) :
     PlaceOf(b, q) = place /\ Role(SpanAt(b, q)) = role}}

SegmentsOf(b, places) ==
  [place \in {PlaceOf(b, p) : p \in places} |->
     [namespace |-> place[2][1], service |-> place[2][2],
      spans |-> [role \in Roles |-> SpansIn(b, places, place, role)]]]
=============================================================================
