----------------------------- MODULE TraceQueue -----------------------------
(***************************************************************************)
(* What a TraceQueue (priority_queue.go) promises its callers: of all the  *)
(* items pushed since the queue was created it keeps the maxSize ones of   *)
(* highest latency.  The heap is abstracted to the set of the items it     *)
(* holds; heap.Pop returns some item of least latency.  HeapQueue gives    *)
(* the array and the sift loops and is shown to implement this module.     *)
(*                                                                         *)
(* push holds the queue's mutex from its first line to its last, so one    *)
(* push is one step.  Every *Item is allocated by the call that pushes it, *)
(* so an item is pushed at most once.                                      *)
(***************************************************************************)
EXTENDS TraceItems

VARIABLES
  maxSize,    \* set when the queue is created
  pushed,     \* every item push was called with
  kept,       \* the items in the heap
  panicked    \* heap.Pop was called on an empty heap

vars == <<maxSize, pushed, kept, panicked>>

\* The items heap.Pop may return: those no other item of the heap is Less than.
Least(heap) ==
  {item \in heap : \A other \in heap : Latency[item] <= Latency[other]}

Init ==
  /\ maxSize \in {PerRequestLimit(limit) : limit \in Limits}
  /\ pushed = {}
  /\ kept = {}
  /\ panicked = FALSE

\* There is room: the new item is pushed whatever its latency.
PushWithRoom(item) ==
  /\ Cardinality(kept) # maxSize
  /\ pushed' = pushed \cup {item}
  /\ kept' = kept \cup {item}
  /\ UNCHANGED <<maxSize, panicked>>

\* The limit is reached: pop the least item and put it back if it is slower
\* than the new one; a tie goes to the new item.
PushAtLimit(item) ==
  /\ Cardinality(kept) = maxSize
  /\ pushed' = pushed \cup {item}
  /\ \E pop \in Least(kept) :
       kept' = IF Latency[pop] > Latency[item]
                 THEN kept
                 ELSE (kept \ {pop}) \cup {item}
  /\ UNCHANGED <<maxSize, panicked>>

\* With a limit of zero the empty heap is already "full": heap.Pop swaps
\* elements 0 and -1 and the goroutine, hence the collector, goes down.
PopEmpty ==
  /\ Cardinality(kept) = maxSize
  /\ kept = {}
  /\ panicked' = TRUE
  /\ UNCHANGED <<maxSize, pushed, kept>>

Push(item) ==
  /\ ~panicked
  /\ item \notin pushed
  /\ \/ PushWithRoom(item)
     \/ PushAtLimit(item)
     \/ PopEmpty

Next == \E item \in Items : Push(item)

Spec == Init /\ [][Next]_vars

-----------------------------------------------------------------------------

TypeOK ==
  /\ maxSize \in Int /\ maxSize <= 5
  /\ pushed \subseteq Items
  /\ kept \subseteq pushed
  /\ panicked \in BOOLEAN

\* With a positive limit a queue never holds more than that many traces,
\* whatever the order of the pushes (README: "Max traces per request").
WithinLimit == maxSize > 0 => Cardinality(kept) <= maxSize

\* No trace that was turned away or evicted is slower than a trace that is
\* still queued: what the flusher exports are the slowest traces of the
\* interval, not merely the latest.
KeepsSlowest ==
  \A dropped \in pushed \ kept : \A item \in kept :
    Latency[dropped] <= Latency[item]

\* A trace is turned away or evicted only by a queue that is, and stays,
\* filled to its limit: no push shrinks the heap for good.
DropsOnlyWhenFull == pushed # kept => Cardinality(kept) = maxSize

\* heap.Pop meets an empty heap only under a configured limit of zero.
PanicsOnlyAtZero == panicked => maxSize = 0

\* The conjunction is inductive: KeepsSlowest needs DropsOnlyWhenFull, since
\* a push into a queue with room would otherwise be let in below a dropped
\* trace.
QueueInv ==
  /\ TypeOK
  /\ IsFiniteSet(kept)
  /\ WithinLimit
  /\ KeepsSlowest
  /\ DropsOnlyWhenFull
  /\ PanicsOnlyAtZero
=============================================================================
