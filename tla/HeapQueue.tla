------------------------------ MODULE HeapQueue ------------------------------
(***************************************************************************)
(* TraceQueue as the code builds it: the slice of a PriorityQueue ordered  *)
(* by container/heap.  The heap is a sequence of items, element 0 of the   *)
(* slice at position 1; index is the field Swap, Push and Pop maintain on  *)
(* each Item, still zero-based.                                            *)
(*                                                                         *)
(* A sift loop of container/heap is its turns, each a function of the heap *)
(* and the place of the item on its way.                                   *)
(***************************************************************************)
EXTENDS TraceItems, Sequences

VARIABLES
  maxSize,          \* set when the queue is created
  pushed,           \* every item push was called with
  priorityQueue,    \* the slice
  index,            \* Item.index
  panicked

vars == <<maxSize, pushed, priorityQueue, index, panicked>>

-----------------------------------------------------------------------------
\* A heap operation takes and returns the slice and the index fields.

\* Mutant: the other way round.
More(pq, i, j) == Latency[pq[i]] > Latency[pq[j]]

Less(pq, i, j) == Latency[pq[i]] < Latency[pq[j]]

Swap(h, i, j) ==
  [pq    |-> [h.pq EXCEPT ![i] = h.pq[j], ![j] = h.pq[i]],
   index |-> [h.index EXCEPT ![h.pq[j]] = i - 1, ![h.pq[i]] = j - 1]]

\* PriorityQueue.Push: append the item and record its place.
PushBack(h, item) ==
  [pq    |-> Append(h.pq, item),
   index |-> [h.index EXCEPT ![item] = Len(h.pq)]]

\* PriorityQueue.Pop: cut the last item off, its index set to -1.
PopBack(h) ==
  LET n == Len(h.pq)
  IN [pq    |-> SubSeq(h.pq, 1, n - 1),
      index |-> [h.index EXCEPT ![h.pq[n]] = -1]]

\* A sift loop of container/heap has the heap and the place of the item on
\* its way; this is the loop after n turns.
Heaps == [pq : Seq(Items), index : [Items -> Int]]

Sifts == [heap : Heaps, at : Nat]

After(turn, start, n) ==
  LET loop[k \in Nat] == IF k = 0 THEN start ELSE turn[loop[k - 1]]
  IN loop[n]

\* A turn of up and of down, within 1..n.  A loop that has broken off stays as
\* it is.
UpTurn ==
  [s \in Sifts |->
     LET j == s.at
         i == j \div 2
     IN IF j = 1 \/ ~Less(s.heap.pq, j, i)
          THEN s
          ELSE [heap |-> Swap(s.heap, i, j), at |-> i]]

SmallerChild(pq, i, n) ==
  LET j1 == 2 * i
      j2 == j1 + 1
  IN IF j2 <= n /\ Less(pq, j2, j1) THEN j2 ELSE j1

DownTurn(n) ==
  [s \in Sifts |->
     LET i == s.at
         j == SmallerChild(s.heap.pq, i, n)
     IN IF 2 * i > n \/ ~Less(s.heap.pq, j, i)
          THEN s
          ELSE [heap |-> Swap(s.heap, i, j), at |-> j]]

\* Mutant: down looks at the first child only.
LeftTurn(n) ==
  [s \in Sifts |->
     LET i == s.at
         j == 2 * i
     IN IF j > n \/ ~Less(s.heap.pq, j, i)
          THEN s
          ELSE [heap |-> Swap(s.heap, i, j), at |-> j]]

\* up moves the item at j towards the root, in fewer turns than j.
Up(h, j) == After(UpTurn, [heap |-> h, at |-> j], j).heap

\* down moves the item at i away from the root, in n turns at most.
DownLeft(h, i, n) == After(LeftTurn(n), [heap |-> h, at |-> i], n).heap

Down(h, i, n) == After(DownTurn(n), [heap |-> h, at |-> i], n).heap

HeapPush(h, item) == Up(PushBack(h, item), Len(h.pq) + 1)

\* The heap with its minimum moved to the last place, ready for PopBack.
MinLast(h) ==
  LET n == Len(h.pq) IN Down(Swap(h, 1, n), 1, n - 1)

-----------------------------------------------------------------------------

Init ==
  /\ maxSize \in {PerRequestLimit(limit) : limit \in Limits}
  /\ pushed = {}
  /\ priorityQueue = <<>>
  /\ index = [item \in Items |-> 0]
  /\ panicked = FALSE

\* pushUnsafe: below the limit push; at the limit pop, compare, and push
\* whichever of the two items is the slower.
PushUnsafe(item) ==
  LET h        == [pq |-> priorityQueue, index |-> index]
      ready    == MinLast(h)
      pop      == ready.pq[Len(ready.pq)]
      popped   == PopBack(ready)
      survivor == IF Latency[pop] > Latency[item] THEN pop ELSE item
      result   == IF Len(priorityQueue) = maxSize
                    THEN HeapPush(popped, survivor)
                    ELSE HeapPush(h, item)
  IN /\ priorityQueue' = result.pq
     /\ index' = result.index

\* heap.Pop of an empty slice.
PopsNothing == Len(priorityQueue) = maxSize /\ priorityQueue = <<>>

Push(item) ==
  /\ ~panicked
  /\ item \notin pushed
  /\ UNCHANGED maxSize
  /\ IF PopsNothing
       THEN panicked' = TRUE /\ UNCHANGED <<pushed, priorityQueue, index>>
       ELSE /\ PushUnsafe(item)
            /\ pushed' = pushed \cup {item}
            /\ UNCHANGED panicked

Next == \E item \in Items : Push(item)

Spec == Init /\ [][Next]_vars

-----------------------------------------------------------------------------

Positions == 1..Len(priorityQueue)

Kept == {priorityQueue[i] : i \in Positions}

\* The heap property container/heap relies on, and with it that the root is
\* the item heap.Pop takes: no item is less than its parent, after any
\* sequence of pushes, pops and put-backs.  Item.index is where the item is
\* (one that Pop took and Push did not put back has -1, one that never got in
\* has 0), and no item sits in two places.
HeapOrdered ==
  /\ \A i \in Positions \ {1} : ~Less(priorityQueue, i, i \div 2)
  /\ \A i \in Positions : index[priorityQueue[i]] = i - 1
  /\ \A item \in pushed \ Kept : index[item] \in {-1, 0}

\* The abstract queue: the set of the items in the slice.
Abstract == INSTANCE TraceQueue WITH kept <- Kept

\* Every push of the heap is a push of the abstract queue: the sift loops
\* keep the slowest maxSize items and lose or duplicate none.  With it the
\* slice has what TraceQueue promises of any queue.
ImplementsTraceQueue == Abstract!Spec

\* The slice holds items that were pushed, and the limit is five at most.
TypeOK == Abstract!TypeOK

\* The strengthening the proofs need: an item not pushed yet has no place.
HeapInv ==
  /\ TypeOK
  /\ priorityQueue \in Seq(Items) /\ index \in [Items -> Int]
  /\ HeapOrdered
  /\ \A item \in Items \ pushed : index[item] = 0
=============================================================================
