--------------------------- MODULE HeapQueueProofs ---------------------------
(***************************************************************************)
(* The sift loops keep the heap in order and lose no item, so that the     *)
(* slice implements TraceQueue and keeps its promises, for any items,      *)
(* latencies and limits.                                                   *)
(***************************************************************************)
EXTENDS HeapQueue, SequenceTheorems, FiniteSetTheorems, WellFoundedInduction, TLAPS

-----------------------------------------------------------------------------
(* Loops                                                                   *)

\* A set of numbers has a least one, as the intervals up to its members are
\* finite sets, and strict inclusion of these is well-founded.
LEMMA LeastOf ==
  ASSUME NEW S, S \subseteq Nat, S # {}
  PROVE  \E x \in S : \A y \in S : x <= y
<1> DEFINE R == StrictSubsetOrdering(Nat)
           T == {1..x : x \in S}
<1>1. T \subseteq FiniteSubsetsOf(Nat)
  <2>1. \A x \in S : IsFiniteSet(1..x)
    BY FS_Interval
  <2> QED
    BY <2>1 DEF FiniteSubsetsOf
<1>2. IsWellFoundedOn(R, FiniteSubsetsOf(Nat))
  BY FS_StrictSubsetOrderingWellFounded
<1>3. T # {}
  OBVIOUS
<1>4. PICK least \in T : \A other \in T : <<other, least>> \notin R
  <2> HIDE DEF R, T
  <2> QED
    BY <1>1, <1>2, <1>3, WFMin
<1>5. PICK x \in S : least = 1..x
  OBVIOUS
<1>6. ASSUME NEW y \in S, ~(x <= y) PROVE FALSE
  <2>1. 1..y \subseteq 1..x /\ x \in 1..x /\ x \notin 1..y
    BY <1>6
  <2>2. 1..y # 1..x
    BY <2>1
  <2>3. 1..y \in T /\ <<1..y, 1..x>> \in R
    BY <2>1, <2>2 DEF StrictSubsetOrdering
  <2> QED
    BY <1>4, <1>5, <2>3
<1> QED
  BY <1>6

\* What holds at the start and is kept by every turn holds after any number.
LEMMA EveryNumber ==
  ASSUME NEW S, 0 \in S, \A n \in Nat : n \in S => n + 1 \in S
  PROVE  Nat \subseteq S
<1> SUFFICES ASSUME Nat \ S # {} PROVE FALSE
  OBVIOUS
<1>1. PICK n \in Nat \ S : \A m \in Nat \ S : n <= m
  BY LeastOf
<1>2. n # 0 /\ n - 1 \in Nat /\ ~(n <= n - 1) /\ (n - 1) + 1 = n
  OBVIOUS
<1> QED
  BY <1>1, <1>2

IsLoop(f, S, turn, start) ==
  /\ f \in [Nat -> S] /\ f[0] = start
  /\ \A n \in Nat : f[n + 1] = turn[f[n]]

\* A loop has a state after every number of turns, the first the start.
LEMMA LoopRuns ==
  ASSUME NEW S, NEW turn, NEW start \in S, \A s \in S : turn[s] \in S
  PROVE  \E f : IsLoop(f, S, turn, start)
<1> DEFINE IsRun(g, n) ==
             /\ g \in [0..n -> S] /\ g[0] = start
             /\ \A i \in 0..(n - 1) : g[i + 1] = turn[g[i]]
           Long == {n \in Nat : \E g : IsRun(g, n)}
<1>1. \A n \in Nat : \E g : IsRun(g, n)
  <2>1. 0 \in Long
    <3>1. IsRun([i \in 0..0 |-> start], 0)
      OBVIOUS
    <3> QED
      BY <3>1
  <2>2. ASSUME NEW n \in Nat, n \in Long PROVE n + 1 \in Long
    <3>1. PICK g : IsRun(g, n)
      BY <2>2
    <3> DEFINE h == [i \in 0..(n + 1) |-> IF i = n + 1 THEN turn[g[n]] ELSE g[i]]
    <3>2. g[n] \in S /\ turn[g[n]] \in S
      BY <3>1
    <3>3. h \in [0..(n + 1) -> S] /\ h[0] = start
      BY <3>1, <3>2
    <3>4. ASSUME NEW i \in 0..((n + 1) - 1) PROVE h[i + 1] = turn[h[i]]
      <4>1. CASE i = n
        BY <4>1
      <4>2. CASE i # n
        <5>1. i \in 0..(n - 1) /\ i + 1 # n + 1 /\ i # n + 1
          BY <4>2
        <5> QED
          BY <3>1, <5>1
      <4> QED
        BY <4>1, <4>2
    <3>5. IsRun(h, n + 1)
      BY <3>3, <3>4
    <3> HIDE DEF IsRun, h
    <3> QED
      BY <3>5
  <2> HIDE DEF Long
  <2>3. Nat \subseteq Long
    BY <2>1, <2>2, EveryNumber
  <2> QED
    BY <2>3 DEF Long
<1>2. ASSUME NEW m \in Nat, NEW n \in Nat, m <= n, NEW g, NEW h, IsRun(g, m), IsRun(h, n)
      PROVE  g[m] = h[m]
  <2> DEFINE Same == {i \in Nat : i <= m => g[i] = h[i]}
  <2>1. 0 \in Same
    BY <1>2
  <2>2. ASSUME NEW i \in Nat, i \in Same PROVE i + 1 \in Same
    <3> SUFFICES ASSUME i + 1 <= m PROVE g[i + 1] = h[i + 1]
      OBVIOUS
    <3>1. i \in 0..(m - 1) /\ i \in 0..(n - 1) /\ i <= m
      BY <1>2
    <3> QED
      BY <1>2, <2>2, <3>1
  <2> HIDE DEF Same
  <2>3. Nat \subseteq Same
    BY <2>1, <2>2, EveryNumber
  <2> QED
    BY <2>3 DEF Same
<1> DEFINE run(n) == CHOOSE g : IsRun(g, n)
           f == [n \in Nat |-> run(n)[n]]
<1>3. \A n \in Nat : IsRun(run(n), n)
  BY <1>1
<1>4. ASSUME NEW n \in Nat PROVE f[n] \in S /\ f[n + 1] = turn[f[n]]
  <2> HIDE DEF run
  <2>1. IsRun(run(n), n) /\ IsRun(run(n + 1), n + 1)
    <3> HIDE DEF IsRun
    <3> QED
      BY <1>3
  <2>2. run(n + 1)[n] = run(n)[n]
    <3>1. n + 1 \in Nat /\ n <= n + 1
      OBVIOUS
    <3> HIDE DEF IsRun
    <3> QED
      BY <1>2, <2>1, <3>1
  <2>3. run(n + 1)[n + 1] = turn[run(n + 1)[n]] /\ run(n)[n] \in S
    BY <2>1
  <2> QED
    BY <2>2, <2>3
<1>5. f[0] = start
  <2> HIDE DEF run
  <2>1. IsRun(run(0), 0)
    <3> HIDE DEF IsRun
    <3> QED
      BY <1>3
  <2> QED
    BY <2>1
<1>6. f \in [Nat -> S]
  BY <1>4
<1> HIDE DEF f
<1> QED
  BY <1>4, <1>5, <1>6 DEF IsLoop

\* What every turn keeps holds all along the loop.
LEMMA Loop ==
  ASSUME NEW S, NEW turn, NEW start \in S, \A s \in S : turn[s] \in S
  PROVE  IsLoop([n \in Nat |-> After(turn, start, n)], S, turn, start)
<1> DEFINE Runs(f) == f = [k \in Nat |-> IF k = 0 THEN start ELSE turn[f[k - 1]]]
           loop == CHOOSE f : Runs(f)
<1>1. \E f : Runs(f)
  <2>1. PICK f : IsLoop(f, S, turn, start)
    <3> HIDE DEF loop, Runs
    <3> QED
      BY LoopRuns
  <2>2. ASSUME NEW k \in Nat PROVE f[k] = IF k = 0 THEN start ELSE turn[f[k - 1]]
    <3>1. CASE k = 0
      BY <2>1, <3>1 DEF IsLoop
    <3>2. CASE k # 0
      <4>1. k - 1 \in Nat /\ (k - 1) + 1 = k
        BY <3>2
      <4> QED
        BY <2>1, <3>2, <4>1 DEF IsLoop
    <3> QED
      BY <3>1, <3>2
  <2>3. f = [k \in Nat |-> f[k]]
    BY <2>1 DEF IsLoop
  <2> QED
    BY <2>2, <2>3
<1>2. Runs(loop)
  BY <1>1
<1>3. \A n : After(turn, start, n) = loop[n]
  BY DEF After
<1> HIDE DEF loop
<1>4. loop[0] = start
  BY <1>2
<1>5. ASSUME NEW n \in Nat PROVE loop[n + 1] = turn[loop[n]]
  <2>1. n + 1 \in Nat /\ n + 1 # 0 /\ (n + 1) - 1 = n
    OBVIOUS
  <2> QED
    BY <1>2, <2>1
<1>6. \A n \in Nat : loop[n] \in S
  <2> DEFINE Typed == {n \in Nat : loop[n] \in S}
  <2>1. 0 \in Typed
    BY <1>4
  <2>2. \A n \in Nat : n \in Typed => n + 1 \in Typed
    BY <1>5
  <2> HIDE DEF Typed
  <2>3. Nat \subseteq Typed
    BY <2>1, <2>2, EveryNumber
  <2> QED
    BY <2>3 DEF Typed
<1>7. [n \in Nat |-> After(turn, start, n)] = [n \in Nat |-> loop[n]]
  BY <1>3
<1> QED
  BY <1>4, <1>5, <1>6, <1>7 DEF IsLoop

-----------------------------------------------------------------------------
(* Places                                                                  *)

\* A place but the root has a parent before it, of which it is a child.
LEMMA Parent ==
  ASSUME NEW p \in Nat, p >= 2
  PROVE  /\ p \div 2 \in Nat /\ p \div 2 >= 1 /\ p \div 2 < p
         /\ p = 2 * (p \div 2) \/ p = 2 * (p \div 2) + 1
OBVIOUS

\* The two children of a place have it as their parent.
LEMMA Children ==
  ASSUME NEW i \in Nat
  PROVE  (2 * i) \div 2 = i /\ (2 * i + 1) \div 2 = i
OBVIOUS

\* The items of a slice, and that the index fields say where they are.
ItemsOf(h) == {h.pq[i] : i \in 1..Len(h.pq)}

Placed(h) == \A i \in 1..Len(h.pq) : h.index[h.pq[i]] = i - 1

\* The heap property within 1..n.
Ordered(pq, n) == \A p \in 2..n : ~Less(pq, p, p \div 2)

\* The same items, each with its place.
Rearranged(h, g) ==
  /\ g \in Heaps /\ Len(g.pq) = Len(h.pq) /\ ItemsOf(g) = ItemsOf(h)
  /\ Placed(g)
  /\ \A x \in Items \ ItemsOf(h) : g.index[x] = h.index[x]

\* The items of a slice have latencies, and no item is in two places.
LEMMA ItemsAt ==
  ASSUME NEW h \in Heaps
  PROVE  /\ Len(h.pq) \in Nat /\ DOMAIN h.pq = 1..Len(h.pq)
         /\ \A i \in 1..Len(h.pq) : h.pq[i] \in Items /\ Latency[h.pq[i]] \in Int
         /\ Placed(h) => \A i, j \in 1..Len(h.pq) : h.pq[i] = h.pq[j] => i = j
<1>1. h.pq \in Seq(Items)
  BY DEF Heaps
<1>2. /\ Len(h.pq) \in Nat /\ DOMAIN h.pq = 1..Len(h.pq)
      /\ \A i \in 1..Len(h.pq) : h.pq[i] \in Items /\ Latency[h.pq[i]] \in Int
  BY <1>1, LenProperties, LatencyAssumption
<1>3. ASSUME Placed(h), NEW i \in 1..Len(h.pq), NEW j \in 1..Len(h.pq), h.pq[i] = h.pq[j]
      PROVE  i = j
  <2>1. i - 1 = j - 1
    BY <1>3 DEF Placed
  <2> QED
    BY <2>1
<1> QED
  BY <1>2, <1>3

\* Swap exchanges two items and keeps the index fields right.
LEMMA SwapRearranges ==
  ASSUME NEW h \in Heaps, Placed(h), NEW i \in 1..Len(h.pq), NEW j \in 1..Len(h.pq)
  PROVE  /\ Rearranged(h, Swap(h, i, j))
         /\ \A p \in 1..Len(h.pq) :
              Swap(h, i, j).pq[p] = IF p = j THEN h.pq[i]
                                    ELSE IF p = i THEN h.pq[j] ELSE h.pq[p]
<1> DEFINE N == Len(h.pq)
           g == Swap(h, i, j)
           half == [h.pq EXCEPT ![i] = h.pq[j]]
<1>1. /\ h.pq \in Seq(Items) /\ h.index \in [Items -> Int] /\ N \in Nat
      /\ \A p \in 1..N : h.pq[p] \in Items
      /\ \A p, q \in 1..N : h.pq[p] = h.pq[q] => p = q
  BY ItemsAt DEF Heaps
<1>2. /\ half \in Seq(Items) /\ Len(half) = N
      /\ \A p \in 1..N : half[p] = IF p = i THEN h.pq[j] ELSE h.pq[p]
  BY <1>1, ExceptSeq
<1>3. g.pq = [half EXCEPT ![j] = h.pq[i]]
  BY DEF Swap
<1>4. /\ g.pq \in Seq(Items) /\ Len(g.pq) = N
      /\ \A p \in 1..N : g.pq[p] = IF p = j THEN h.pq[i] ELSE half[p]
  <2> HIDE DEF half, g
  <2>1. h.pq[i] \in Items /\ j \in 1..Len(half)
    BY <1>1, <1>2
  <2> QED
    BY <1>2, <1>3, <2>1, ExceptSeq
<1>5. \A p \in 1..N : g.pq[p] = IF p = j THEN h.pq[i]
                                 ELSE IF p = i THEN h.pq[j] ELSE h.pq[p]
  <2> HIDE DEF half, g, N
  <2> QED
    BY <1>2, <1>4
<1>6. /\ g.index \in [Items -> Int]
      /\ \A x \in Items : g.index[x] = IF x = h.pq[i] THEN j - 1
                                        ELSE IF x = h.pq[j] THEN i - 1 ELSE h.index[x]
  <2>1. g.index = [h.index EXCEPT ![h.pq[j]] = i - 1, ![h.pq[i]] = j - 1]
    BY DEF Swap
  <2>2. h.pq[i] \in Items /\ h.pq[j] \in Items /\ i - 1 \in Int /\ j - 1 \in Int
    BY <1>1
  <2> HIDE DEF g
  <2>3. [h.index EXCEPT ![h.pq[j]] = i - 1] \in [Items -> Int]
    BY <1>1, <2>2
  <2>4. g.index \in [Items -> Int]
    BY <2>1, <2>2, <2>3
  <2>5. ASSUME NEW x \in Items
        PROVE  g.index[x] = IF x = h.pq[i] THEN j - 1
                            ELSE IF x = h.pq[j] THEN i - 1 ELSE h.index[x]
    BY <1>1, <2>1, <2>2
  <2> QED
    BY <2>4, <2>5
<1>7. g \in Heaps
  <2>1. g = [pq |-> g.pq, index |-> g.index]
    BY DEF Swap
  <2> HIDE DEF g
  <2> QED
    BY <1>4, <1>6, <2>1 DEF Heaps
<1> HIDE DEF g, half
<1>8. ItemsOf(g) = ItemsOf(h)
  <2>1. ASSUME NEW p \in 1..N PROVE g.pq[p] \in ItemsOf(h) /\ h.pq[p] \in ItemsOf(g)
    <3>1. g.pq[p] \in {h.pq[i], h.pq[j], h.pq[p]}
      BY <1>5
    <3>2. h.pq[p] \in {g.pq[i], g.pq[j], g.pq[p]}
      BY <1>5
    <3> QED
      BY <1>4, <3>1, <3>2 DEF ItemsOf
  <2> QED
    BY <1>4, <2>1 DEF ItemsOf
<1>9. Placed(g)
  <2>1. \A p \in 1..N : h.index[h.pq[p]] = p - 1
    BY DEF Placed
  <2> HIDE DEF N
  <2> SUFFICES ASSUME NEW p \in 1..N PROVE g.index[g.pq[p]] = p - 1
    BY <1>4 DEF Placed
  <2>2. CASE p = j
    BY <1>1, <1>5, <1>6, <2>2 DEF N
  <2>3. CASE p = i /\ p # j
    BY <1>1, <1>5, <1>6, <2>3 DEF N
  <2>4. CASE p # i /\ p # j
    <3>1. g.pq[p] = h.pq[p] /\ h.pq[p] # h.pq[i] /\ h.pq[p] # h.pq[j]
      BY <1>1, <1>5, <2>4 DEF N
    <3> QED
      BY <1>1, <1>6, <2>1, <3>1
  <2> QED
    BY <2>2, <2>3, <2>4
<1>10. ASSUME NEW x \in Items \ ItemsOf(h) PROVE g.index[x] = h.index[x]
  BY <1>6 DEF ItemsOf
<1> QED
  BY <1>4, <1>5, <1>7, <1>8, <1>9, <1>10 DEF Rearranged, g

\* Rearranging twice is rearranging.
LEMMA RearrangedAgain ==
  ASSUME NEW h, NEW g, NEW k, Rearranged(h, g), Rearranged(g, k)
  PROVE  Rearranged(h, k)
BY DEF Rearranged

-----------------------------------------------------------------------------
(* up                                                                      *)

\* On its way up only the item itself may be less than its parent, and its
\* children are in order with that parent.
Rising(h, s) ==
  /\ s \in Sifts /\ Rearranged(h, s.heap) /\ s.at \in 1..Len(h.pq)
  /\ \A p \in 2..Len(h.pq) :
       /\ p # s.at => ~Less(s.heap.pq, p, p \div 2)
       /\ s.at > 1 /\ p \div 2 = s.at => ~Less(s.heap.pq, p, s.at \div 2)

Risen(s) == s.at = 1 \/ ~Less(s.heap.pq, s.at, s.at \div 2)

\* When the loop of up breaks off, the slice is in order.
LEMMA RisenIsOrdered ==
  ASSUME NEW h, NEW s, Rising(h, s), Risen(s)
  PROVE  Ordered(s.heap.pq, Len(h.pq))
BY DEF Rising, Risen, Ordered

\* A turn of up keeps what holds on the way up, and brings the item nearer to
\* the root unless the loop has broken off.
LEMMA UpTurnRises ==
  ASSUME NEW h \in Heaps, NEW s, Rising(h, s)
  PROVE  /\ Rising(h, UpTurn[s])
         /\ Risen(s) => UpTurn[s] = s
         /\ ~Risen(s) => UpTurn[s].at < s.at
<1> DEFINE N == Len(h.pq)
           j == s.at
           i == s.at \div 2
           pq == s.heap.pq
<1>1. /\ s \in Sifts /\ s.heap \in Heaps /\ Placed(s.heap) /\ Len(pq) = N
      /\ N \in Nat /\ j \in 1..N
      /\ \A p \in 1..N : pq[p] \in Items /\ Latency[pq[p]] \in Int
  BY ItemsAt DEF Rising, Rearranged
<1>2. CASE Risen(s)
  <2>1. UpTurn[s] = s
    BY <1>1, <1>2 DEF UpTurn, Risen
  <2> QED
    BY <1>2, <2>1
<1>3. CASE ~Risen(s)
  <2> DEFINE g == Swap(s.heap, i, j)
  <2>1. UpTurn[s] = [heap |-> g, at |-> i]
    BY <1>1, <1>3 DEF UpTurn, Risen
  <2>2. j >= 2 /\ i \in 1..N /\ i < j /\ Less(pq, j, i)
    BY <1>1, <1>3, Parent DEF Risen
  <2>3. /\ Rearranged(s.heap, g)
        /\ \A p \in 1..N : g.pq[p] = IF p = j THEN pq[i] ELSE IF p = i THEN pq[j] ELSE pq[p]
    <3>1. /\ s.heap \in Heaps /\ Placed(s.heap) /\ Len(s.heap.pq) = N
          /\ i \in 1..Len(s.heap.pq) /\ j \in 1..Len(s.heap.pq)
      BY <1>1, <2>2
    <3> HIDE DEF i, j, N
    <3>2. /\ Rearranged(s.heap, g)
          /\ \A p \in 1..Len(s.heap.pq) :
               g.pq[p] = IF p = j THEN s.heap.pq[i]
                         ELSE IF p = i THEN s.heap.pq[j] ELSE s.heap.pq[p]
      BY <3>1, SwapRearranges
    <3> QED
      BY <3>1, <3>2
  <2>4. /\ \A p \in 2..N : p # j => ~Less(pq, p, p \div 2)
        /\ \A p \in 2..N : p \div 2 = j => ~Less(pq, p, i)
    BY <2>2 DEF Rising
  <2> HIDE DEF g, pq, N
  <2>5. \A p \in 2..N : p \in 1..N /\ p \div 2 \in 1..N /\ p \div 2 # p
    <3> SUFFICES ASSUME NEW p \in 2..N
                 PROVE  p \in 1..N /\ p \div 2 \in 1..N /\ p \div 2 # p
      OBVIOUS
    <3>1. p \in Nat /\ p >= 2 /\ p <= N
      BY <1>1
    <3> QED
      BY <1>1, <3>1, Parent
  <2> DEFINE lat(q) == Latency[q]
  <2>6. \A p \in 2..N : p # i => ~Less(g.pq, p, p \div 2)
    <3> SUFFICES ASSUME NEW p \in 2..N, p # i PROVE ~Less(g.pq, p, p \div 2)
      OBVIOUS
    <3> DEFINE q == p \div 2
    <3>1. p \in 1..N /\ q \in 1..N /\ q # p
      BY <2>5
    <3>2. CASE p = j
      BY <1>1, <2>2, <2>3, <3>2 DEF Less
    <3>3. CASE p # j /\ q = i
      <4>1. Latency[pq[p]] >= Latency[pq[i]] /\ Latency[pq[j]] < Latency[pq[i]]
        BY <1>1, <2>2, <2>4, <3>1, <3>3 DEF Less
      <4>2. g.pq[p] = pq[p] /\ g.pq[q] = pq[j]
        BY <2>2, <2>3, <3>1, <3>3
      <4> QED
        BY <1>1, <2>2, <3>1, <4>1, <4>2 DEF Less
    <3>4. CASE p # j /\ q = j
      <4>1. ~(Latency[pq[p]] < Latency[pq[i]])
        BY <2>4, <3>4 DEF Less
      <4>2. g.pq[p] = pq[p] /\ g.pq[q] = pq[i]
        BY <2>2, <2>3, <3>1, <3>4
      <4> QED
        BY <4>1, <4>2 DEF Less
    <3>5. CASE p # j /\ q # i /\ q # j
      <4>1. ~(Latency[pq[p]] < Latency[pq[q]])
        BY <2>4, <3>5 DEF Less
      <4>2. g.pq[p] = pq[p] /\ g.pq[q] = pq[q]
        BY <2>3, <3>1, <3>5
      <4> QED
        BY <4>1, <4>2 DEF Less
    <3> QED
      BY <3>2, <3>3, <3>4, <3>5
  <2>7. ASSUME NEW p \in 2..N, i > 1, p \div 2 = i PROVE ~Less(g.pq, p, i \div 2)
    <3>1. i \in 2..N /\ i \div 2 \in 1..N /\ i \div 2 # i /\ i \div 2 < i
      <4>1. i \in Nat /\ i >= 2
        BY <2>2, <2>7
      <4> QED
        BY <1>1, <2>2, <2>5, <2>7, <4>1, Parent
    <3>2. ~(Latency[pq[i]] < Latency[pq[i \div 2]])
      BY <2>2, <2>4, <3>1 DEF Less
    <3>3. g.pq[i \div 2] = pq[i \div 2]
      BY <2>2, <2>3, <3>1
    <3>4. CASE p = j
      <4>1. g.pq[p] = pq[i]
        BY <2>2, <2>3, <3>4, <1>1
      <4> QED
        BY <3>2, <3>3, <4>1 DEF Less
    <3>5. CASE p # j
      <4>1. ~(Latency[pq[p]] < Latency[pq[i]])
        BY <2>4, <2>7, <3>5 DEF Less
      <4>2. g.pq[p] = pq[p]
        BY <2>3, <2>5, <2>7, <3>5
      <4>3. Latency[pq[p]] \in Int /\ Latency[pq[i]] \in Int /\ Latency[pq[i \div 2]] \in Int
        BY <1>1, <2>2, <2>5, <3>1
      <4>4. ~(Latency[pq[p]] < Latency[pq[i \div 2]])
        BY <3>2, <4>1, <4>3
      <4> QED
        BY <3>3, <4>2, <4>4 DEF Less
    <3> QED
      BY <3>4, <3>5
  <2>8. Rearranged(h, g) /\ g \in Heaps
    BY <2>3, RearrangedAgain DEF Rising, Rearranged
  <2>9. [heap |-> g, at |-> i] \in Sifts
    BY <1>1, <2>2, <2>8 DEF Sifts
  <2> DEFINE t == [heap |-> g, at |-> i]
  <2>10. t.heap = g /\ t.at = i
    OBVIOUS
  <2> HIDE DEF t, i, j
  <2>11. Rising(h, t)
    BY <2>2, <2>6, <2>7, <2>8, <2>9, <2>10 DEF Rising, N, t
  <2> QED
    BY <1>3, <2>1, <2>2, <2>10, <2>11 DEF t, j
<1> QED
  BY <1>2, <1>3

\* up puts the last item in order, wherever the rest is in order.
LEMMA UpOrders ==
  ASSUME NEW h \in Heaps, Placed(h), Len(h.pq) >= 1, Ordered(h.pq, Len(h.pq) - 1)
  PROVE  /\ Rearranged(h, Up(h, Len(h.pq)))
         /\ Ordered(Up(h, Len(h.pq)).pq, Len(h.pq))
<1> DEFINE N == Len(h.pq)
           S == {s \in Sifts : Rising(h, s)}
           start == [heap |-> h, at |-> N]
           state == [n \in Nat |-> After(UpTurn, start, n)]
<1>1. N \in Nat /\ N >= 1
  BY ItemsAt
<1>2. start \in S
  <2>1. start \in Sifts
    BY <1>1 DEF Sifts
  <2>2. Rearranged(h, h)
    BY DEF Rearranged
  <2>3. ASSUME NEW p \in 2..N
        PROVE  /\ p # N => ~Less(h.pq, p, p \div 2)
               /\ p \div 2 # N
    <3>1. p \in Nat /\ p >= 2 /\ p <= N /\ (p # N => p \in 2..(N - 1))
      BY <1>1
    <3> QED
      BY <1>1, <3>1, Parent DEF Ordered
  <2>4. start.heap = h /\ start.at = N
    OBVIOUS
  <2> HIDE DEF start
  <2>5. Rearranged(h, start.heap) /\ start.at \in 1..N
    BY <1>1, <2>2, <2>4
  <2>6. \A p \in 2..N : /\ p # start.at => ~Less(start.heap.pq, p, p \div 2)
                        /\ p \div 2 # start.at
    BY <2>3, <2>4
  <2>7. Rising(h, start)
    BY <2>1, <2>5, <2>6 DEF Rising
  <2> QED
    BY <2>1, <2>7
<1>3. \A s \in S : UpTurn[s] \in S
  BY UpTurnRises DEF Rising
<1> HIDE DEF S, start
<1>4. /\ state[0] = start
      /\ \A n \in Nat : state[n + 1] = UpTurn[state[n]]
      /\ \A n \in Nat : Rising(h, state[n])
  <2>1. IsLoop(state, S, UpTurn, start)
    BY <1>2, <1>3, Loop
  <2> HIDE DEF state
  <2> QED
    BY <2>1 DEF IsLoop, S
<1> HIDE DEF state
<1> DEFINE Going == {n \in Nat : Risen(state[n]) \/ state[n].at <= N - n}
<1>5. 0 \in Going
  BY <1>1, <1>4 DEF start
<1>6. ASSUME NEW n \in Nat, n \in Going PROVE n + 1 \in Going
  <2>1. Rising(h, state[n]) /\ state[n + 1] = UpTurn[state[n]] /\ Rising(h, state[n + 1])
    BY <1>4
  <2>2. CASE Risen(state[n])
    BY <2>1, <2>2, UpTurnRises
  <2>3. CASE ~Risen(state[n])
    <3>1. state[n + 1].at < state[n].at
      BY <2>1, <2>3, UpTurnRises
    <3>2. state[n].at <= N - n
      BY <1>6, <2>3
    <3>3. state[n].at \in Int /\ state[n + 1].at \in Int
      BY <2>1 DEF Rising
    <3>4. state[n + 1].at <= N - (n + 1)
      BY <1>1, <3>1, <3>2, <3>3
    <3> QED
      BY <3>4
  <2> QED
    BY <2>2, <2>3
<1> HIDE DEF Going
<1>7. Nat \subseteq Going
  BY <1>5, <1>6, EveryNumber
<1>8. Rising(h, state[N]) /\ Risen(state[N])
  <2>1. Rising(h, state[N]) /\ N \in Going
    BY <1>1, <1>4, <1>7
  <2>2. state[N].at >= 1 /\ state[N].at \in Int
    BY <1>1, <2>1 DEF Rising
  <2> QED
    BY <1>1, <2>1, <2>2 DEF Going
<1>9. Up(h, N) = state[N].heap
  BY DEF Up, state, start
<1> QED
  BY <1>8, <1>9, RisenIsOrdered DEF Rising

-----------------------------------------------------------------------------
(* down                                                                    *)

\* On its way down only the item itself may be greater than its children,
\* which are in order with its parent.
Sinking(h, s, n) ==
  /\ s \in Sifts /\ Rearranged(h, s.heap) /\ s.at \in 1..Len(h.pq)
  /\ \A p \in 2..n :
       /\ p \div 2 # s.at => ~Less(s.heap.pq, p, p \div 2)
       /\ s.at > 1 /\ p \div 2 = s.at => ~Less(s.heap.pq, p, s.at \div 2)
  /\ \A p \in (n + 1)..Len(h.pq) : s.heap.pq[p] = h.pq[p]

Sunk(s, n) ==
  2 * s.at > n \/ ~Less(s.heap.pq, SmallerChild(s.heap.pq, s.at, n), s.at)

\* down compares with a child, and with the lesser one if there are two.
LEMMA SmallerIsChild ==
  ASSUME NEW pq, NEW N \in Nat, NEW n \in 0..N, NEW i \in 1..N, 2 * i <= n,
         \A p \in 1..N : Latency[pq[p]] \in Int
  PROVE  /\ SmallerChild(pq, i, n) \in 2..n /\ SmallerChild(pq, i, n) \div 2 = i
         /\ SmallerChild(pq, i, n) > i
         /\ \A p \in 2..n : p \div 2 = i =>
              ~(Latency[pq[p]] < Latency[pq[SmallerChild(pq, i, n)]])
<1> DEFINE j == SmallerChild(pq, i, n)
<1>1. /\ n \in Nat /\ i \in Nat /\ i >= 1 /\ n <= N
      /\ (2 * i) \div 2 = i /\ (2 * i + 1) \div 2 = i
  BY Children
<1>2. \A p \in 2..n : p \div 2 = i => p = 2 * i \/ p = 2 * i + 1
  <2> TAKE p \in 2..n
  <2>1. p \in Nat /\ p >= 2
    BY <1>1
  <2> QED
    BY <2>1, Parent
<1>3. CASE 2 * i + 1 <= n /\ Less(pq, 2 * i + 1, 2 * i)
  <2>1. j = 2 * i + 1
    BY <1>3 DEF SmallerChild
  <2>2. j \in 2..n /\ j \div 2 = i /\ j > i
    BY <1>1, <1>3, <2>1
  <2>3. /\ Latency[pq[2 * i]] \in Int /\ Latency[pq[2 * i + 1]] \in Int
        /\ Latency[pq[2 * i + 1]] < Latency[pq[2 * i]]
    BY <1>1, <1>3 DEF Less
  <2> HIDE DEF j
  <2>4. \A p \in 2..n : p \div 2 = i => ~(Latency[pq[p]] < Latency[pq[j]])
    BY <1>2, <2>1, <2>3
  <2> QED
    BY <2>2, <2>4 DEF j
<1>4. CASE ~(2 * i + 1 <= n /\ Less(pq, 2 * i + 1, 2 * i))
  <2>1. j = 2 * i
    BY <1>4 DEF SmallerChild
  <2>2. j \in 2..n /\ j \div 2 = i /\ j > i
    BY <1>1, <2>1
  <2>3. Latency[pq[2 * i]] \in Int
    BY <1>1
  <2>4. 2 * i + 1 <= n => ~(Latency[pq[2 * i + 1]] < Latency[pq[2 * i]])
    BY <1>4 DEF Less
  <2> HIDE DEF j
  <2>5. ASSUME NEW p \in 2..n, p \div 2 = i PROVE ~(Latency[pq[p]] < Latency[pq[j]])
    <3>1. CASE p = 2 * i
      BY <2>1, <2>3, <3>1
    <3>2. CASE p = 2 * i + 1
      BY <1>1, <2>1, <2>4, <3>2
    <3> QED
      BY <1>2, <2>5, <3>1, <3>2
  <2> QED
    BY <2>2, <2>5 DEF j
<1> QED
  BY <1>3, <1>4

\* When the loop of down breaks off, the first n places are in order.
LEMMA SunkIsOrdered ==
  ASSUME NEW h \in Heaps, NEW n \in 0..Len(h.pq), NEW s, Sinking(h, s, n), Sunk(s, n)
  PROVE  Ordered(s.heap.pq, n)
<1> DEFINE N == Len(h.pq)
           i == s.at
           pq == s.heap.pq
           j == SmallerChild(pq, i, n)
<1>1. /\ s.heap \in Heaps /\ Len(pq) = N /\ N \in Nat /\ i \in 1..N /\ n \in 0..N
      /\ \A p \in 1..N : Latency[pq[p]] \in Int
  BY ItemsAt DEF Sinking, Rearranged
<1>2. SUFFICES ASSUME NEW p \in 2..n, p \div 2 = i PROVE ~Less(pq, p, i)
  BY DEF Ordered, Sinking
<1>3. p \in Nat /\ p >= 2 /\ p <= n /\ p \in 1..N
  BY <1>1
<1>4. 2 * i <= n
  BY <1>1, <1>2, <1>3, Parent
<1> HIDE DEF pq, i, N
<1>5. /\ j \in 2..n
      /\ ~(Latency[pq[p]] < Latency[pq[j]])
  BY <1>1, <1>2, <1>4, SmallerIsChild
<1>6. ~(Latency[pq[j]] < Latency[pq[i]])
  <2>1. n \in Int /\ 2 * i \in Int
    BY <1>1
  <2> QED
    BY <1>4, <2>1 DEF Sunk, Less, pq, i
<1>7. Latency[pq[p]] \in Int /\ Latency[pq[j]] \in Int /\ Latency[pq[i]] \in Int
  BY <1>1, <1>3, <1>5
<1> HIDE DEF j
<1> QED
  BY <1>5, <1>6, <1>7 DEF Less

\* A turn of down keeps what holds on the way down, and takes the item further
\* from the root unless the loop has broken off.
LEMMA DownTurnSinks ==
  ASSUME NEW h \in Heaps, NEW n \in 0..Len(h.pq), NEW s, Sinking(h, s, n)
  PROVE  /\ Sinking(h, DownTurn(n)[s], n)
         /\ Sunk(s, n) => DownTurn(n)[s] = s
         /\ ~Sunk(s, n) => DownTurn(n)[s].at > s.at
<1> DEFINE N == Len(h.pq)
           i == s.at
           pq == s.heap.pq
           j == SmallerChild(pq, i, n)
<1>1. /\ s \in Sifts /\ s.heap \in Heaps /\ Placed(s.heap) /\ Len(pq) = N
      /\ N \in Nat /\ i \in 1..N /\ n \in 0..N /\ n \in Nat
      /\ \A p \in 1..N : pq[p] \in Items /\ Latency[pq[p]] \in Int
  BY ItemsAt DEF Sinking, Rearranged
<1>2. CASE Sunk(s, n)
  <2>1. DownTurn(n)[s] = s
    BY <1>1, <1>2 DEF DownTurn, Sunk
  <2> QED
    BY <1>2, <2>1
<1>3. CASE ~Sunk(s, n)
  <2> DEFINE g == Swap(s.heap, i, j)
             t == [heap |-> g, at |-> j]
  <2>1. DownTurn(n)[s] = t
    BY <1>1, <1>3 DEF DownTurn, Sunk
  <2>2. /\ 2 * i <= n /\ Latency[pq[j]] < Latency[pq[i]]
    <3>1. i \in Int /\ n \in Int
      BY <1>1
    <3> QED
      BY <1>3, <3>1 DEF Sunk, Less
  <2> HIDE DEF pq, i, N
  <2>3. /\ j \in 2..n /\ j \div 2 = i /\ j > i
        /\ \A p \in 2..n : p \div 2 = i => ~(Latency[pq[p]] < Latency[pq[j]])
    <3>1. /\ N \in Nat /\ n \in 0..N /\ i \in 1..N /\ 2 * i <= n
          /\ \A p \in 1..N : Latency[pq[p]] \in Int
      BY <1>1, <2>2
    <3>2. j \in 2..n /\ j \div 2 = i /\ j > i
      BY <3>1, SmallerIsChild, SMTT(30)
    <3>3. ASSUME NEW p \in 2..n, p \div 2 = i PROVE ~(Latency[pq[p]] < Latency[pq[j]])
      BY <3>1, <3>3, SmallerIsChild
    <3> QED
      BY <3>2, <3>3
  <2> HIDE DEF j
  <2>4. i \in 1..N /\ j \in 1..N /\ i # j
    BY <1>1, <2>3
  <2>5. /\ Rearranged(s.heap, g)
        /\ \A p \in 1..N : g.pq[p] = IF p = j THEN pq[i] ELSE IF p = i THEN pq[j] ELSE pq[p]
    <3>1. i \in 1..Len(s.heap.pq) /\ j \in 1..Len(s.heap.pq)
      BY <1>1, <2>4 DEF pq
    <3> QED
      BY <1>1, <3>1, SwapRearranges DEF pq
  <2>6. /\ \A p \in 2..n : p \div 2 # i => ~(Latency[pq[p]] < Latency[pq[p \div 2]])
        /\ \A p \in 2..n : p \div 2 = i /\ i > 1 => ~(Latency[pq[p]] < Latency[pq[i \div 2]])
        /\ \A p \in (n + 1)..N : pq[p] = h.pq[p]
    BY DEF Sinking, Less, pq, i, N
  <2> HIDE DEF g
  <2>7. \A p \in 2..n : p \in 1..N /\ p \div 2 \in 1..N /\ p \div 2 < p
    <3> SUFFICES ASSUME NEW p \in 2..n
                 PROVE  p \in 1..N /\ p \div 2 \in 1..N /\ p \div 2 < p
      OBVIOUS
    <3>1. p \in Nat /\ p >= 2 /\ p <= N
      BY <1>1
    <3> QED
      BY <1>1, <3>1, Parent
  <2>8. Latency[pq[i]] \in Int /\ Latency[pq[j]] \in Int
    BY <1>1, <2>4
  <2>9. ASSUME NEW p \in 2..n, p \div 2 # j PROVE ~Less(g.pq, p, p \div 2)
    <3> DEFINE q == p \div 2
    <3>1. p \in 1..N /\ q \in 1..N /\ q < p /\ p # q
      BY <1>1, <2>7
    <3> HIDE DEF q
    <3>2. CASE p = j
      <4>1. g.pq[p] = pq[i] /\ g.pq[q] = pq[j]
        BY <2>3, <2>4, <2>5, <3>2 DEF q
      <4> QED
        BY <2>2, <2>8, <4>1 DEF Less, q
    <3>3. CASE p # j /\ q = i
      <4>1. g.pq[p] = pq[p] /\ g.pq[q] = pq[j]
        BY <2>4, <2>5, <3>1, <3>3
      <4> QED
        BY <2>3, <3>3, <4>1 DEF Less, q
    <3>4. CASE p = i
      <4>1. g.pq[p] = pq[j] /\ g.pq[q] = pq[q]
        BY <2>4, <2>5, <2>9, <3>1, <3>4 DEF q
      <4>2. i > 1 /\ ~(Latency[pq[j]] < Latency[pq[q]])
        BY <1>1, <2>3, <2>6, <3>4 DEF q
      <4> QED
        BY <4>1, <4>2 DEF Less, q
    <3>5. CASE p # j /\ p # i /\ q # i
      <4>1. g.pq[p] = pq[p] /\ g.pq[q] = pq[q]
        BY <2>5, <2>9, <3>1, <3>5 DEF q
      <4> QED
        BY <2>6, <3>5, <4>1 DEF Less, q
    <3> QED
      BY <3>2, <3>3, <3>4, <3>5
  <2>10. ASSUME NEW p \in 2..n, p \div 2 = j PROVE ~Less(g.pq, p, j \div 2)
    <3>1. p \in 1..N /\ p # j /\ p # i /\ j # i
      BY <1>1, <2>3, <2>7, <2>10
    <3>2. g.pq[p] = pq[p] /\ g.pq[i] = pq[j]
      BY <2>4, <2>5, <3>1
    <3>3. ~(Latency[pq[p]] < Latency[pq[j]])
      BY <2>6, <2>10, <3>1
    <3> QED
      BY <2>3, <3>2, <3>3 DEF Less
  <2>11. ASSUME NEW p \in (n + 1)..N PROVE g.pq[p] = h.pq[p]
    <3>1. p \in 1..N /\ p # i /\ p # j
      BY <1>1, <2>3
    <3> QED
      BY <2>5, <2>6, <3>1
  <2>12. Rearranged(h, g) /\ t \in Sifts
    <3>1. Rearranged(h, g)
      BY <2>5, RearrangedAgain DEF Sinking
    <3>2. g \in Heaps /\ j \in Nat
      BY <1>1, <2>4, <3>1 DEF Rearranged
    <3> QED
      BY <3>1, <3>2 DEF Sifts
  <2>13. t.heap = g /\ t.at = j
    OBVIOUS
  <2> HIDE DEF t
  <2>14. Sinking(h, t, n)
    BY <2>4, <2>9, <2>10, <2>11, <2>12, <2>13 DEF Sinking, N
  <2> QED
    BY <1>3, <2>1, <2>3, <2>13, <2>14 DEF i
<1> QED
  BY <1>2, <1>3

\* down puts the root in order within 1..n, wherever the rest of that is.
LEMMA DownOrders ==
  ASSUME NEW h \in Heaps, Placed(h), Len(h.pq) >= 1, NEW n \in 0..Len(h.pq),
         \A p \in 2..n : p \div 2 # 1 => ~Less(h.pq, p, p \div 2)
  PROVE  /\ Rearranged(h, Down(h, 1, n))
         /\ Ordered(Down(h, 1, n).pq, n)
         /\ \A p \in (n + 1)..Len(h.pq) : Down(h, 1, n).pq[p] = h.pq[p]
<1> DEFINE S == {s \in Sifts : Sinking(h, s, n)}
           start == [heap |-> h, at |-> 1]
           state == [k \in Nat |-> After(DownTurn(n), start, k)]
<1>1. Len(h.pq) \in Nat /\ n \in Nat
  BY ItemsAt
<1>2. start \in S
  <2>1. start \in Sifts
    BY DEF Sifts
  <2>2. start.heap = h /\ start.at = 1
    OBVIOUS
  <2> HIDE DEF start
  <2>3. Rearranged(h, start.heap) /\ start.at \in 1..Len(h.pq)
    BY <1>1, <2>2 DEF Rearranged
  <2>4. \A p \in 2..n : p \div 2 # start.at => ~Less(start.heap.pq, p, p \div 2)
    BY <2>2
  <2>5. ~(start.at > 1) /\ \A p \in (n + 1)..Len(h.pq) : start.heap.pq[p] = h.pq[p]
    BY <2>2
  <2>6. Sinking(h, start, n)
    BY <2>1, <2>3, <2>4, <2>5 DEF Sinking
  <2> QED
    BY <2>1, <2>6
<1>3. \A s \in S : DownTurn(n)[s] \in S
  BY DownTurnSinks DEF Sinking
<1> HIDE DEF S, start
<1>4. /\ state[0] = start
      /\ \A k \in Nat : state[k + 1] = DownTurn(n)[state[k]]
      /\ \A k \in Nat : Sinking(h, state[k], n)
  <2>1. IsLoop(state, S, DownTurn(n), start)
    BY <1>2, <1>3, Loop
  <2> HIDE DEF state
  <2> QED
    BY <2>1 DEF IsLoop, S
<1> HIDE DEF state
<1> DEFINE Going == {k \in Nat : Sunk(state[k], n) \/ state[k].at >= k + 1}
<1>5. 0 \in Going
  BY <1>4 DEF start
<1>6. ASSUME NEW k \in Nat, k \in Going PROVE k + 1 \in Going
  <2>1. /\ Sinking(h, state[k], n) /\ state[k + 1] = DownTurn(n)[state[k]]
        /\ Sinking(h, state[k + 1], n)
    <3>1. k + 1 \in Nat
      OBVIOUS
    <3> QED
      BY <1>4, <3>1
  <2>2. CASE Sunk(state[k], n)
    BY <2>1, <2>2, DownTurnSinks
  <2>3. CASE ~Sunk(state[k], n)
    <3>1. /\ state[k].at >= k + 1 /\ state[k + 1].at > state[k].at
          /\ state[k].at \in Int /\ state[k + 1].at \in Int
      <4>1. state[k + 1].at > state[k].at
        BY <2>1, <2>3, DownTurnSinks
      <4>2. state[k].at \in Int /\ state[k + 1].at \in Int
        BY <1>1, <2>1 DEF Sinking
      <4> QED
        BY <1>6, <2>3, <4>1, <4>2
    <3>2. state[k + 1].at >= (k + 1) + 1
      BY <3>1
    <3> QED
      BY <3>2
  <2> QED
    BY <2>2, <2>3
<1> HIDE DEF Going
<1>7. Nat \subseteq Going
  BY <1>5, <1>6, EveryNumber
<1>8. Sinking(h, state[n], n) /\ Sunk(state[n], n)
  <2>1. Sinking(h, state[n], n) /\ n \in Going
    BY <1>1, <1>4, <1>7
  <2>2. state[n].at \in Int /\ state[n].at >= 1
    BY <1>1, <2>1 DEF Sinking
  <2>3. state[n].at >= n + 1 => 2 * state[n].at > n
    BY <1>1, <2>2
  <2> QED
    BY <2>1, <2>3 DEF Going, Sunk
<1>9. Down(h, 1, n) = state[n].heap
  BY <1>1 DEF Down, state, start
<1> QED
  BY <1>8, <1>9, SunkIsOrdered DEF Sinking

-----------------------------------------------------------------------------
(* Push and pop                                                            *)

\* In an ordered heap no item is less than the root.
LEMMA RootIsLeast ==
  ASSUME NEW h \in Heaps, Ordered(h.pq, Len(h.pq)), NEW p \in 1..Len(h.pq)
  PROVE  Latency[h.pq[1]] <= Latency[h.pq[p]]
<1> DEFINE N == Len(h.pq)
           S == {q \in 1..N : ~(Latency[h.pq[1]] <= Latency[h.pq[q]])}
<1>1. N \in Nat /\ \A q \in 1..N : Latency[h.pq[q]] \in Int
  BY ItemsAt
<1> SUFFICES ASSUME S # {} PROVE FALSE
  OBVIOUS
<1>2. PICK q \in S : \A r \in S : q <= r
  <2>1. S \subseteq Nat
    BY <1>1
  <2> HIDE DEF S
  <2> QED
    BY <2>1, LeastOf
<1>3. q \in Nat /\ q >= 2 /\ q \in 1..N /\ q \in 2..N
  BY <1>1
<1> DEFINE r == q \div 2
<1>4. r \in 1..N /\ ~(q <= r)
  BY <1>1, <1>3, Parent
<1>5. ~(Latency[h.pq[q]] < Latency[h.pq[r]])
  BY <1>3 DEF Ordered, Less
<1> HIDE DEF r
<1>6. Latency[h.pq[1]] <= Latency[h.pq[r]]
  BY <1>2, <1>4
<1>7. /\ Latency[h.pq[1]] \in Int /\ Latency[h.pq[r]] \in Int
      /\ Latency[h.pq[q]] \in Int
  BY <1>1, <1>3, <1>4
<1> QED
  BY <1>5, <1>6, <1>7

\* A heap as container/heap leaves it.
Heap(h) == h \in Heaps /\ Placed(h) /\ Ordered(h.pq, Len(h.pq))

\* heap.Push adds an item and touches the index of no other outside the slice.
LEMMA HeapPushAdds ==
  ASSUME NEW h, Heap(h), NEW item \in Items, item \notin ItemsOf(h)
  PROVE  /\ Heap(HeapPush(h, item))
         /\ ItemsOf(HeapPush(h, item)) = ItemsOf(h) \cup {item}
         /\ \A x \in Items \ ItemsOf(HeapPush(h, item)) :
              HeapPush(h, item).index[x] = h.index[x]
<1> DEFINE N == Len(h.pq)
           g == PushBack(h, item)
<1>1. /\ h.pq \in Seq(Items) /\ h.index \in [Items -> Int] /\ N \in Nat
      /\ \A p \in 1..N : h.pq[p] \in Items
  BY ItemsAt DEF Heap, Heaps
<1>2. /\ g.pq \in Seq(Items) /\ Len(g.pq) = N + 1
      /\ \A p \in 1..N : g.pq[p] = h.pq[p]
      /\ g.pq[N + 1] = item
  BY <1>1, AppendProperties DEF PushBack
<1>3. /\ g.index \in [Items -> Int] /\ g.index[item] = N
      /\ \A x \in Items \ {item} : g.index[x] = h.index[x]
  <2>1. g.index = [h.index EXCEPT ![item] = N]
    BY DEF PushBack
  <2> HIDE DEF g
  <2> QED
    BY <1>1, <2>1
<1>4. g \in Heaps
  BY <1>2, <1>3 DEF Heaps, PushBack
<1>5. HeapPush(h, item) = Up(g, Len(g.pq))
  BY <1>2 DEF HeapPush
<1> HIDE DEF g
<1>6. ItemsOf(g) = ItemsOf(h) \cup {item}
  <2>1. ASSUME NEW x \in ItemsOf(g) PROVE x \in ItemsOf(h) \cup {item}
    <3>1. PICK p \in 1..(N + 1) : x = g.pq[p]
      BY <1>2 DEF ItemsOf
    <3>2. p \in 1..N \/ p = N + 1
      BY <1>1
    <3> QED
      BY <1>2, <3>1, <3>2 DEF ItemsOf
  <2>2. ASSUME NEW x \in ItemsOf(h) PROVE x \in ItemsOf(g)
    <3>1. PICK p \in 1..N : x = h.pq[p]
      BY DEF ItemsOf
    <3>2. p \in 1..(N + 1) /\ g.pq[p] = x
      BY <1>1, <1>2, <3>1
    <3> QED
      BY <1>2, <3>2 DEF ItemsOf
  <2>3. item \in ItemsOf(g)
    <3>1. N + 1 \in 1..(N + 1)
      BY <1>1
    <3> QED
      BY <1>2, <3>1 DEF ItemsOf
  <2> QED
    BY <2>1, <2>2, <2>3
<1>7. Placed(g)
  <2> SUFFICES ASSUME NEW p \in 1..(N + 1) PROVE g.index[g.pq[p]] = p - 1
    BY <1>2 DEF Placed
  <2>1. CASE p = N + 1
    BY <1>1, <1>2, <1>3, <2>1
  <2>2. CASE p # N + 1
    <3>1. p \in 1..N
      BY <1>1, <2>2
    <3>2. g.pq[p] = h.pq[p] /\ h.pq[p] \in Items \ {item} /\ h.index[h.pq[p]] = p - 1
      BY <1>1, <1>2, <3>1 DEF ItemsOf, Heap, Placed
    <3> QED
      BY <1>3, <3>2
  <2> QED
    BY <2>1, <2>2
<1>8. Ordered(g.pq, Len(g.pq) - 1)
  <2>1. Len(g.pq) - 1 = N
    BY <1>1, <1>2
  <2> SUFFICES ASSUME NEW p \in 2..N PROVE ~Less(g.pq, p, p \div 2)
    BY <2>1 DEF Ordered
  <2>2. p \in Nat /\ p >= 2 /\ p \in 1..N
    BY <1>1
  <2>3. p \in 1..N /\ p \div 2 \in 1..N
    BY <1>1, <2>2, Parent
  <2> QED
    BY <1>2, <2>3 DEF Heap, Ordered, Less
<1> DEFINE k == Up(g, Len(g.pq))
<1>9. Rearranged(g, k) /\ Ordered(k.pq, Len(g.pq))
  <2>1. Len(g.pq) >= 1
    BY <1>1, <1>2
  <2> QED
    BY <1>4, <1>7, <1>8, <2>1, UpOrders
<1> HIDE DEF k
<1>10. Heap(k) /\ ItemsOf(k) = ItemsOf(h) \cup {item}
  BY <1>6, <1>9 DEF Rearranged, Heap
<1>11. \A x \in Items \ ItemsOf(k) : k.index[x] = h.index[x]
  BY <1>3, <1>6, <1>9, <1>10 DEF Rearranged
<1> QED
  BY <1>5, <1>10, <1>11 DEF k

\* heap.Pop takes an item no other is less than, and sets its index to -1.
LEMMA HeapPopTakesLeast ==
  ASSUME NEW h, Heap(h), Len(h.pq) >= 1
  PROVE  LET ready  == MinLast(h)
             pop    == ready.pq[Len(ready.pq)]
             popped == PopBack(ready)
         IN /\ pop \in ItemsOf(h)
            /\ \A x \in ItemsOf(h) : Latency[pop] <= Latency[x]
            /\ Heap(popped) /\ Len(popped.pq) = Len(h.pq) - 1
            /\ ItemsOf(popped) = ItemsOf(h) \ {pop}
            /\ popped.index[pop] = -1
            /\ \A x \in Items \ ItemsOf(h) : popped.index[x] = h.index[x]
<1> DEFINE N == Len(h.pq)
           n == N - 1
           g == Swap(h, 1, N)
           k == Down(g, 1, n)
           pop == k.pq[N]
           b == PopBack(k)
<1>1. /\ h \in Heaps /\ Placed(h) /\ Ordered(h.pq, N)
      /\ N \in Nat /\ N >= 1 /\ n \in Nat /\ 1 \in 1..N /\ N \in 1..N /\ n \in 0..N
  <2>1. h \in Heaps /\ Placed(h) /\ Ordered(h.pq, N)
    BY DEF Heap
  <2> QED
    BY <2>1, ItemsAt
<1>2. /\ Rearranged(h, g)
      /\ \A p \in 1..N : g.pq[p] = IF p = N THEN h.pq[1]
                                    ELSE IF p = 1 THEN h.pq[N] ELSE h.pq[p]
  BY <1>1, SwapRearranges
<1>3. MinLast(h) = k
  BY DEF MinLast
<1> HIDE DEF g
<1>4. g \in Heaps /\ Placed(g) /\ Len(g.pq) = N
  BY <1>2 DEF Rearranged
<1>5. ASSUME NEW p \in 2..n, p \div 2 # 1 PROVE ~Less(g.pq, p, p \div 2)
  <2>1. p \in Nat /\ p >= 2 /\ p <= n /\ p \in 2..N
    BY <1>1
  <2>2. p \in 1..N /\ p # N /\ p # 1 /\ p \div 2 \in 1..N /\ p \div 2 # N
    BY <1>1, <2>1, Parent
  <2>3. g.pq[p] = h.pq[p] /\ g.pq[p \div 2] = h.pq[p \div 2]
    BY <1>2, <1>5, <2>2
  <2> QED
    BY <1>1, <2>1, <2>3 DEF Ordered, Less
<1>6. /\ Rearranged(g, k) /\ Ordered(k.pq, n)
      /\ \A p \in (n + 1)..N : k.pq[p] = g.pq[p]
  <2> HIDE DEF N, n
  <2>1. Len(g.pq) >= 1 /\ n \in 0..Len(g.pq)
    BY <1>1, <1>4
  <2> QED
    BY <1>4, <1>5, <2>1, DownOrders
<1> HIDE DEF k
<1>7. /\ Rearranged(h, k) /\ Len(k.pq) = N /\ pop = h.pq[1]
  <2>1. N \in (n + 1)..N
    BY <1>1
  <2> QED
    BY <1>1, <1>2, <1>6, <2>1, RearrangedAgain DEF Rearranged
<1>8. /\ k \in Heaps /\ Placed(k) /\ ItemsOf(k) = ItemsOf(h)
      /\ \A x \in Items \ ItemsOf(h) : k.index[x] = h.index[x]
  BY <1>7 DEF Rearranged
<1>9. /\ k.pq \in Seq(Items) /\ k.index \in [Items -> Int]
      /\ \A p \in 1..N : k.pq[p] \in Items
      /\ \A p, q \in 1..N : k.pq[p] = k.pq[q] => p = q
  BY <1>7, <1>8, ItemsAt DEF Heaps
<1>10. /\ b.pq \in Seq(Items) /\ Len(b.pq) = n
       /\ \A p \in 1..n : b.pq[p] = k.pq[p]
  <2>1. b.pq = SubSeq(k.pq, 1, n)
    BY <1>7 DEF PopBack
  <2>2. 1 \in 1..(N + 1) /\ n \in 0..N
    BY <1>1
  <2> HIDE DEF n, N, b
  <2>3. /\ SubSeq(k.pq, 1, n) \in Seq(Items)
        /\ Len(SubSeq(k.pq, 1, n)) = (IF 1 <= n THEN n - 1 + 1 ELSE 0)
        /\ \A p \in 1..(n - 1 + 1) : SubSeq(k.pq, 1, n)[p] = k.pq[1 + p - 1]
    BY <1>7, <1>9, <2>2, SubSeqProperties
  <2>4. n - 1 + 1 = n /\ (IF 1 <= n THEN n - 1 + 1 ELSE 0) = n
    BY <1>1
  <2>5. \A p \in 1..n : 1 + p - 1 = p
    BY <1>1
  <2> QED
    BY <2>1, <2>3, <2>4, <2>5
<1>11. /\ b.index \in [Items -> Int] /\ b.index[pop] = -1
       /\ \A x \in Items \ {pop} : b.index[x] = k.index[x]
  <2>1. b.index = [k.index EXCEPT ![pop] = -1] /\ pop \in Items
    BY <1>1, <1>7, <1>9 DEF PopBack
  <2> HIDE DEF b, pop
  <2> QED
    BY <1>9, <2>1
<1>12. b \in Heaps
  BY <1>10, <1>11 DEF Heaps, PopBack
<1> HIDE DEF b
<1>13. pop \in ItemsOf(h) /\ \A x \in ItemsOf(h) : Latency[pop] <= Latency[x]
  BY <1>1, <1>7, RootIsLeast DEF ItemsOf
<1>14. ItemsOf(b) = ItemsOf(h) \ {pop}
  <2>1. ASSUME NEW x \in ItemsOf(b) PROVE x \in ItemsOf(k) /\ x # pop
    <3>1. PICK p \in 1..n : x = k.pq[p]
      BY <1>10 DEF ItemsOf
    <3>2. p \in 1..N /\ p # N
      BY <1>1
    <3> QED
      BY <1>1, <1>7, <1>9, <3>1, <3>2 DEF ItemsOf
  <2>2. ASSUME NEW x \in ItemsOf(k), x # pop PROVE x \in ItemsOf(b)
    <3>1. PICK p \in 1..N : x = k.pq[p]
      BY <1>7 DEF ItemsOf
    <3>2. p \in 1..n
      BY <1>1, <2>2, <3>1
    <3> QED
      BY <1>10, <3>1, <3>2 DEF ItemsOf
  <2> QED
    BY <1>8, <2>1, <2>2
<1>15. Placed(b)
  <2> SUFFICES ASSUME NEW p \in 1..n PROVE b.index[b.pq[p]] = p - 1
    BY <1>10 DEF Placed
  <2>1. p \in 1..N /\ p # N
    BY <1>1
  <2>2. k.pq[p] # pop /\ k.pq[p] \in Items /\ k.index[k.pq[p]] = p - 1
    BY <1>1, <1>7, <1>8, <1>9, <2>1 DEF Placed
  <2> QED
    BY <1>10, <1>11, <2>2
<1>16. Ordered(b.pq, Len(b.pq))
  <2> SUFFICES ASSUME NEW p \in 2..n PROVE ~Less(b.pq, p, p \div 2)
    BY <1>10 DEF Ordered
  <2>1. p \in Nat /\ p >= 2 /\ p <= n
    BY <1>1
  <2>2. p \in 1..n /\ p \div 2 \in 1..n
    BY <1>1, <2>1, Parent
  <2> QED
    BY <1>6, <1>10, <2>2 DEF Ordered, Less
<1>17. \A x \in Items \ ItemsOf(h) : b.index[x] = h.index[x]
  BY <1>8, <1>11, <1>13
<1> QED
  BY <1>3, <1>7, <1>10, <1>11, <1>12, <1>13, <1>14, <1>15, <1>16, <1>17 DEF Heap, b

-----------------------------------------------------------------------------
(* The queue                                                               *)

\* As no item is in two places, the slice is as long as it has items.
LEMMA ItemsAreCounted ==
  ASSUME NEW h \in Heaps, Placed(h)
  PROVE  Cardinality(ItemsOf(h)) = Len(h.pq)
<1> DEFINE N == Len(h.pq)
           f == [i \in 1..N |-> h.pq[i]]
<1>1. N \in Nat /\ \A i, j \in 1..N : h.pq[i] = h.pq[j] => i = j
  BY ItemsAt
<1>2. f \in [1..N -> ItemsOf(h)]
  BY DEF ItemsOf
<1>3. \A i, j \in 1..N : f[i] = f[j] => i = j
  BY <1>1
<1>4. \A x \in ItemsOf(h) : \E i \in 1..N : f[i] = x
  BY DEF ItemsOf
<1> HIDE DEF f
<1>5. f \in Bijection(1..N, ItemsOf(h))
  BY <1>2, <1>3, <1>4 DEF Bijection, Injection, Surjection, IsInjective
<1> QED
  BY <1>1, <1>5, FS_CountingElements DEF ExistsBijection

Slice == [pq |-> priorityQueue, index |-> index]

\* What an invariant of the queue says of its slice.
LEMMA SliceIsHeap ==
  ASSUME HeapInv
  PROVE  /\ Heap(Slice) /\ Len(Slice.pq) = Len(priorityQueue) /\ ItemsOf(Slice) = Kept
         /\ Kept \subseteq pushed /\ pushed \subseteq Items
         /\ Cardinality(Kept) = Len(priorityQueue)
<1>1. Slice.pq = priorityQueue /\ Slice.index = index
  BY DEF Slice
<1>2. Slice \in Heaps
  BY DEF HeapInv, Slice, Heaps
<1>3. ItemsOf(Slice) = Kept
  BY <1>1 DEF ItemsOf, Kept, Positions
<1>4. Placed(Slice)
  BY <1>1 DEF HeapInv, HeapOrdered, Placed, Positions
<1>5. Ordered(Slice.pq, Len(Slice.pq))
  <2> SUFFICES ASSUME NEW p \in 2..Len(priorityQueue)
               PROVE  ~Less(priorityQueue, p, p \div 2)
    BY <1>1 DEF Ordered
  <2>1. p \in Positions \ {1}
    BY <1>1, <1>2, ItemsAt DEF Positions
  <2> QED
    BY <2>1 DEF HeapInv, HeapOrdered
<1>6. Kept \subseteq pushed /\ pushed \subseteq Items
  BY DEF HeapInv, TypeOK, Abstract!TypeOK
<1> QED
  BY <1>1, <1>2, <1>3, <1>4, <1>5, <1>6, ItemsAreCounted DEF Heap

\* What the invariant has to say of a slice.
LEMMA HeapAsSlice ==
  ASSUME NEW h, Heap(h)
  PROVE  /\ h.pq \in Seq(Items) /\ h.index \in [Items -> Int]
         /\ \A i \in (1..Len(h.pq)) \ {1} : ~Less(h.pq, i, i \div 2)
         /\ \A i \in 1..Len(h.pq) : h.index[h.pq[i]] = i - 1
<1>1. h \in Heaps /\ Placed(h) /\ Ordered(h.pq, Len(h.pq)) /\ Len(h.pq) \in Nat
  BY ItemsAt DEF Heap
<1>2. h.pq \in Seq(Items) /\ h.index \in [Items -> Int]
  BY <1>1 DEF Heaps
<1>3. \A i \in (1..Len(h.pq)) \ {1} : i \in 2..Len(h.pq)
  BY <1>1
<1>4. \A i \in (1..Len(h.pq)) \ {1} : ~Less(h.pq, i, i \div 2)
  BY <1>1, <1>3 DEF Ordered
<1>5. \A i \in 1..Len(h.pq) : h.index[h.pq[i]] = i - 1
  BY <1>1 DEF Placed
<1> QED
  BY <1>2, <1>4, <1>5

\* pushUnsafe of a queue with room adds the item.
LEMMA RoomAdds ==
  ASSUME HeapInv, NEW item \in Items \ pushed, Len(priorityQueue) # maxSize,
         PushUnsafe(item)
  PROVE  \E h : /\ Heap(h) /\ priorityQueue' = h.pq /\ index' = h.index
                /\ ItemsOf(h) = Kept \cup {item}
                /\ \A x \in Items \ ItemsOf(h) : h.index[x] = index[x]
<1> DEFINE h == HeapPush(Slice, item)
<1>1. /\ Heap(Slice) /\ ItemsOf(Slice) = Kept /\ item \notin ItemsOf(Slice)
      /\ item \in Items
  BY SliceIsHeap
<1>2. /\ Heap(h) /\ ItemsOf(h) = Kept \cup {item}
      /\ \A x \in Items \ ItemsOf(h) : h.index[x] = Slice.index[x]
  BY <1>1, HeapPushAdds
<1>3. priorityQueue' = h.pq /\ index' = h.index
  BY DEF PushUnsafe, Slice
<1>4. Slice.index = index
  BY DEF Slice
<1> HIDE DEF h
<1> QED
  BY <1>2, <1>3, <1>4

\* At the limit a least item goes, or the new one if that is faster still.
LEMMA LimitReplaces ==
  ASSUME HeapInv, NEW item \in Items \ pushed, Len(priorityQueue) = maxSize,
         priorityQueue # <<>>, PushUnsafe(item)
  PROVE  \E h : \E pop \in Abstract!Least(Kept) :
           /\ Heap(h) /\ priorityQueue' = h.pq /\ index' = h.index
           /\ ItemsOf(h) = IF Latency[pop] > Latency[item]
                             THEN Kept ELSE (Kept \ {pop}) \cup {item}
           /\ \A x \in Items \ ItemsOf(h) : h.index[x] = IF x = pop THEN -1 ELSE index[x]
<1> DEFINE ready    == MinLast(Slice)
           pop      == ready.pq[Len(ready.pq)]
           popped   == PopBack(ready)
           survivor == IF Latency[pop] > Latency[item] THEN pop ELSE item
           h        == HeapPush(popped, survivor)
<1>1. /\ Heap(Slice) /\ ItemsOf(Slice) = Kept /\ item \notin Kept
      /\ item \in Items /\ Kept \subseteq Items /\ Slice.index = index
  BY SliceIsHeap DEF Slice
<1>2. Len(Slice.pq) >= 1
  <2>1. priorityQueue \in Seq(Items)
    BY DEF HeapInv
  <2> QED
    BY <2>1, EmptySeq DEF Slice
<1>3. priorityQueue' = h.pq /\ index' = h.index
  BY DEF PushUnsafe, Slice
<1> HIDE DEF ready
<1>4. /\ pop \in Kept /\ \A x \in Kept : Latency[pop] <= Latency[x]
      /\ Heap(popped) /\ ItemsOf(popped) = Kept \ {pop} /\ popped.index[pop] = -1
      /\ \A x \in Items \ Kept : popped.index[x] = index[x]
  BY <1>1, <1>2, HeapPopTakesLeast DEF ready
<1> HIDE DEF pop, popped
<1>5. survivor \in Items /\ survivor \notin ItemsOf(popped)
  BY <1>1, <1>4
<1> HIDE DEF survivor
<1>6. /\ Heap(h) /\ ItemsOf(h) = (Kept \ {pop}) \cup {survivor}
      /\ \A x \in Items \ ItemsOf(h) : h.index[x] = popped.index[x]
  BY <1>4, <1>5, HeapPushAdds
<1> HIDE DEF h
<1>7. pop \in Abstract!Least(Kept)
  BY <1>4 DEF Abstract!Least
<1>8. ItemsOf(h) = IF Latency[pop] > Latency[item]
                     THEN Kept ELSE (Kept \ {pop}) \cup {item}
  BY <1>4, <1>6 DEF survivor
<1>9. ASSUME NEW x \in Items \ ItemsOf(h)
      PROVE  h.index[x] = IF x = pop THEN -1 ELSE index[x]
  <2>1. h.index[x] = popped.index[x] /\ (x = pop \/ x \notin Kept)
    BY <1>6
  <2> QED
    BY <1>4, <2>1
<1> QED
  BY <1>3, <1>6, <1>7, <1>8, <1>9

\* A push leaves the queue in order, and is one of the abstract queue.
LEMMA PushKeepsHeapInv ==
  ASSUME HeapInv, NEW item \in Items, Push(item)
  PROVE  HeapInv' /\ Abstract!Push(item)
<1> DEFINE Sizes == /\ maxSize \in Int /\ maxSize <= 5 /\ pushed \subseteq Items
                    /\ panicked \in BOOLEAN
<1>1. /\ Sizes /\ item \notin pushed /\ ~panicked /\ maxSize' = maxSize
      /\ Kept \subseteq pushed /\ Cardinality(Kept) = Len(priorityQueue)
      /\ \A x \in Items \ pushed : index[x] = 0
      /\ \A x \in pushed \ Kept : index[x] \in {-1, 0}
  BY SliceIsHeap DEF HeapInv, HeapOrdered, TypeOK, Abstract!TypeOK, Push
<1>2. CASE PopsNothing
  <2>1. /\ UNCHANGED <<maxSize, pushed, priorityQueue, index>> /\ panicked' = TRUE
        /\ Len(priorityQueue) = maxSize /\ priorityQueue = <<>>
    BY <1>1, <1>2 DEF Push, PopsNothing
  <2>2. HeapInv'
    BY <1>1, <2>1 DEF HeapInv, HeapOrdered, TypeOK, Abstract!TypeOK, Kept, Positions
  <2>3. Kept = {} /\ Kept' = Kept
    BY <2>1, EmptySeq DEF Kept, Positions
  <2>4. Abstract!PopEmpty
    BY <1>1, <2>1, <2>3 DEF Abstract!PopEmpty, Abstract!Cardinality, Cardinality
  <2> QED
    BY <1>1, <2>2, <2>4 DEF Abstract!Push
<1>3. CASE ~PopsNothing
  <2>1. /\ PushUnsafe(item) /\ pushed' = pushed \cup {item} /\ panicked' = panicked
    BY <1>1, <1>3 DEF Push
  <2>2. ASSUME NEW h, Heap(h), priorityQueue' = h.pq, index' = h.index,
               ItemsOf(h) \subseteq pushed',
               \A x \in Items \ ItemsOf(h) :
                 h.index[x] = IF x \in Kept THEN -1 ELSE index[x],
               item \in ItemsOf(h) \/ index'[item] = 0
        PROVE  HeapInv' /\ Kept' = ItemsOf(h)
    <3>1. /\ Kept' = ItemsOf(h)
          /\ priorityQueue' \in Seq(Items) /\ index' \in [Items -> Int]
      BY <2>2, HeapAsSlice DEF Kept, ItemsOf, Positions
    <3>2. /\ \A i \in Positions' \ {1} : ~Less(priorityQueue', i, i \div 2)
          /\ \A i \in Positions' : index'[priorityQueue'[i]] = i - 1
      BY <2>2, HeapAsSlice DEF Positions
    <3>3. /\ \A x \in Items \ pushed' : index'[x] = 0
          /\ \A x \in pushed' \ Kept' : index'[x] \in {-1, 0}
      <4>1. \A x \in Items \ pushed' : x \notin pushed /\ x \notin ItemsOf(h) /\ x \notin Kept
        BY <1>1, <2>1, <2>2
      <4>2. ASSUME NEW x \in pushed' \ Kept' PROVE index'[x] \in {-1, 0}
        <5>1. CASE x = item
          BY <2>2, <3>1, <4>2, <5>1
        <5>2. CASE x # item
          <6>1. x \in Items /\ x \in pushed /\ x \notin ItemsOf(h)
            BY <1>1, <2>1, <3>1, <4>2, <5>2
          <6>2. CASE x \in Kept
            BY <2>2, <6>1, <6>2
          <6>3. CASE x \notin Kept
            BY <1>1, <2>2, <6>1, <6>3
          <6> QED
            BY <6>2, <6>3
        <5> QED
          BY <5>1, <5>2
      <4> QED
        BY <1>1, <2>2, <4>1, <4>2
    <3>4. HeapOrdered'
      BY <3>2, <3>3 DEF HeapOrdered
    <3>5. TypeOK'
      BY <1>1, <2>1, <2>2, <3>1 DEF TypeOK, Abstract!TypeOK
    <3> QED
      BY <3>1, <3>3, <3>4, <3>5 DEF HeapInv
  <2>3. CASE Len(priorityQueue) # maxSize
    <3>1. PICK h : /\ Heap(h) /\ priorityQueue' = h.pq /\ index' = h.index
                   /\ ItemsOf(h) = Kept \cup {item}
                   /\ \A x \in Items \ ItemsOf(h) : h.index[x] = index[x]
      BY <1>1, <2>1, <2>3, RoomAdds
    <3>2. HeapInv' /\ Kept' = Kept \cup {item}
      <4>1. ItemsOf(h) \subseteq pushed' /\ item \in ItemsOf(h)
        BY <1>1, <2>1, <3>1
      <4>2. \A x \in Items \ ItemsOf(h) :
              h.index[x] = IF x \in Kept THEN -1 ELSE index[x]
        BY <3>1
      <4> QED
        BY <2>2, <3>1, <4>1, <4>2
    <3>3. Abstract!PushWithRoom(item)
      BY <1>1, <2>1, <2>3, <3>2
      DEF Abstract!PushWithRoom, Abstract!Cardinality, Cardinality
    <3> QED
      BY <1>1, <3>2, <3>3 DEF Abstract!Push
  <2>4. CASE Len(priorityQueue) = maxSize
    <3>1. priorityQueue # <<>>
      BY <1>3, <2>4 DEF PopsNothing
    <3>2. PICK h : \E pop \in Abstract!Least(Kept) :
             /\ Heap(h) /\ priorityQueue' = h.pq /\ index' = h.index
             /\ ItemsOf(h) = IF Latency[pop] > Latency[item]
                               THEN Kept ELSE (Kept \ {pop}) \cup {item}
             /\ \A x \in Items \ ItemsOf(h) :
                  h.index[x] = IF x = pop THEN -1 ELSE index[x]
      <4>1. item \in Items \ pushed /\ PushUnsafe(item)
        BY <1>1, <2>1
      <4> QED
        BY <2>4, <3>1, <4>1, LimitReplaces
    <3>3. PICK pop \in Abstract!Least(Kept) :
             /\ Heap(h) /\ priorityQueue' = h.pq /\ index' = h.index
             /\ ItemsOf(h) = IF Latency[pop] > Latency[item]
                               THEN Kept ELSE (Kept \ {pop}) \cup {item}
             /\ \A x \in Items \ ItemsOf(h) :
                  h.index[x] = IF x = pop THEN -1 ELSE index[x]
      BY <3>2
    <3>4. pop \in Kept /\ pop # item
      BY <1>1 DEF Abstract!Least
    <3>5. /\ ItemsOf(h) \subseteq pushed'
          /\ \A x \in Items \ ItemsOf(h) :
               h.index[x] = IF x \in Kept THEN -1 ELSE index[x]
          /\ item \in ItemsOf(h) \/ index'[item] = 0
      <4>1. ItemsOf(h) \subseteq pushed'
        BY <1>1, <2>1, <3>3
      <4>2. ASSUME NEW x \in Items \ ItemsOf(h)
            PROVE  h.index[x] = IF x \in Kept THEN -1 ELSE index[x]
        <5>1. x \in Kept <=> x = pop
          BY <3>3, <3>4
        <5> QED
          BY <3>3, <5>1
      <4>3. ASSUME item \notin ItemsOf(h) PROVE index'[item] = 0
        BY <1>1, <3>3, <3>4, <4>3
      <4> QED
        BY <4>1, <4>2, <4>3
    <3>6. HeapInv' /\ Kept' = ItemsOf(h)
      BY <2>2, <3>3, <3>5
    <3>7. Abstract!PushAtLimit(item)
      BY <1>1, <2>1, <2>4, <3>3, <3>6
      DEF Abstract!PushAtLimit, Abstract!Cardinality, Cardinality
    <3> QED
      BY <1>1, <3>6, <3>7 DEF Abstract!Push
  <2> QED
    BY <2>3, <2>4
<1> QED
  BY <1>2, <1>3

-----------------------------------------------------------------------------
(* The theorems                                                            *)

\* A new queue, empty, is in order and is a new abstract queue.
LEMMA InitEstablishesHeapInv == Init => HeapInv /\ Abstract!Init
<1> SUFFICES ASSUME Init PROVE HeapInv /\ Abstract!Init
  OBVIOUS
<1>1. /\ Positions = {} /\ Kept = {} /\ priorityQueue \in Seq(Items)
      /\ index \in [Items -> Int] /\ \A item \in Items : index[item] = 0
  BY EmptySeq DEF Init, Positions, Kept
<1>2. maxSize \in Int /\ maxSize <= 5
  BY LimitsAssumption DEF Init, PerRequestLimit
<1>3. HeapInv
  BY <1>1, <1>2 DEF Init, HeapInv, HeapOrdered, TypeOK, Abstract!TypeOK
<1>4. Abstract!Init
  BY <1>1 DEF Init, Abstract!Init, PerRequestLimit, Abstract!PerRequestLimit
<1> QED
  BY <1>3, <1>4

\* Every step keeps the order and is a step of the abstract queue or none.
LEMMA StepKeepsHeapInv ==
  HeapInv /\ [Next]_vars => HeapInv' /\ [Abstract!Next]_(Abstract!vars)
<1> SUFFICES ASSUME HeapInv, [Next]_vars
             PROVE  HeapInv' /\ [Abstract!Next]_(Abstract!vars)
  OBVIOUS
<1>1. CASE Next
  <2>1. PICK item \in Items : Push(item)
    BY <1>1 DEF Next
  <2> QED
    BY <2>1, PushKeepsHeapInv DEF Abstract!Next
<1>2. CASE UNCHANGED vars
  <2>1. HeapInv'
    BY <1>2 DEF vars, HeapInv, HeapOrdered, TypeOK, Abstract!TypeOK, Kept, Positions
  <2>2. UNCHANGED Abstract!vars
    BY <1>2 DEF vars, Abstract!vars, Kept, Positions
  <2> QED
    BY <2>1, <2>2
<1> QED
  BY <1>1, <1>2

\* The slice of every queue is a heap whose items know their places, after
\* any sequence of pushes.
THEOREM HeapInvariant == Spec => []HeapInv
<1> QED
  BY InitEstablishesHeapInv, StepKeepsHeapInv, PTL DEF Spec

\* The slice holds items that were pushed.
THEOREM HeapTypeCorrect == Spec => []TypeOK
<1>1. HeapInv => TypeOK
  BY DEF HeapInv
<1> QED
  BY <1>1, HeapInvariant, PTL

\* No item is less than its parent and every index is right, so that heap.Pop
\* takes a least item.
THEOREM HeapStaysOrdered == Spec => []HeapOrdered
<1>1. HeapInv => HeapOrdered
  BY DEF HeapInv
<1> QED
  BY <1>1, HeapInvariant, PTL

\* The slice with its sift loops implements the abstract queue: each push keeps
\* and drops what TraceQueue allows.
THEOREM HeapImplementsTraceQueue == Spec => ImplementsTraceQueue
<1> QED
  BY InitEstablishesHeapInv, StepKeepsHeapInv, HeapInvariant, PTL
  DEF Spec, ImplementsTraceQueue, Abstract!Spec

-----------------------------------------------------------------------------
(* What TraceQueue promises, whatever stands for the items it keeps        *)

\* TraceQueue counts and limits as this module does.
LEMMA AbstractCounts ==
  /\ \A S : Abstract!Cardinality(S) = Cardinality(S)
  /\ \A S : Abstract!IsFiniteSet(S) <=> IsFiniteSet(S)
  /\ \A limit : Abstract!PerRequestLimit(limit) = PerRequestLimit(limit)
BY DEF Abstract!Cardinality, Cardinality, Abstract!IsFiniteSet, IsFiniteSet,
   Abstract!PerRequestLimit, PerRequestLimit

\* NewTraceQueue gives a queue that satisfies the invariant.
LEMMA InitEstablishesQueueInv == Abstract!Init => Abstract!QueueInv
<1> SUFFICES ASSUME Abstract!Init PROVE Abstract!QueueInv
  OBVIOUS
<1>1. maxSize \in Int /\ maxSize <= 5
  BY LimitsAssumption, AbstractCounts DEF Abstract!Init, PerRequestLimit
<1>2. IsFiniteSet(Kept) /\ Cardinality(Kept) = 0
  BY FS_EmptySet DEF Abstract!Init
<1>3. Abstract!TypeOK
  BY <1>1 DEF Abstract!Init, Abstract!TypeOK
<1>4. Abstract!WithinLimit
  BY <1>1, <1>2, AbstractCounts DEF Abstract!WithinLimit
<1>5. Abstract!KeepsSlowest /\ Abstract!DropsOnlyWhenFull /\ Abstract!PanicsOnlyAtZero
  BY DEF Abstract!Init, Abstract!KeepsSlowest, Abstract!DropsOnlyWhenFull,
         Abstract!PanicsOnlyAtZero
<1> QED
  BY <1>2, <1>3, <1>4, <1>5, AbstractCounts DEF Abstract!QueueInv

\* A queue with room has never dropped anything, so letting the new item in
\* unseen cannot put it above a slower one that was dropped.
LEMMA RoomPreservesQueueInv ==
  ASSUME Abstract!QueueInv, NEW item \in Items, item \notin pushed,
         Abstract!PushWithRoom(item)
  PROVE  Abstract!QueueInv'
<1> USE DEF Abstract!QueueInv, Abstract!PushWithRoom
<1>1. pushed = Kept
  BY DEF Abstract!DropsOnlyWhenFull
<1>2. item \notin Kept
  BY DEF Abstract!TypeOK
<1>3. /\ IsFiniteSet(Kept')
      /\ Cardinality(Kept') = Cardinality(Kept) + 1
      /\ Cardinality(Kept) \in Nat
  BY <1>2, FS_AddElement, FS_CardinalityType, AbstractCounts
<1>4. pushed' = Kept'
  BY <1>1
<1>5. Abstract!TypeOK'
  BY DEF Abstract!TypeOK
<1>6. Abstract!WithinLimit'
  BY <1>3, AbstractCounts DEF Abstract!WithinLimit, Abstract!TypeOK
<1>7. Abstract!KeepsSlowest' /\ Abstract!DropsOnlyWhenFull'
  BY <1>4 DEF Abstract!KeepsSlowest, Abstract!DropsOnlyWhenFull
<1>8. Abstract!PanicsOnlyAtZero'
  BY DEF Abstract!PanicsOnlyAtZero
<1> QED
  BY <1>3, <1>5, <1>6, <1>7, <1>8, AbstractCounts

\* At the limit exactly one item goes, the new one or a least one, and what
\* was dropped before is no slower than that one.
LEMMA LimitPreservesQueueInv ==
  ASSUME Abstract!QueueInv, NEW item \in Items, item \notin pushed,
         Abstract!PushAtLimit(item)
  PROVE  Abstract!QueueInv'
<1> USE DEF Abstract!QueueInv
<1>1. PICK pop \in Abstract!Least(Kept) :
        Kept' = IF Latency[pop] > Latency[item]
                  THEN Kept
                  ELSE (Kept \ {pop}) \cup {item}
  BY DEF Abstract!PushAtLimit
<1>2. /\ Cardinality(Kept) = maxSize
      /\ pushed' = pushed \cup {item}
      /\ UNCHANGED <<maxSize, panicked>>
      /\ IsFiniteSet(Kept)
  BY AbstractCounts DEF Abstract!PushAtLimit
<1>3. /\ pop \in Kept
      /\ \A other \in Kept : Latency[pop] <= Latency[other]
  BY DEF Abstract!Least
<1>4. /\ item \notin Kept
      /\ \A other \in Items : Latency[other] \in Int
      /\ Kept \subseteq Items
      /\ pushed \subseteq Items
  BY LatencyAssumption DEF Abstract!TypeOK
<1>5. IsFiniteSet(Kept') /\ Cardinality(Kept') = maxSize
  <2>1. CASE Latency[pop] > Latency[item]
    BY <2>1, <1>1, <1>2
  <2>2. CASE ~(Latency[pop] > Latency[item])
    <3>1. /\ IsFiniteSet(Kept \ {pop})
          /\ Cardinality(Kept \ {pop}) = Cardinality(Kept) - 1
      BY <1>2, <1>3, FS_RemoveElement
    <3>2. /\ IsFiniteSet((Kept \ {pop}) \cup {item})
          /\ Cardinality((Kept \ {pop}) \cup {item})
               = Cardinality(Kept \ {pop}) + 1
      BY <3>1, <1>4, FS_AddElement
    <3>3. Cardinality(Kept) \in Nat
      BY <1>2, FS_CardinalityType
    <3> QED
      BY <2>2, <3>1, <3>2, <3>3, <1>1, <1>2
  <2> QED
    BY <2>1, <2>2
<1>6. Abstract!TypeOK'
  BY <1>1, <1>2, <1>3 DEF Abstract!TypeOK
<1>7. Abstract!WithinLimit' /\ Abstract!DropsOnlyWhenFull' /\ Abstract!PanicsOnlyAtZero'
  BY <1>2, <1>5, AbstractCounts
  DEF Abstract!TypeOK, Abstract!WithinLimit, Abstract!DropsOnlyWhenFull,
      Abstract!PanicsOnlyAtZero
<1>8. Abstract!KeepsSlowest'
  <2> SUFFICES ASSUME NEW dropped \in pushed' \ Kept', NEW held \in Kept'
               PROVE  Latency[dropped] <= Latency[held]
    BY DEF Abstract!KeepsSlowest
  <2>1. CASE Latency[pop] > Latency[item]
    <3>1. held \in Kept /\ dropped \in (pushed \ Kept) \cup {item}
      BY <2>1, <1>1, <1>2
    <3>2. CASE dropped = item
      BY <3>1, <3>2, <2>1, <1>3, <1>4
    <3>3. CASE dropped \in pushed \ Kept
      BY <3>1, <3>3 DEF Abstract!KeepsSlowest
    <3> QED
      BY <3>1, <3>2, <3>3
  <2>2. CASE ~(Latency[pop] > Latency[item])
    <3>1. /\ held \in Kept \cup {item}
          /\ dropped \in (pushed \ Kept) \cup {pop}
      BY <2>2, <1>1, <1>2
    <3>2. Latency[dropped] <= Latency[pop]
      BY <3>1, <1>3, <1>4 DEF Abstract!KeepsSlowest
    <3>3. Latency[pop] <= Latency[held]
      BY <3>1, <2>2, <1>3, <1>4
    <3> QED
      BY <3>1, <3>2, <3>3, <1>3, <1>4
  <2> QED
    BY <2>1, <2>2
<1> QED
  BY <1>5, <1>6, <1>7, <1>8, AbstractCounts

\* A step into an empty full queue changes nothing but panicked.
LEMMA EmptyPreservesQueueInv ==
  ASSUME Abstract!QueueInv, Abstract!PopEmpty
  PROVE  Abstract!QueueInv'
<1>1. maxSize = 0
  BY FS_EmptySet, AbstractCounts DEF Abstract!PopEmpty
<1> QED
  BY <1>1
  DEF Abstract!PopEmpty, Abstract!QueueInv, Abstract!TypeOK, Abstract!WithinLimit,
      Abstract!KeepsSlowest, Abstract!DropsOnlyWhenFull, Abstract!PanicsOnlyAtZero

\* QueueInv, the conjunction of a queue's promises, is an invariant.
THEOREM QueueInvariant == Abstract!Spec => []Abstract!QueueInv
<1>1. Abstract!QueueInv /\ [Abstract!Next]_(Abstract!vars) => Abstract!QueueInv'
  <2> SUFFICES ASSUME Abstract!QueueInv, [Abstract!Next]_(Abstract!vars)
               PROVE  Abstract!QueueInv'
    OBVIOUS
  <2>1. CASE Abstract!Next
    <3>1. PICK item \in Items : Abstract!Push(item)
      BY <2>1 DEF Abstract!Next
    <3>2. CASE Abstract!PushWithRoom(item)
      BY <3>1, <3>2, RoomPreservesQueueInv DEF Abstract!Push
    <3>3. CASE Abstract!PushAtLimit(item)
      BY <3>1, <3>3, LimitPreservesQueueInv DEF Abstract!Push
    <3>4. CASE Abstract!PopEmpty
      BY <3>4, EmptyPreservesQueueInv
    <3> QED
      BY <3>1, <3>2, <3>3, <3>4 DEF Abstract!Push
  <2>2. CASE UNCHANGED Abstract!vars
    BY <2>2
    DEF Abstract!vars, Abstract!QueueInv, Abstract!TypeOK, Abstract!WithinLimit,
        Abstract!KeepsSlowest, Abstract!DropsOnlyWhenFull, Abstract!PanicsOnlyAtZero
  <2> QED
    BY <2>1, <2>2
<1> QED
  BY <1>1, InitEstablishesQueueInv, PTL DEF Abstract!Spec

\* A queue with a positive limit never outgrows it.
THEOREM QueueBounded == Abstract!Spec => []Abstract!WithinLimit
<1>1. Abstract!QueueInv => Abstract!WithinLimit
  BY DEF Abstract!QueueInv
<1> QED
  BY <1>1, QueueInvariant, PTL

\* The items a queue holds are the slowest of all that were pushed.
THEOREM QueueKeepsSlowest == Abstract!Spec => []Abstract!KeepsSlowest
<1>1. Abstract!QueueInv => Abstract!KeepsSlowest
  BY DEF Abstract!QueueInv
<1> QED
  BY <1>1, QueueInvariant, PTL

\* A queue drops a trace only when full, and is then full for ever.
THEOREM QueueDropsOnlyWhenFull == Abstract!Spec => []Abstract!DropsOnlyWhenFull
<1>1. Abstract!QueueInv => Abstract!DropsOnlyWhenFull
  BY DEF Abstract!QueueInv
<1> QED
  BY <1>1, QueueInvariant, PTL

\* push panics under a limit of zero and under no other.
THEOREM QueuePanicsOnlyAtZero == Abstract!Spec => []Abstract!PanicsOnlyAtZero
<1>1. Abstract!QueueInv => Abstract!PanicsOnlyAtZero
  BY DEF Abstract!QueueInv
<1> QED
  BY <1>1, QueueInvariant, PTL

\* What TraceQueue promises the slice keeps: the slowest items pushed, as many
\* as the limit allows.
THEOREM HeapKeepsPromises == Spec => []Abstract!QueueInv
BY HeapImplementsTraceQueue, QueueInvariant, PTL DEF ImplementsTraceQueue
=============================================================================
