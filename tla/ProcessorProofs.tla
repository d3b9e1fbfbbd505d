--------------------------- MODULE ProcessorProofs ---------------------------
(***************************************************************************)
(* What the sampler gets of a batch and what metrics are captured of it,   *)
(* for any batches, consumers, configurations and updates of them.         *)
(***************************************************************************)
EXTENDS Processor, FiniteSetTheorems, WellFoundedInduction, TLAPS

-----------------------------------------------------------------------------
(* Numbers of elements of a sequence                                       *)

\* Some numbers have a least one: the intervals up to each are finite sets,
\* and strict inclusion of these is well-founded.
LEMMA LeastExists ==
  ASSUME NEW S, S \subseteq Nat, S # {}
  PROVE  \E x \in S : \A y \in S : x =< y
<1> DEFINE R == StrictSubsetOrdering(Nat)
           T == {1..x : x \in S}
<1>1. T \subseteq FiniteSubsetsOf(Nat)
  <2>1. \A x \in S : IsFiniteSet(1..x)
    BY FS_Interval
  <2> QED
    BY <2>1 DEF FiniteSubsetsOf
<1>2. PICK least \in T : \A other \in T : <<other, least>> \notin R
  <2>1. IsWellFoundedOn(R, FiniteSubsetsOf(Nat)) /\ T # {}
    BY FS_StrictSubsetOrderingWellFounded
  <2> HIDE DEF R, T
  <2> QED
    BY <1>1, <2>1, WFMin
<1>3. PICK x \in S : least = 1..x
  OBVIOUS
<1>4. ASSUME NEW y \in S, ~(x =< y) PROVE FALSE
  <2>1. 1..y \subseteq 1..x /\ x \in 1..x /\ x \notin 1..y
    BY <1>4
  <2>2. 1..y \in T /\ <<1..y, 1..x>> \in R
    BY <2>1 DEF StrictSubsetOrdering
  <2> QED
    BY <1>2, <1>3, <2>2
<1> QED
  BY <1>4

\* Min is the least of some numbers.
LEMMA MinOf ==
  ASSUME NEW S, S \subseteq Nat, S # {}
  PROVE  Min(S) \in S /\ \A x \in S : Min(S) =< x
BY LeastExists DEF Min

\* Max is the greatest of some numbers of elements of a sequence.
LEMMA MaxOf ==
  ASSUME NEW n \in Nat, NEW S, S \subseteq 1..n, S # {}
  PROVE  Max(S) \in S /\ \A x \in S : x =< Max(S)
<1> DEFINE T == {n - x : x \in S}
<1>1. T \subseteq Nat /\ T # {}
  OBVIOUS
<1>2. PICK t \in T : \A u \in T : t =< u
  <2> HIDE DEF T
  <2> QED
    BY <1>1, LeastExists
<1>3. PICK x \in S : t = n - x
  OBVIOUS
<1>4. ASSUME NEW y \in S PROVE x >= y
  <2>1. n - y \in T
    OBVIOUS
  <2>2. n - x =< n - y
    BY <1>2, <1>3, <2>1
  <2> QED
    BY <2>2
<1> QED
  BY <1>4 DEF Max

-----------------------------------------------------------------------------
(* Places in a batch                                                       *)

\* A place is a pair of numbers, with a span in it.
LEMMA PlaceType ==
  ASSUME NEW b \in Batches, NEW p \in Positions(b)
  PROVE  /\ p \in Nat \X Nat /\ p[1] \in DOMAIN b /\ p[2] \in DOMAIN b[p[1]].spans
         /\ SpanAt(b, p) \in Spans
<1>1. PICK i \in DOMAIN b : p \in {i} \X DOMAIN b[i].spans
  BY DEF Positions
<1>2. IsSequence(b) /\ b[i].spans \in Seq(Spans)
  BY BatchesAssumption
<1>3. i \in Nat /\ p[1] = i /\ p[2] \in DOMAIN b[i].spans /\ p = <<p[1], p[2]>>
  BY <1>1, <1>2 DEF IsSequence
<1> QED
  BY <1>2, <1>3 DEF SpanAt

\* The places are in order, one after the other.
LEMMA PlacesInOrder ==
  ASSUME NEW p \in Nat \X Nat, NEW q \in Nat \X Nat
  PROVE  /\ ~Before(p, p)
         /\ Before(p, q) => ~Before(q, p) /\ p # q
         /\ Before(p, q) \/ p = q \/ Before(q, p)
BY DEF Before

\* A span is in one place of one batch, so that an arrival is one span's.
LEMMA OnePlace ==
  ASSUME NEW b \in Batches, NEW d \in Batches,
         NEW p \in Positions(b), NEW q \in Positions(d),
         SpanAt(b, p) = SpanAt(d, q)
  PROVE  b = d /\ p = q
BY BatchesAssumption

\* A span that is kept is in exactly one list of its segment.
LEMMA RoleType ==
  ASSUME NEW s \in Spans
  PROVE  /\ Role(s) \in Roles
         /\ Role(s) = "root" <=> IsRoot(s)
         /\ Role(s) # "internal" => IsRoot(s) \/ IsEntry(s) \/ IsExit(s)
BY SpanAssumption DEF Role, Roles, IsRoot, IsEntry, IsExit

-----------------------------------------------------------------------------
(* convertToTraces                                                         *)

\* All that is needed of places: where they are, and of one, that it comes
\* after the others.
NextPlace(b, places, p, after) ==
  /\ places \subseteq Positions(b) /\ p \in Positions(b)
  /\ after = places \cup {p}
  /\ \A q \in places : Before(q, p)

\* A place that comes after the others is kept, and with it those it does not
\* replace.
LEMMA KeptWithNext ==
  ASSUME NEW b \in Batches, NEW places, NEW p, NEW after, NextPlace(b, places, p, after)
  PROVE  \A q : q \in Kept(b, after) <=>
           \/ q = p
           \/ /\ q \in Kept(b, places)
              /\ ~(/\ PlaceOf(b, q) = PlaceOf(b, p)
                   /\ IsRoot(SpanAt(b, q)) /\ IsRoot(SpanAt(b, p)))
<1>1. \A q \in after : q \in Nat \X Nat
  BY PlaceType DEF NextPlace
<1>2. p \notin places /\ \A q \in after : ~Before(p, q)
  BY <1>1, PlacesInOrder DEF NextPlace
<1> QED
  BY <1>2 DEF Kept, NextPlace

\* The lists of a segment after the span at the next place.
LEMMA SpansWithNext ==
  ASSUME NEW b \in Batches, NEW places, NEW p, NEW after, NextPlace(b, places, p, after),
         NEW place, NEW role \in Roles
  PROVE  SpansIn(b, after, place, role) =
           IF place = PlaceOf(b, p) /\ role = Role(SpanAt(b, p))
             THEN {SpanAt(b, p)} \cup (IF IsRoot(SpanAt(b, p)) THEN {}
                                      ELSE SpansIn(b, places, place, role))
             ELSE SpansIn(b, places, place, role)
<1> DEFINE s == SpanAt(b, p)
<1>1. \A q \in after :
        Role(SpanAt(b, q)) = "root" <=> IsRoot(SpanAt(b, q))
  BY PlaceType, RoleType DEF NextPlace
<1>2. Kept(b, places) \subseteq places /\ places \subseteq after /\ p \in after
  BY DEF Kept, NextPlace
<1> DEFINE Has(q) == PlaceOf(b, q) = place /\ Role(SpanAt(b, q)) = role
<1>3. \A x :
        /\ x \in SpansIn(b, after, place, role) <=>
             \E q \in Kept(b, after) : x = SpanAt(b, q) /\ Has(q)
        /\ x \in SpansIn(b, places, place, role) <=>
             \E q \in Kept(b, places) : x = SpanAt(b, q) /\ Has(q)
  BY DEF SpansIn
<1>4. CASE Has(p) /\ IsRoot(s)
  <2>1. \A q \in Kept(b, after) : Has(q) <=> q = p
    BY <1>1, <1>2, <1>4, KeptWithNext
  <2> QED
    BY <1>3, <1>4, <2>1, KeptWithNext
<1>5. CASE Has(p) /\ ~IsRoot(s)
  BY <1>3, <1>5, KeptWithNext
<1>6. CASE ~Has(p)
  <2>1. \A q : q \in Kept(b, after) /\ Has(q) <=> q \in Kept(b, places) /\ Has(q)
    BY <1>1, <1>2, <1>6, KeptWithNext
  <2> QED
    BY <1>3, <1>6, <2>1
<1> QED
  BY <1>4, <1>5, <1>6

\* A turn of the loops makes of the segments of the places so far those of
\* these and the next.
LEMMA TurnAddsPlace ==
  ASSUME NEW b \in Batches, NEW places, NEW p, NEW after, NextPlace(b, places, p, after)
  PROVE  AddSpan(SegmentsOf(b, places), SpanAt(b, p), b[p[1]])
           = SegmentsOf(b, after)
<1> DEFINE s == SpanAt(b, p)
           here == PlaceOf(b, p)
           old == SegmentsOf(b, places)
           new == SegmentsOf(b, after)
           ts == IF here \in DOMAIN old THEN old[here] ELSE NewSegment(b[p[1]])
           made == AddSpan(old, s, b[p[1]])
<1>1. DOMAIN new = DOMAIN old \cup {here}
  BY DEF SegmentsOf, NextPlace
<1>2. made = [q \in DOMAIN old \cup {here} |->
                IF q = here THEN [ts EXCEPT !.spans = WithSpan(@, s)] ELSE old[q]]
  BY DEF AddSpan, PlaceOf
<1>3. ASSUME NEW q \in DOMAIN old, q # here PROVE new[q] = old[q]
  <2>1. ASSUME NEW role \in Roles
        PROVE  SpansIn(b, after, q, role) = SpansIn(b, places, q, role)
    BY <1>3, SpansWithNext
  <2> QED
    BY <1>1, <1>3, <2>1 DEF SegmentsOf
<1>4. ts = [namespace |-> here[2][1], service |-> here[2][2],
            spans |-> [role \in Roles |-> SpansIn(b, places, here, role)]]
  <2>1. CASE here \in DOMAIN old
    BY <2>1 DEF SegmentsOf
  <2>2. CASE here \notin DOMAIN old
    <3>1. \A role \in Roles : SpansIn(b, places, here, role) = {}
      BY <2>2 DEF SegmentsOf, SpansIn, Kept
    <3>2. /\ b[p[1]].namespace = here[2][1]
          /\ b[p[1]].service = here[2][2]
      BY DEF PlaceOf, Place, SegmentKey
    <3> QED
      BY <2>2, <3>1, <3>2 DEF NewSegment
  <2> QED
    BY <2>1, <2>2
<1>5. [ts EXCEPT !.spans = WithSpan(@, s)] = new[here]
  <2>1. ASSUME NEW role \in Roles
        PROVE  SpansIn(b, after, here, role) =
                 IF role = Role(s)
                   THEN {s} \cup (IF IsRoot(s) THEN {}
                                   ELSE SpansIn(b, places, here, role))
                   ELSE SpansIn(b, places, here, role)
    BY SpansWithNext
  <2> DEFINE lists == [role \in Roles |-> SpansIn(b, places, here, role)]
             grown == [role \in Roles |-> SpansIn(b, after, here, role)]
  <2>2. WithSpan(lists, s) = grown
    BY <2>1 DEF WithSpan
  <2>3. new[here] = [namespace |-> here[2][1], service |-> here[2][2],
                     spans |-> grown]
    <3>1. here \in {PlaceOf(b, q) : q \in after}
      BY DEF NextPlace
    <3> QED
      BY <3>1 DEF SegmentsOf
  <2> HIDE DEF ts, lists, grown, new, here
  <2> QED
    BY <1>4, <2>2, <2>3 DEF lists
<1>6. new = [q \in DOMAIN old \cup {here} |-> new[q]]
  BY <1>1 DEF SegmentsOf
<1> HIDE DEF ts, new, old, here, made
<1>7. made = new
  BY <1>2, <1>3, <1>5, <1>6
<1> QED
  BY <1>7 DEF made, new, old

\* The spans of a segment are those kept of its place, in the lists of their
\* roles and under the namespace and service they arrived with.
LEMMA SpansOfSegment ==
  ASSUME NEW b \in Batches, NEW places, places \subseteq Positions(b),
         NEW place \in DOMAIN SegmentsOf(b, places), NEW role \in Roles, NEW x
  PROVE  LET segment == SegmentsOf(b, places)[place] IN
         (\E s \in segment.spans[role] : x = At(s, segment)) <=>
           \E p \in Kept(b, places) :
             PlaceOf(b, p) = place /\ Role(SpanAt(b, p)) = role /\ x = Arrival(b, p)
<1> DEFINE segment == SegmentsOf(b, places)[place]
<1>1. /\ segment.namespace = place[2][1] /\ segment.service = place[2][2]
      /\ segment.spans[role] = SpansIn(b, places, place, role)
  BY DEF SegmentsOf
<1> HIDE DEF segment
<1>2. ASSUME NEW p \in Kept(b, places), PlaceOf(b, p) = place
      PROVE  At(SpanAt(b, p), segment) = Arrival(b, p)
  <2>1. /\ b[p[1]].namespace = place[2][1]
        /\ b[p[1]].service = place[2][2]
    BY <1>2 DEF PlaceOf, Place, SegmentKey
  <2> QED
    BY <1>1, <2>1 DEF At, Arrival
<1>3. \A s : s \in segment.spans[role] <=>
        \E p \in Kept(b, places) :
          s = SpanAt(b, p) /\ PlaceOf(b, p) = place /\ Role(SpanAt(b, p)) = role
  BY <1>1 DEF SpansIn
<1>4. (\E s \in segment.spans[role] : x = At(s, segment)) <=>
        \E p \in Kept(b, places) :
          PlaceOf(b, p) = place /\ Role(SpanAt(b, p)) = role /\ x = Arrival(b, p)
  BY <1>2, <1>3
<1> QED
  BY <1>4 DEF segment

\* Every place is of a span with a role, of a segment that was made.
LEMMA PlaceHasSegment ==
  ASSUME NEW b \in Batches, NEW places, places \subseteq Positions(b),
         NEW p \in Kept(b, places)
  PROVE  /\ p \in places /\ p \in Positions(b)
         /\ PlaceOf(b, p) \in DOMAIN SegmentsOf(b, places)
         /\ Role(SpanAt(b, p)) \in Roles
<1>1. p \in places
  BY DEF Kept
<1> QED
  BY <1>1, PlaceType, RoleType DEF SegmentsOf

\* The spans consumeTraces walks are those kept that are not internal.
LEMMA NonInternalKept ==
  ASSUME NEW b \in Batches, NEW places, places \subseteq Positions(b), NEW x
  PROVE  x \in NonInternal(SegmentsOf(b, places)) <=>
           \E p \in Kept(b, places) :
             Role(SpanAt(b, p)) # "internal" /\ x = Arrival(b, p)
<1> DEFINE made == SegmentsOf(b, places)
           In(place, role) == \E s \in made[place].spans[role] : x = At(s, made[place])
           Arrives(place, role) ==
             \E p \in Kept(b, places) :
               PlaceOf(b, p) = place /\ Role(SpanAt(b, p)) = role /\ x = Arrival(b, p)
<1>1. \A place \in DOMAIN made, role \in Roles :
        In(place, role) <=> Arrives(place, role)
  BY SpansOfSegment
<1>2. x \in NonInternal(made) <=>
        \E place \in DOMAIN made : \E role \in Roles \ {"internal"} : In(place, role)
  BY DEF NonInternal, NonInternalSpans, Roles
<1> HIDE DEF made, In
<1>3. x \in NonInternal(made) <=>
        \E place \in DOMAIN made : \E role \in Roles \ {"internal"} : Arrives(place, role)
  BY <1>1, <1>2
<1>4. \A p \in Kept(b, places) :
        PlaceOf(b, p) \in DOMAIN made /\ Role(SpanAt(b, p)) \in Roles
  BY PlaceHasSegment DEF made
<1>5. x \in NonInternal(made) <=>
        \E p \in Kept(b, places) :
          Role(SpanAt(b, p)) # "internal" /\ x = Arrival(b, p)
  BY <1>3, <1>4
<1> QED
  BY <1>5 DEF made

\* The trace that the segment of a place belongs to.
TraceOf(made, place) == {made[q] : q \in {r \in DOMAIN made : r[1] = place[1]}}

\* A trace is exported with the spans kept that have its ID.
LEMMA TraceExports ==
  ASSUME NEW b \in Batches, NEW places, places \subseteq Positions(b),
         NEW place \in DOMAIN SegmentsOf(b, places), NEW x
  PROVE  x \in BuildTrace(TraceOf(SegmentsOf(b, places), place)) <=>
           \E p \in Kept(b, places) :
             Data[SpanAt(b, p)].trace = place[1] /\ x = Arrival(b, p)
<1> DEFINE made == SegmentsOf(b, places)
           In(q, role) == \E s \in made[q].spans[role] : x = At(s, made[q])
           Arrives(q, role) ==
             \E p \in Kept(b, places) :
               PlaceOf(b, p) = q /\ Role(SpanAt(b, p)) = role /\ x = Arrival(b, p)
<1>1. \A q \in DOMAIN made, role \in Roles : In(q, role) <=> Arrives(q, role)
  BY SpansOfSegment
<1>2. x \in BuildTrace(TraceOf(made, place)) <=>
        \E q \in DOMAIN made : q[1] = place[1] /\ \E role \in Roles : In(q, role)
  BY DEF BuildTrace, TraceOf, NonInternalSpans, InternalSpans, Roles
<1> HIDE DEF made, In
<1>3. x \in BuildTrace(TraceOf(made, place)) <=>
        \E q \in DOMAIN made : q[1] = place[1] /\ \E role \in Roles : Arrives(q, role)
  BY <1>1, <1>2
<1>4. \A p \in Kept(b, places) :
        /\ PlaceOf(b, p) \in DOMAIN made /\ Role(SpanAt(b, p)) \in Roles
        /\ PlaceOf(b, p)[1] = Data[SpanAt(b, p)].trace
  BY PlaceHasSegment DEF made, PlaceOf, Place
<1>5. x \in BuildTrace(TraceOf(made, place)) <=>
        \E p \in Kept(b, places) :
          Data[SpanAt(b, p)].trace = place[1] /\ x = Arrival(b, p)
  BY <1>3, <1>4
<1> QED
  BY <1>5 DEF made

\* Of the places the loops come to, those not kept are of earlier root spans.
LEMMA LostAreEarlierRoots ==
  ASSUME NEW b \in Batches, NEW p \in Visited(b)
  PROVE  p \in Kept(b, Visited(b)) <=> Arrival(b, p) \notin EarlierRoots(b)
<1> DEFINE Of(q) == <<Data[SpanAt(b, q)].trace, b[q[1]].namespace, b[q[1]].service>>
           Root(q) == ~Data[SpanAt(b, q)].hasParent
<1>1. \A q \in Positions(b) : Arrival(b, q) = Arrival(b, p) <=> q = p
  <2>1. \A q \in Positions(b) : Arrival(b, q).span = SpanAt(b, q)
    BY DEF Arrival
  <2> QED
    BY <2>1, OnePlace DEF Visited
<1>2. Arrival(b, p) \in EarlierRoots(b) <=>
        \E q, r \in Positions(b) :
          /\ Root(q) /\ Root(r) /\ Before(q, r) /\ Of(q) = Of(r)
          /\ Arrival(b, p) = Arrival(b, q)
  BY DEF EarlierRoots
<1>3. \A q, r \in Positions(b) : PlaceOf(b, q) = PlaceOf(b, r) <=> Of(q) = Of(r)
  BY DEF PlaceOf, Place, SegmentKey
<1>4. \A q, r \in Positions(b) : Of(q) = Of(r) => b[q[1]].service = b[r[1]].service
  OBVIOUS
<1> HIDE DEF Of
<1>5. p \in Kept(b, Visited(b)) <=>
        ~\E r \in Visited(b) : Before(p, r) /\ Of(p) = Of(r) /\ Root(p) /\ Root(r)
  BY <1>3 DEF Kept, IsRoot, Visited
<1>6. \A r \in Positions(b) : Of(p) = Of(r) => r \in Visited(b)
  BY <1>4 DEF Visited
<1> QED
  BY <1>1, <1>2, <1>5, <1>6 DEF Visited

\* All is exported but the earlier root spans.
LEMMA AllButEarlierRoots ==
  ASSUME NEW b \in Batches
  PROVE  UNION {BuildTrace(t) : t \in TracesOf(SegmentsOf(b, Visited(b)))}
           = Arrivals(b) \ EarlierRoots(b)
<1> DEFINE made == SegmentsOf(b, Visited(b))
           exported == UNION {BuildTrace(t) : t \in TracesOf(made)}
<1>1. Visited(b) \subseteq Positions(b)
  BY DEF Visited
<1>2. \A x : x \in exported <=>
        \E place \in DOMAIN made : x \in BuildTrace(TraceOf(made, place))
  BY DEF TracesOf, TraceOf
<1>3. \A x : x \in exported <=> \E p \in Kept(b, Visited(b)) : x = Arrival(b, p)
  <2> SUFFICES ASSUME NEW x
               PROVE  x \in exported <=>
                        \E p \in Kept(b, Visited(b)) : x = Arrival(b, p)
    OBVIOUS
  <2>1. \A place \in DOMAIN made : x \in BuildTrace(TraceOf(made, place)) <=>
          \E p \in Kept(b, Visited(b)) :
            Data[SpanAt(b, p)].trace = place[1] /\ x = Arrival(b, p)
    BY <1>1, TraceExports
  <2>2. \A p \in Kept(b, Visited(b)) :
          /\ PlaceOf(b, p) \in DOMAIN made
          /\ Data[SpanAt(b, p)].trace = PlaceOf(b, p)[1]
    BY <1>1, PlaceHasSegment DEF PlaceOf, Place
  <2> HIDE DEF made, exported
  <2> QED
    BY <1>2, <2>1, <2>2
<1>4. \A x : x \in Arrivals(b) <=> \E p \in Visited(b) : x = Arrival(b, p)
  BY DEF Arrivals, Visited
<1>5. Kept(b, Visited(b)) \subseteq Visited(b)
  BY DEF Kept
<1> HIDE DEF exported
<1>6. exported = Arrivals(b) \ EarlierRoots(b)
  BY <1>3, <1>4, <1>5, LostAreEarlierRoots
<1> QED
  BY <1>6 DEF exported

\* Two spans are in one trace when they have the ID of one.
LEMMA TracesAreApart ==
  ASSUME NEW b \in Batches, NEW places, places \subseteq Positions(b),
         NEW t \in TracesOf(SegmentsOf(b, places)),
         NEW u \in TracesOf(SegmentsOf(b, places)),
         NEW x \in BuildTrace(t), NEW y \in BuildTrace(u)
  PROVE  (t = u) = (Data[x.span].trace = Data[y.span].trace)
<1> DEFINE made == SegmentsOf(b, places)
<1>1. \A p : Arrival(b, p).span = SpanAt(b, p)
  BY DEF Arrival
<1>2. \A v \in TracesOf(made) : \E place \in DOMAIN made : v = TraceOf(made, place)
  BY DEF TracesOf, TraceOf
<1>3. PICK f \in DOMAIN made : t = TraceOf(made, f)
  BY <1>2
<1>4. PICK g \in DOMAIN made : u = TraceOf(made, g)
  BY <1>2
<1>5. Data[x.span].trace = f[1] /\ Data[y.span].trace = g[1]
  BY <1>1, <1>3, <1>4, TraceExports
<1>6. ASSUME t = u PROVE Data[y.span].trace = f[1]
  <2>1. y \in BuildTrace(TraceOf(made, f))
    BY <1>3, <1>6
  <2> QED
    BY <1>1, <2>1, TraceExports
<1>7. f[1] = g[1] => t = u
  BY <1>3, <1>4 DEF TraceOf
<1> QED
  BY <1>5, <1>6, <1>7

-----------------------------------------------------------------------------
(* enrichSpan                                                              *)

Compiled(rules) == [i \in DOMAIN rules |-> CompileRule(rules[i])]

\* What is compiled for a key of some configs: the rules of the last for it.
LastRules(configs, key) ==
  configs[Max({i \in DOMAIN configs : ConfigKey(configs[i]) = key})].rules

Keys(configs) == {ConfigKey(configs[i]) : i \in DOMAIN configs}

\* The last of the entries for a name is one of them, and the configs of it and
\* the rules of these are sequences.
LEMMA EntryType ==
  ASSUME NEW config \in SpanAttributes, NEW name \in Names(config)
  PROVE  LET configs == ConfigsFor(config, name) IN
         /\ IsSequence(configs)
         /\ \A i \in DOMAIN configs : IsSequence(configs[i].rules)
<1> DEFINE here == {i \in DOMAIN config : config[i].name = name}
<1>1. IsSequence(config)
  BY ConfigurationAssumption
<1>2. Max(here) \in here
  BY <1>1, MaxOf DEF IsSequence, Names
<1> QED
  BY <1>2, ConfigurationAssumption DEF ConfigsFor

\* The compiled form of an attribute has a list for each of its keys.
LEMMA CompiledEntry ==
  ASSUME NEW config \in SpanAttributes, NEW name \in Names(config)
  PROVE  /\ DOMAIN Compile(config) = Names(config)
         /\ Compile(config)[name] =
              [key \in Keys(ConfigsFor(config, name)) |->
                 Compiled(LastRules(ConfigsFor(config, name), key))]
BY DEF Compile, LastWith, Compiled, LastRules, Keys, ConfigsFor, Names

\* The rules for a key are those of a config, if there is one for it.
LEMMA RulesForKey ==
  ASSUME NEW configs, IsSequence(configs), NEW key
  PROVE  /\ key \notin Keys(configs) => RulesFor(configs, key) = {}
         /\ key \in Keys(configs) =>
              /\ RulesFor(configs, key) = {LastRules(configs, key)}
              /\ \E i \in DOMAIN configs : LastRules(configs, key) = configs[i].rules
<1> DEFINE here == {i \in DOMAIN configs : ConfigKey(configs[i]) = key}
<1>1. here # {} <=> key \in Keys(configs)
  BY DEF Keys
<1>2. here # {} => Max(here) \in here
  BY MaxOf DEF IsSequence
<1>3. RulesFor(configs, key) = {LastRules(configs, key) : i \in here}
  BY DEF RulesFor, LastRules
<1>4. LastRules(configs, key) = configs[Max(here)].rules
  BY DEF LastRules
<1> HIDE DEF here
<1>5. here = {} => RulesFor(configs, key) = {}
  BY <1>3
<1>6. here # {} => RulesFor(configs, key) = {LastRules(configs, key)}
  BY <1>3
<1> QED
  BY <1>1, <1>2, <1>4, <1>5, <1>6 DEF here

\* A compiled rule yields what the rule yields.
LEMMA RuleYields ==
  ASSUME NEW rule, NEW kind, NEW attrs
  PROVE  LET values == [k \in DOMAIN rule.sources |-> attrs[rule.sources[k]]]
             value == CustomAttribute(CompileRule(rule), kind, attrs)
         IN  /\ Yields(rule, kind, attrs) <=> value # NoValue
             /\ Yields(rule, kind, attrs) => value = rule.value[values]
<1> DEFINE c == CompileRule(rule)
<1>1. /\ c.kinds = IF rule.kinds = {} THEN {"Server"} ELSE rule.kinds
      /\ c.sources = rule.sources /\ c.value = rule.value
  BY DEF CompileRule
<1> HIDE DEF c
<1>2. kind \in c.kinds <=>
        IF rule.kinds = {} THEN kind = "Server" ELSE kind \in rule.kinds
  BY <1>1
<1>3. LET values == [k \in DOMAIN rule.sources |-> attrs[rule.sources[k]]]
          value == CustomAttribute(c, kind, attrs)
      IN  /\ Yields(rule, kind, attrs) <=> value # NoValue
          /\ Yields(rule, kind, attrs) => value = rule.value[values]
  BY <1>1, <1>2 DEF CustomAttribute, Yields
<1> QED
  BY <1>3 DEF c

\* A value, or none.
Some(value) == IF value = NoValue THEN {} ELSE {value}

\* Of some rules the value is that of the first that yields one.
LEMMA FirstValueYielded ==
  ASSUME NEW rules, IsSequence(rules), NEW kind, NEW attrs
  PROVE  FirstYield(rules, kind, attrs) =
           Some(FirstValue(Compiled(rules), kind, attrs))
<1> DEFINE Value(i) == CustomAttribute(Compiled(rules)[i], kind, attrs)
           Values(i) == [k \in DOMAIN rules[i].sources |-> attrs[rules[i].sources[k]]]
           yielding == {i \in DOMAIN rules : Value(i) # NoValue}
           first == {i \in DOMAIN rules :
                       /\ Yields(rules[i], kind, attrs)
                       /\ \A k \in 1..(i - 1) : ~Yields(rules[k], kind, attrs)}
<1>1. /\ DOMAIN rules \subseteq Nat \ {0}
      /\ \A i \in DOMAIN rules : 1..(i - 1) \subseteq DOMAIN rules
  BY DEF IsSequence
<1>2. \A i \in DOMAIN rules :
        /\ Yields(rules[i], kind, attrs) <=> Value(i) # NoValue
        /\ Yields(rules[i], kind, attrs) => Value(i) = rules[i].value[Values(i)]
  BY RuleYields DEF Compiled
<1>3. FirstYield(rules, kind, attrs) = {rules[i].value[Values(i)] : i \in first}
  BY DEF FirstYield
<1>4. FirstValue(Compiled(rules), kind, attrs) =
        IF yielding = {} THEN NoValue ELSE Value(Min(yielding))
  BY DEF FirstValue, Compiled
<1>5. first \subseteq yielding
  BY <1>2
<1>6. CASE yielding = {}
  BY <1>3, <1>4, <1>5, <1>6 DEF Some
<1>7. CASE yielding # {}
  <2>1. Min(yielding) \in yielding /\ \A i \in yielding : Min(yielding) =< i
    BY <1>1, <1>7, MinOf
  <2>2. first = {Min(yielding)}
    <3> DEFINE m == Min(yielding)
    <3>1. m \in Nat \ {0} /\ m \in DOMAIN rules /\ Yields(rules[m], kind, attrs)
      BY <1>1, <1>2, <2>1
    <3>2. ASSUME NEW k \in 1..(m - 1), Yields(rules[k], kind, attrs) PROVE FALSE
      <4>1. k \in DOMAIN rules /\ ~(m =< k)
        BY <1>1, <3>1
      <4>2. k \in yielding
        BY <1>2, <3>2, <4>1
      <4> QED
        BY <2>1, <4>1, <4>2
    <3>3. ASSUME NEW i \in first, i # m PROVE FALSE
      <4>1. i \in Nat /\ m =< i
        BY <1>1, <1>5, <2>1
      <4>2. m \in 1..(i - 1)
        BY <1>1, <3>1, <3>3, <4>1
      <4> QED
        BY <3>1, <4>2
    <3> QED
      BY <3>1, <3>2, <3>3
  <2>3. Value(Min(yielding)) # NoValue
    BY <2>1
  <2>4. Value(Min(yielding)) = rules[Min(yielding)].value[Values(Min(yielding))]
    BY <1>2, <2>1, <2>3
  <2> HIDE DEF Value, Values, first, yielding
  <2> QED
    BY <1>3, <1>4, <1>7, <2>2, <2>3, <2>4 DEF Some
<1> QED
  BY <1>6, <1>7

\* The same of the rules for a key of some configs.
LEMMA ValueForKey ==
  ASSUME NEW configs, IsSequence(configs),
         \A i \in DOMAIN configs : IsSequence(configs[i].rules),
         NEW key \in Keys(configs), NEW kind, NEW attrs
  PROVE  UNION {FirstYield(rules, kind, attrs) : rules \in RulesFor(configs, key)}
           = Some(FirstValue(Compiled(LastRules(configs, key)), kind, attrs))
<1>1. /\ RulesFor(configs, key) = {LastRules(configs, key)}
      /\ IsSequence(LastRules(configs, key))
  BY RulesForKey
<1>2. FirstYield(LastRules(configs, key), kind, attrs) =
        Some(FirstValue(Compiled(LastRules(configs, key)), kind, attrs))
  BY <1>1, FirstValueYielded
<1> QED
  BY <1>1, <1>2

\* No config has a key of an absent namespace alone.
LEMMA NoKeyOfAbsent ==
  ASSUME NEW configs
  PROVE  <<Absent>> \notin Keys(configs)
<1>1. \A config : ConfigKey(config) # <<Absent>>
  <2> SUFFICES ASSUME NEW config PROVE ConfigKey(config) # <<Absent>>
    OBVIOUS
  <2>1. CASE config.namespace # Absent /\ config.service # Absent
    BY <2>1 DEF ConfigKey
  <2>2. CASE config.namespace # Absent /\ config.service = Absent
    BY <2>2 DEF ConfigKey
  <2>3. CASE config.namespace = Absent /\ config.service # Absent
    BY <2>3 DEF ConfigKey
  <2>4. CASE config.namespace = Absent /\ config.service = Absent
    BY <2>4, EmptyAssumption DEF ConfigKey, DefaultKey
  <2> QED
    BY <2>1, <2>2, <2>3, <2>4
<1> QED
  BY <1>1 DEF Keys

\* The keys whose rules may be a span's own, in the order they are tried.
OwnKeys(at) ==
  IF at.namespace = Absent THEN << <<at.service>> >>
  ELSE << <<at.namespace, at.service>>, <<at.namespace>>, <<at.service>> >>

\* The rules of the first of these keys that has any.
OwnRules(configs, at) ==
  UNION {RulesFor(configs, OwnKeys(at)[i]) :
           i \in {j \in DOMAIN OwnKeys(at) :
                    \A k \in 1..(j - 1) : RulesFor(configs, OwnKeys(at)[k]) = {}}}

\* They are those getAttrConfigs finds.
LEMMA OwnRulesFound ==
  ASSUME NEW configs, IsSequence(configs),
         \A i \in DOMAIN configs : IsSequence(configs[i].rules),
         NEW at, NEW byKey,
         byKey = [key \in Keys(configs) |-> Compiled(LastRules(configs, key))],
         NEW kind, NEW attrs
  PROVE  UNION {FirstYield(rules, kind, attrs) : rules \in OwnRules(configs, at)}
           = Some(FirstValue(AttrConfigs(byKey, at.namespace, at.service), kind, attrs))
<1> DEFINE keys == KeysOf(at.namespace, at.service)
           configured == {i \in DOMAIN keys : keys[i] \in DOMAIN byKey}
           own == OwnKeys(at)
           Found == AttrConfigs(byKey, at.namespace, at.service)
<1>1. DOMAIN byKey = Keys(configs)
  OBVIOUS
<1>2. \A key : key \in Keys(configs) <=> RulesFor(configs, key) # {}
  BY RulesForKey
<1>3. at.namespace = Absent =>
        /\ own = << <<at.service>> >> /\ DOMAIN own = {1}
        /\ keys = << <<at.service>>, <<Absent>>, <<at.service>> >>
        /\ keys[2] \notin Keys(configs)
  BY NoKeyOfAbsent DEF OwnKeys, KeysOf, ServiceKey
<1>4. at.namespace # Absent => keys = own /\ DOMAIN own = 1..3
  BY DEF OwnKeys, KeysOf, ServiceKey
<1>5. DOMAIN keys = 1..3
  BY DEF KeysOf
<1>6. CASE \E i \in DOMAIN own :
             /\ own[i] \in Keys(configs)
             /\ \A k \in 1..(i - 1) : own[k] \notin Keys(configs)
  <2>1. PICK i \in DOMAIN own :
          /\ own[i] \in Keys(configs)
          /\ \A k \in 1..(i - 1) : own[k] \notin Keys(configs)
    BY <1>6
  <2>2. OwnRules(configs, at) = RulesFor(configs, own[i])
    <3>1. \A j \in DOMAIN own : i \in 1..(j - 1) \/ j \in 1..i
      BY DEF OwnKeys
    <3>2. \A j \in DOMAIN own : j \in 1..i => j = i \/ j \in 1..(i - 1)
      BY DEF OwnKeys
    <3> QED
      BY <1>2, <2>1, <3>1, <3>2 DEF OwnRules
  <2>3. Found = byKey[own[i]]
    <3>1. i \in configured /\ i \in Nat /\ keys[i] = own[i]
      BY <1>1, <1>3, <1>4, <1>5, <2>1
    <3>2. Min(configured) \in configured /\ Min(configured) =< i
      BY <3>1, MinOf, configured \subseteq Nat DEF KeysOf
    <3>3. keys[Min(configured)] = own[i]
      <4>1. CASE at.namespace = Absent
        BY <1>1, <1>3, <1>5, <2>1, <3>2, <4>1
      <4>2. CASE at.namespace # Absent
        BY <1>1, <1>4, <2>1, <3>1, <3>2, <4>2
      <4> QED
        BY <4>1, <4>2
    <3> QED
      BY <3>1, <3>3 DEF AttrConfigs
  <2> QED
    BY <2>1, <2>2, <2>3, ValueForKey
<1>7. CASE \A i \in DOMAIN own : own[i] \notin Keys(configs)
  <2>1. OwnRules(configs, at) = {}
    BY <1>2, <1>7 DEF OwnRules
  <2>2. configured = {}
    BY <1>1, <1>3, <1>4, <1>5, <1>7
  <2>3. FirstValue(<<>>, kind, attrs) = NoValue
    BY DEF FirstValue
  <2> QED
    BY <2>1, <2>2, <2>3 DEF AttrConfigs, Some
<1>8. CASE \E i \in DOMAIN own : own[i] \in Keys(configs)
  <2> DEFINE S == {i \in DOMAIN own : own[i] \in Keys(configs)}
  <2>1. PICK i \in S : \A k \in S : i =< k
    BY <1>3, <1>4, <1>8, LeastExists
  <2>2. \A k \in 1..(i - 1) : k \in DOMAIN own /\ ~(i =< k)
    BY <1>3, <1>4, <2>1
  <2> QED
    BY <1>6, <2>1, <2>2
<1> QED
  BY <1>7, <1>8

\* What enrichSpan finds for an attribute is what the configuration says.
LEMMA FoundAsConfigured ==
  ASSUME NEW config \in SpanAttributes, NEW name \in Names(config), NEW at, NEW attrs
  PROVE  ValueFrom(ConfigsFor(config, name), at, attrs) =
           Some(TargetValue(Compile(config)[name], at.namespace, at.service,
                            Data[at.span].kind, attrs))
<1> DEFINE configs == ConfigsFor(config, name)
           byKey == Compile(config)[name]
           kind == Data[at.span].kind
           ValuesOf(lists) == UNION {FirstYield(rules, kind, attrs) : rules \in lists}
           own == FirstValue(AttrConfigs(byKey, at.namespace, at.service), kind, attrs)
<1>1. ValueFrom(configs, at, attrs) =
        IF ValuesOf(OwnRules(configs, at)) # {} THEN ValuesOf(OwnRules(configs, at))
        ELSE ValuesOf(RulesFor(configs, DefaultKey))
  BY DEF ValueFrom, OwnRules, OwnKeys
<1>2. /\ IsSequence(configs)
      /\ \A i \in DOMAIN configs : IsSequence(configs[i].rules)
      /\ byKey = [key \in Keys(configs) |-> Compiled(LastRules(configs, key))]
  BY EntryType, CompiledEntry
<1> HIDE DEF configs, byKey, kind
<1>3. ValuesOf(OwnRules(configs, at)) = Some(own)
  BY <1>2, OwnRulesFound
<1>4. DefaultKey \in DOMAIN byKey =>
        ValuesOf(RulesFor(configs, DefaultKey)) =
          Some(FirstValue(byKey[DefaultKey], kind, attrs))
  BY <1>2, ValueForKey
<1>5. DefaultKey \notin DOMAIN byKey => ValuesOf(RulesFor(configs, DefaultKey)) = {}
  BY <1>2, RulesForKey
<1>6. TargetValue(byKey, at.namespace, at.service, kind, attrs) =
        IF own = NoValue /\ DefaultKey \in DOMAIN byKey
          THEN FirstValue(byKey[DefaultKey], kind, attrs) ELSE own
  BY DEF TargetValue
<1> HIDE DEF own, ValuesOf
<1>7. ValueFrom(configs, at, attrs) =
        Some(TargetValue(byKey, at.namespace, at.service, kind, attrs))
  BY <1>1, <1>3, <1>4, <1>5, <1>6 DEF Some
<1> QED
  BY <1>7 DEF configs, byKey, kind

\* A span starts with the attributes it arrived with and its request type.
LEMMA StartsTyped ==
  ASSUME NEW span \in Spans
  PROVE  /\ AddRequestType(Data[span].attributes, Data[span].kind) = Typed(span)
         /\ Typed(span) = [a \in DOMAIN Typed(span) |-> Typed(span)[a]]
<1> DEFINE kind == Data[span].kind
           arrived == Data[span].attributes
<1>1. arrived = [a \in DOMAIN arrived |-> arrived[a]]
  BY SpanAssumption
<1>2. CASE kind \in {"Client", "Producer"}
  BY <1>2, EmptyAssumption DEF AddRequestType, Typed, Put
<1>3. CASE kind \in {"Server", "Consumer"}
  BY <1>3, EmptyAssumption DEF AddRequestType, Typed, Put
<1>4. CASE kind = "Internal"
  BY <1>4, EmptyAssumption DEF AddRequestType, Typed, Put
<1>5. CASE kind \notin {"Client", "Producer", "Server", "Consumer", "Internal"}
  BY <1>1, <1>5 DEF AddRequestType, Typed
<1> QED
  BY <1>2, <1>3, <1>4, <1>5

\* Before any attribute is tried.
LEMMA NothingTried ==
  ASSUME NEW at, at.span \in Spans, NEW config
  PROVE  InOrder(at, config, {}, Typed(at.span))
<1> DEFINE none == [n \in {} |-> {}]
<1>1. none \in Orders({})
  BY DEF Orders
<1>2. Typed(at.span) = Given(at.span, {}, Typed(at.span))
  <2>1. DOMAIN Typed(at.span) \cup {} = DOMAIN Typed(at.span)
    OBVIOUS
  <2> QED
    BY <2>1, StartsTyped DEF Given
<1> QED
  BY <1>1, <1>2 DEF InOrder

\* A turn of enrichSpan's loop tries one more attribute, on what the others
\* have given.
LEMMA OneMoreTried ==
  ASSUME NEW at, NEW config \in SpanAttributes, NEW tried, tried \subseteq Names(config),
         NEW target \in Names(config) \ tried, NEW attrs,
         InOrder(at, config, tried, attrs), NEW after, after = tried \cup {target}
  PROVE  LET value == TargetValue(Compile(config)[target], at.namespace, at.service,
                                  Data[at.span].kind, attrs)
         IN  InOrder(at, config, after, EnrichTarget(attrs, target, value))
<1> DEFINE value == TargetValue(Compile(config)[target], at.namespace, at.service,
                                Data[at.span].kind, attrs)
           new == EnrichTarget(attrs, target, value)
           Value(n, given) == ValueFrom(ConfigsFor(config, n), at, given)
<1>1. Value(target, attrs) = Some(value)
  BY FoundAsConfigured
<1> HIDE DEF value, Value
<1>2. PICK before \in Orders(tried), gave \in SUBSET (tried \cap DOMAIN attrs) :
        /\ \A n \in tried :
             Value(n, Given(at.span, before[n] \cap gave, attrs)) =
               IF n \in gave THEN {attrs[n]} ELSE {}
        /\ attrs = Given(at.span, gave, attrs)
  BY DEF InOrder, Value
<1> DEFINE before2 == [n \in after |-> IF n = target THEN tried ELSE before[n]]
           gave2 == IF value = NoValue THEN gave ELSE gave \cup {target}
<1>3. before2 \in Orders(after)
  <2>1. /\ before \in [tried -> SUBSET tried]
        /\ \A m, n \in tried :
             /\ n \notin before[n]
             /\ m \in before[n] => before[m] \subseteq before[n]
             /\ m # n => m \in before[n] \/ n \in before[m]
    BY DEF Orders
  <2>2. before2 \in [after -> SUBSET after]
    BY <2>1
  <2>3. ASSUME NEW m \in after, NEW n \in after
        PROVE  /\ n \notin before2[n]
               /\ m \in before2[n] => before2[m] \subseteq before2[n]
               /\ m # n => m \in before2[n] \/ n \in before2[m]
    BY <2>1
  <2> QED
    BY <2>2, <2>3 DEF Orders
<1>4. DOMAIN attrs = DOMAIN Typed(at.span) \cup gave
  BY <1>2 DEF Given
<1>5. /\ DOMAIN new = IF value = NoValue THEN DOMAIN attrs ELSE DOMAIN attrs \cup {target}
      /\ \A a \in DOMAIN attrs \ {target} : new[a] = attrs[a]
      /\ value # NoValue => new[target] = value
      /\ value = NoValue => new = attrs
  BY DEF EnrichTarget, Put
<1> HIDE DEF new
<1>6. gave2 \in SUBSET (after \cap DOMAIN new)
  BY <1>5
<1>7. ASSUME NEW names, names \subseteq gave
      PROVE  Given(at.span, names, new) = Given(at.span, names, attrs)
  BY <1>5, <1>7 DEF Given
<1>8. ASSUME NEW n \in after
      PROVE  Value(n, Given(at.span, before2[n] \cap gave2, new)) =
               IF n \in gave2 THEN {new[n]} ELSE {}
  <2>1. CASE n = target
    <3>1. before2[n] \cap gave2 = gave
      BY <2>1
    <3>2. Given(at.span, gave, new) = attrs
      BY <1>2, <1>7
    <3> QED
      BY <1>1, <1>5, <2>1, <3>1, <3>2 DEF Some
  <2>2. CASE n # target
    <3>1. n \in tried /\ before2[n] \cap gave2 = before[n] \cap gave
      BY <2>2 DEF Orders
    <3>2. n \in gave2 <=> n \in gave
      BY <2>2
    <3>3. n \in gave => new[n] = attrs[n]
      BY <1>5, <2>2
    <3> QED
      BY <1>2, <1>7, <3>1, <3>2, <3>3
  <2> QED
    BY <2>1, <2>2
<1>9. new = Given(at.span, gave2, new)
  <2>1. CASE value = NoValue
    BY <1>2, <1>5, <2>1
  <2>2. CASE value # NoValue
    <3>1. \A a \in DOMAIN Typed(at.span) \ gave2 : new[a] = Typed(at.span)[a]
      BY <1>2, <1>4, <1>5, <2>2 DEF Given
    <3>2. new = [a \in DOMAIN new |-> new[a]]
      BY <2>2 DEF new, EnrichTarget, Put
    <3>3. DOMAIN new = DOMAIN Typed(at.span) \cup gave2
      BY <1>4, <1>5, <2>2
    <3> QED
      BY <3>1, <3>2, <3>3 DEF Given
  <2> QED
    BY <2>1, <2>2
<1> HIDE DEF before2, gave2
<1>10. InOrder(at, config, after, new)
  BY <1>3, <1>6, <1>8, <1>9 DEF InOrder, Value
<1> QED
  BY <1>10 DEF new, value

\* Where nothing gave a request context, the span's name stands in.
LEMMA EnrichedInTheEnd ==
  ASSUME NEW at, NEW config, NEW attrs, InOrder(at, config, Names(config), attrs)
  PROVE  Enriched(at, config, DefaultContext(attrs, Data[at.span].name))
<1>1. attrs = [a \in DOMAIN attrs |-> attrs[a]]
  BY DEF InOrder, Given
<1> DEFINE new == DefaultContext(attrs, Data[at.span].name)
<1>2. CASE RequestContext \in DOMAIN attrs
  BY <1>2 DEF DefaultContext, Enriched
<1>3. CASE RequestContext \notin DOMAIN attrs
  <2>1. /\ DOMAIN new = DOMAIN attrs \cup {RequestContext}
        /\ new[RequestContext] = Data[at.span].name
        /\ \A a \in DOMAIN attrs : new[a] = attrs[a]
    BY <1>3 DEF DefaultContext, Put
  <2>2. DOMAIN new \ {RequestContext} = DOMAIN attrs
    BY <1>3, <2>1
  <2> HIDE DEF new
  <2>3. [a \in DOMAIN new \ {RequestContext} |-> new[a]] = attrs
    BY <1>1, <2>1, <2>2
  <2>4. Enriched(at, config, new)
    BY <2>1, <2>3 DEF Enriched
  <2> QED
    BY <2>4 DEF new
<1> QED
  BY <1>2, <1>3

-----------------------------------------------------------------------------
(* The invariant                                                           *)

\* An arrival is that of a place in the batch.
LEMMA ArrivalAt ==
  ASSUME NEW b \in Batches, NEW x \in Arrivals(b)
  PROVE  \E p \in Visited(b) :
           /\ p \in Positions(b) /\ x = Arrival(b, p)
           /\ x.span = SpanAt(b, p) /\ x.span \in Spans
<1>1. PICK p \in Visited(b) : x = Arrival(b, p)
  BY DEF Arrivals, Visited
<1>2. p \in Positions(b)
  BY DEF Visited
<1>3. x.span = SpanAt(b, p)
  BY <1>1 DEF Arrival
<1> QED
  BY <1>1, <1>2, <1>3, PlaceType

\* A span has one arrival, in one batch.
LEMMA OneArrival ==
  ASSUME NEW b \in Batches, NEW x \in Arrivals(b), NEW d \in Batches
  PROVE  /\ \A y \in Arrivals(d) : x.span = y.span => b = d /\ x = y
         /\ \A p \in Positions(d) : x.span = SpanAt(d, p) => b = d /\ x = Arrival(d, p)
<1>1. PICK q \in Positions(b) : x = Arrival(b, q) /\ x.span = SpanAt(b, q)
  BY ArrivalAt
<1>2. \A p \in Positions(d) : x.span = SpanAt(d, p) => b = d /\ x = Arrival(d, p)
  BY <1>1, OnePlace
<1>3. \A y \in Arrivals(d) :
        \E p \in Positions(d) : y = Arrival(d, p) /\ y.span = SpanAt(d, p)
  BY ArrivalAt
<1> QED
  BY <1>2, <1>3

\* What there is to enrich arrived.
LEMMA NonInternalArrived ==
  ASSUME NEW b \in Batches, NEW places, places \subseteq Visited(b)
  PROVE  NonInternal(SegmentsOf(b, places)) \subseteq Arrivals(b)
<1>1. places \subseteq Positions(b)
  BY DEF Visited
<1>2. \A x \in NonInternal(SegmentsOf(b, places)) :
        \E p \in Kept(b, places) : x = Arrival(b, p)
  BY <1>1, NonInternalKept
<1>3. \A p \in Kept(b, places) : Arrival(b, p) \in Arrivals(b)
  BY DEF Kept, Arrivals, Visited
<1> QED
  BY <1>2, <1>3

\* Before the first span there is nothing.
LEMMA NoPlaces ==
  ASSUME NEW b
  PROVE  SegmentsOf(b, {}) = NoSegments /\ NonInternal(NoSegments) = {}
BY DEF SegmentsOf, NoSegments, NonInternal

\* What a consumer has begun or is at arrived in its batch.
LEMMA BegunArrived ==
  ASSUME ProcessorInv, NEW c \in Consumers, Active(c)
  PROVE  /\ batch[c] \in Batches
         /\ NonInternal(segments[c]) \subseteq Arrivals(batch[c])
         /\ Begun(c) \subseteq Arrivals(batch[c])
         /\ work[c] \subseteq Arrivals(batch[c])
         /\ Enriching(c) => current[c] \in Arrivals(batch[c]) /\ current[c] \in Begun(c)
<1>1. /\ batch[c] \in Batches /\ taken[c] \subseteq Visited(batch[c])
      /\ segments[c] = SegmentsOf(batch[c], taken[c])
      /\ work[c] \subseteq Arrivals(batch[c])
      /\ Enriching(c) => current[c] \in NonInternal(segments[c]) \ work[c]
  BY DEF ProcessorInv, TypeOK, AssemblyInv, Active
<1>2. NonInternal(segments[c]) \subseteq Arrivals(batch[c])
  <2>1. NonInternal(SegmentsOf(batch[c], taken[c])) \subseteq Arrivals(batch[c])
    BY <1>1, NonInternalArrived
  <2> QED
    BY <1>1, <2>1
<1>3. Begun(c) \subseteq Arrivals(batch[c])
  BY <1>2 DEF Begun
<1>4. Enriching(c) => current[c] \in Arrivals(batch[c]) /\ current[c] \in Begun(c)
  BY <1>1, <1>2 DEF Begun, Enriching
<1> QED
  BY <1>1, <1>2, <1>3, <1>4

\* What a step leaves alone of a consumer stays enriched.
LEMMA EnrichedStays ==
  ASSUME ProcessorInv, NEW c \in Consumers, Working(c), EnrichedBy(c),
         UNCHANGED <<pc[c], batch[c], segments[c], work[c], current[c],
                     currentConfig[c], targets[c]>>,
         inForce[c] \subseteq inForce'[c], customAttributes' \in inForce'[c],
         \A p \in Positions(batch[c]) :
           attributes'[SpanAt(batch[c], p)] = attributes[SpanAt(batch[c], p)]
  PROVE  EnrichedBy(c)'
<1>1. Begun(c)' = Begun(c) /\ Active(c)
  BY DEF Begun, Working, Active
<1>2. \A at \in Arrivals(batch[c]) : attributes'[at.span] = attributes[at.span]
  BY <1>1, BegunArrived, ArrivalAt
<1>3. \A at \in Begun(c) : attributes'[at.span] = attributes[at.span]
  BY <1>1, <1>2, BegunArrived
<1>4. pc[c] = "targets" => attributes'[current[c].span] = attributes[current[c].span]
  BY <1>1, <1>2, BegunArrived DEF Enriching
<1> QED
  BY <1>1, <1>3, <1>4 DEF EnrichedBy, Untouched

\* The initial states satisfy the invariant.
LEMMA InitEstablishesInv == Init => ProcessorInv
<1> SUFFICES ASSUME Init PROVE ProcessorInv
  OBVIOUS
<1>1. EveryConsumer
  BY DEF Init, EveryConsumer
<1>2. TypeOK
  BY ProcessorAssumption DEF Init, TypeOK, Loops
<1>3. AssemblyInv
  BY NoPlaces DEF Init, AssemblyInv, Active, Enriching
<1>4. BatchInv /\ EnrichInv /\ CaptureInv
  <2>1. \A b \in Batches : \A p \in Positions(b) : Untouched(SpanAt(b, p))
    BY PlaceType DEF Init, Untouched
  <2> QED
    BY <2>1 DEF Init, BatchInv, EnrichInv, UntouchedBefore, CaptureInv, Active, Working
<1> QED
  BY <1>1, <1>2, <1>3, <1>4 DEF ProcessorInv

\* Start, Shutdown and the loops leave alone what consumers do.
LEMMA LifecycleKeepsInv ==
  ASSUME ProcessorInv, Lifecycle
  PROVE  ProcessorInv'
<1>1. UNCHANGED <<settings, consumer, inForce, attributes, output>>
  BY DEF Lifecycle, Start, Shutdown, TakeStop
<1>2. /\ status' \in {"new", "started", "shutdown"}
      /\ UNCHANGED <<sampleTraces, endpoint>>
      /\ loops' \in [Loops -> {"off", "running", "ended"}]
      /\ stops' \subseteq Loops
  <2>1. CASE Start
    BY <2>1 DEF Start, ProcessorInv, TypeOK
  <2>2. CASE Shutdown
    BY <2>2 DEF Shutdown, Stopped, SamplerLoops, PollingLoops, Loops, ProcessorInv, TypeOK
  <2>3. CASE \E l \in Loops : TakeStop(l)
    BY <2>3 DEF TakeStop, ProcessorInv, TypeOK
  <2> QED
    BY <2>1, <2>2, <2>3 DEF Lifecycle
<1> USE DEF settings, consumer, assembly, output
<1>3. TypeOK'
  BY <1>1, <1>2 DEF ProcessorInv, TypeOK
<1>4. EveryConsumer' /\ AssemblyInv' /\ BatchInv'
  BY <1>1 DEF ProcessorInv, EveryConsumer, AssemblyInv, BatchInv, Active, Working, Enriching
<1>5. EnrichInv'
  <2>1. UntouchedBefore'
    BY <1>1 DEF ProcessorInv, EnrichInv, UntouchedBefore, Received, Untouched
  <2>2. ASSUME NEW c \in Consumers, Working(c) PROVE EnrichedBy(c)'
    <3>1. EnrichedBy(c)
      BY <2>2 DEF ProcessorInv, EnrichInv
    <3> QED
      BY <1>1, <2>2, <3>1, EnrichedStays DEF EnrichedBy
  <2> QED
    BY <1>1, <2>1, <2>2 DEF EnrichInv, Working
<1>6. CaptureInv'
  BY <1>1 DEF ProcessorInv, CaptureInv, Received, Working, Enriching, Begun
<1> QED
  BY <1>3, <1>4, <1>5, <1>6 DEF ProcessorInv

\* An update adds to what is in force for those at work.
LEMMA RefreshKeepsInv ==
  ASSUME ProcessorInv, Refresh
  PROVE  ProcessorInv'
<1>1. /\ UNCHANGED <<lifecycle, consumer, attributes, output>>
      /\ customAttributes' \in SpanAttributes
      /\ captureMetrics' \in BOOLEAN
      /\ updates' \in 0..MaxUpdates
  <2>1. MayUpdate => updates' \in 0..MaxUpdates
    BY ProcessorAssumption DEF MayUpdate, ProcessorInv, TypeOK
  <2>2. CASE \E a \in SpanAttributes : UpdateRules(a)
    BY <2>1, <2>2 DEF UpdateRules, ProcessorInv, TypeOK
  <2>3. CASE UpdateCaptureMetrics
    BY <2>1, <2>3 DEF UpdateCaptureMetrics, ProcessorInv, TypeOK
  <2> QED
    BY <2>2, <2>3 DEF Refresh
<1>2. /\ DOMAIN inForce' = Consumers
      /\ \A c \in Consumers : inForce'[c] \subseteq SpanAttributes
      /\ \A c \in Consumers : Working(c) =>
           customAttributes' \in inForce'[c] /\ inForce[c] \subseteq inForce'[c]
  <2>1. CASE \E a \in SpanAttributes : UpdateRules(a)
    BY <2>1 DEF UpdateRules, ProcessorInv, TypeOK, EveryConsumer, Working
  <2>2. CASE UpdateCaptureMetrics
    BY <2>2 DEF UpdateCaptureMetrics, ProcessorInv, TypeOK, EveryConsumer, EnrichInv,
       EnrichedBy
  <2> QED
    BY <2>1, <2>2 DEF Refresh
<1> USE DEF lifecycle, consumer, assembly, output
<1>3. TypeOK'
  BY <1>1, <1>2 DEF ProcessorInv, TypeOK, Working
<1>4. EveryConsumer' /\ AssemblyInv' /\ BatchInv'
  BY <1>1, <1>2
  DEF ProcessorInv, EveryConsumer, AssemblyInv, BatchInv, Active, Working, Enriching
<1>5. EnrichInv'
  <2>1. UntouchedBefore'
    BY <1>1 DEF ProcessorInv, EnrichInv, UntouchedBefore, Received, Untouched
  <2>2. ASSUME NEW c \in Consumers, Working(c) PROVE EnrichedBy(c)'
    BY <1>1, <1>2, <2>2, EnrichedStays DEF ProcessorInv, EnrichInv
  <2> QED
    BY <1>1, <2>1, <2>2 DEF EnrichInv, Working
<1>6. CaptureInv'
  BY <1>1 DEF ProcessorInv, CaptureInv, Received, Working, Enriching, Begun
<1> QED
  BY <1>3, <1>4, <1>5, <1>6 DEF ProcessorInv

\* A batch that arrives was not received before, so that nobody has put
\* anything on its spans or captured metrics of them.
LEMMA ReceiveKeepsInv ==
  ASSUME ProcessorInv, NEW c \in Consumers, NEW b \in Batches, Receive(c, b)
  PROVE  ProcessorInv'
<1> USE DEF Receive, Goto, lifecycle, settings, assembly, output, ProcessorInv
<1>1. EveryConsumer'
  BY DEF EveryConsumer
<1>2. TypeOK'
  BY DEF TypeOK, EveryConsumer
<1>3. AssemblyInv'
  <2>1. taken[c] = {} /\ work[c] = {}
    BY DEF AssemblyInv, TypeOK, Active
  <2>2. segments[c] = SegmentsOf(b, {})
    BY <2>1, NoPlaces DEF AssemblyInv
  <2> QED
    BY <2>1, <2>2 DEF AssemblyInv, EveryConsumer, Active, Enriching
<1>4. BatchInv'
  BY DEF BatchInv, EveryConsumer, Active, Working, Received
<1>5. \A d \in Batches : Received(d)' <=> Received(d) \/ d = b
  BY DEF Received, EveryConsumer
<1>6. EnrichInv'
  <2>1. UntouchedBefore'
    BY <1>5 DEF EnrichInv, UntouchedBefore, Untouched
  <2>2. ASSUME NEW d \in Consumers \ {c}, Working(d) PROVE EnrichedBy(d)'
    <3>1. EnrichedBy(d) /\ customAttributes \in inForce[d]
      BY <2>2 DEF EnrichInv, EnrichedBy
    <3>2. /\ UNCHANGED <<pc[d], batch[d], segments[d], work[d], current[d],
                         currentConfig[d], targets[d], inForce[d]>>
          /\ UNCHANGED <<attributes, customAttributes>>
      BY DEF EveryConsumer
    <3> QED
      BY <2>2, <3>1, <3>2, EnrichedStays
  <2>3. /\ pc'[c] = "assemble" /\ batch'[c] = b
        /\ inForce'[c] = {customAttributes} /\ Begun(c)' = {}
    BY DEF EveryConsumer, Begun
  <2>4. \A p \in Positions(b) : Untouched(SpanAt(b, p))'
    BY DEF EnrichInv, UntouchedBefore, Untouched
  <2>5. EnrichedBy(c)'
    BY <2>3, <2>4 DEF EnrichedBy
  <2> QED
    BY <2>1, <2>2, <2>5 DEF EnrichInv, Working, EveryConsumer
<1>7. CaptureInv'
  <2>1. \A m \in captured : m.at.span \notin SpansOf(b)
    BY OneArrival DEF CaptureInv, SpansOf
  <2> QED
    BY <1>5, <2>1 DEF CaptureInv, EveryConsumer, Working, Begun, Enriching
<1> QED
  BY <1>1, <1>2, <1>3, <1>4, <1>6, <1>7

\* A turn of the loops of convertToTraces takes the next place.
LEMMA TakeSpanKeepsInv ==
  ASSUME ProcessorInv, NEW c \in Consumers, TakeSpan(c)
  PROVE  ProcessorInv'
<1> DEFINE b == batch[c]
           left == Visited(b) \ taken[c]
<1>1. PICK p \in left :
        /\ \A q \in left : ~Before(q, p)
        /\ taken' = [taken EXCEPT ![c] = @ \cup {p}]
        /\ segments' = [segments EXCEPT ![c] = AddSpan(@, SpanAt(b, p), b[p[1]])]
  BY DEF TakeSpan
<1>2. /\ pc[c] = "assemble"
      /\ UNCHANGED <<lifecycle, settings, pc, batch, work, current, currentConfig,
                     targets, inForce, attributes, output>>
  BY DEF TakeSpan
<1> USE DEF ProcessorInv, lifecycle, settings, output
<1>3. /\ b \in Batches /\ taken[c] \subseteq Visited(b)
      /\ segments[c] = SegmentsOf(b, taken[c])
      /\ \A q \in taken[c] : \A r \in left : Before(q, r)
  BY <1>2 DEF TypeOK, AssemblyInv
<1>4. Visited(b) \subseteq Positions(b) /\ \A q \in Visited(b) : q \in Nat \X Nat
  BY <1>3, PlaceType DEF Visited
<1>5. segments'[c] = SegmentsOf(b, taken'[c])
  <2>1. NextPlace(b, taken[c], p, taken'[c])
    BY <1>1, <1>3, <1>4 DEF NextPlace, EveryConsumer
  <2>2. AddSpan(SegmentsOf(b, taken[c]), SpanAt(b, p), b[p[1]]) = SegmentsOf(b, taken'[c])
    BY <1>3, <2>1, TurnAddsPlace
  <2> QED
    BY <1>1, <1>3, <2>2 DEF EveryConsumer
<1>6. \A q \in taken'[c] : \A r \in Visited(b) \ taken'[c] : Before(q, r)
  BY <1>1, <1>3, <1>4, PlacesInOrder DEF EveryConsumer
<1>7. EveryConsumer' /\ TypeOK' /\ BatchInv'
  BY <1>1, <1>2 DEF EveryConsumer, TypeOK, BatchInv, Active, Working
<1>8. AssemblyInv'
  <2>1. taken'[c] \subseteq Visited(b)
    BY <1>1, <1>3 DEF EveryConsumer
  <2>2. work[c] = {} /\ Active(c) /\ ~Enriching(c)
    BY <1>2 DEF TypeOK, Active, Enriching
  <2>3. \A d \in Consumers \ {c} : UNCHANGED <<taken[d], segments[d]>>
    BY <1>1 DEF EveryConsumer
  <2> QED
    BY <1>2, <1>5, <1>6, <2>1, <2>2, <2>3 DEF AssemblyInv, Active, Enriching
<1>9. \A d \in Consumers : Begun(d)' = Begun(d)
  BY <1>1, <1>2 DEF Begun, EveryConsumer
<1>10. EnrichInv'
  BY <1>2, <1>9 DEF EnrichInv, UntouchedBefore, Received, Untouched, EnrichedBy, Working
<1>11. CaptureInv'
  BY <1>2, <1>9 DEF CaptureInv, Received, Working, Enriching
<1> QED
  BY <1>7, <1>8, <1>10, <1>11

\* When convertToTraces returns nothing is enriched yet.
LEMMA AssembledKeepsInv ==
  ASSUME ProcessorInv, NEW c \in Consumers, Assembled(c)
  PROVE  ProcessorInv'
<1> USE DEF ProcessorInv, lifecycle, settings, output, assembly
<1>1. /\ pc[c] = "assemble" /\ Visited(batch[c]) = taken[c]
      /\ work' = [work EXCEPT ![c] = NonInternal(segments[c])]
      /\ pc' = [pc EXCEPT ![c] = StepFor(NonInternal(segments[c]))]
      /\ UNCHANGED <<lifecycle, settings, batch, assembly, current, currentConfig,
                     targets, inForce, attributes, output>>
  BY DEF Assembled, Goto
<1>2. Active(c) /\ NonInternal(segments[c]) \subseteq Arrivals(batch[c])
  BY <1>1, BegunArrived DEF Active
<1>3. /\ pc'[c] \in {"span", "hand"}
      /\ pc'[c] = "span" <=> NonInternal(segments[c]) # {}
      /\ work'[c] = NonInternal(segments[c])
      /\ \A d \in Consumers \ {c} : UNCHANGED <<pc[d], work[d]>>
  BY <1>1 DEF StepFor, EveryConsumer
<1>4. EveryConsumer'
  BY <1>1 DEF EveryConsumer
<1>5. TypeOK'
  BY <1>1, <1>2, <1>3 DEF TypeOK
<1>6. AssemblyInv' /\ BatchInv'
  BY <1>1, <1>2, <1>3 DEF AssemblyInv, BatchInv, Active, Working, Enriching
<1>7. \A d \in Consumers :
        Begun(d)' = Begun(d) /\ Working(d)' = Working(d) /\ Enriching(d)' = Enriching(d)
  BY <1>1, <1>3 DEF Begun, Working, Enriching
<1>8. \A d \in Batches : Received(d)' <=> Received(d)
  BY <1>1, <1>3 DEF Received
<1>9. EnrichInv'
  <2>1. \A d \in Consumers : pc'[d] = "targets" <=> pc[d] = "targets"
    BY <1>1, <1>3
  <2>2. \A d \in Consumers : Working(d) => EnrichedBy(d)'
    BY <1>1, <1>7, <2>1 DEF EnrichInv, EnrichedBy, Untouched
  <2> QED
    BY <1>1, <1>7, <1>8, <2>2 DEF EnrichInv, UntouchedBefore, Untouched
<1>10. CaptureInv'
  BY <1>1, <1>7, <1>8 DEF CaptureInv
<1> QED
  BY <1>4, <1>5, <1>6, <1>9, <1>10

\* What a step that puts attributes on a span of a consumer does.
Puts(c, x, value) ==
  /\ Working(c) /\ x \in Arrivals(batch[c])
  /\ attributes' = [attributes EXCEPT ![x.span] = value]
  /\ UNCHANGED <<customAttributes, batch, segments, inForce, output>>
  /\ \A d \in Consumers \ {c} :
       UNCHANGED <<pc[d], work[d], current[d], currentConfig[d], targets[d]>>
  /\ Enriching(c)' /\ current'[c] = x
  /\ \A y : y \in Begun(c)' <=> y \in Begun(c) \/ y = x
  /\ Enriching(c) => current[c] = x
  /\ x \in Begun(c) => Enriching(c)

\* What is put on a span changes no other span of any batch.
LEMMA OneSpanTouched ==
  ASSUME ProcessorInv, NEW c \in Consumers, Active(c), NEW x \in Arrivals(batch[c]),
         NEW value, attributes' = [attributes EXCEPT ![x.span] = value]
  PROVE  /\ attributes'[x.span] = value
         /\ \A s \in Spans : s # x.span => attributes'[s] = attributes[s]
         /\ \A b \in Batches : \A p \in Positions(b) :
              b # batch[c] \/ Arrival(b, p) # x =>
                attributes'[SpanAt(b, p)] = attributes[SpanAt(b, p)]
         /\ \A b \in Batches : \A y \in Arrivals(b) :
              b # batch[c] \/ y # x => attributes'[y.span] = attributes[y.span]
<1>1. batch[c] \in Batches /\ DOMAIN attributes = Spans
  BY DEF ProcessorInv, TypeOK, Active
<1>2. x.span \in Spans
  BY <1>1, ArrivalAt
<1>3. \A b \in Batches : \A p \in Positions(b) :
        x.span = SpanAt(b, p) => b = batch[c] /\ x = Arrival(b, p)
  BY <1>1, OneArrival
<1>4. \A b \in Batches : \A y \in Arrivals(b) :
        x.span = y.span => b = batch[c] /\ x = y
  BY <1>1, OneArrival
<1>5. /\ attributes'[x.span] = value
      /\ \A s \in Spans : s # x.span => attributes'[s] = attributes[s]
  BY <1>1, <1>2
<1>6. \A b \in Batches :
        /\ \A p \in Positions(b) : SpanAt(b, p) \in Spans
        /\ \A y \in Arrivals(b) : y.span \in Spans
  BY PlaceType, ArrivalAt
<1> QED
  BY <1>3, <1>4, <1>5, <1>6

\* It keeps the invariant about attributes and that about metrics, if what it
\* leaves on the span is what the invariant wants.
LEMMA PutsKeeps ==
  ASSUME ProcessorInv, NEW c \in Consumers, NEW x, NEW value, Puts(c, x, value),
         pc'[c] = "targets" =>
           /\ targets'[c] \subseteq Names(currentConfig'[c])
           /\ InOrder(x, currentConfig'[c],
                      Names(currentConfig'[c]) \ targets'[c], value),
         pc'[c] = "metrics" => \E config \in inForce[c] : Enriched(x, config, value)
  PROVE  EnrichInv' /\ CaptureInv'
<1> USE DEF ProcessorInv, output
<1>1. /\ attributes'[x.span] = value
      /\ \A s \in Spans : s # x.span => attributes'[s] = attributes[s]
      /\ \A b \in Batches : \A p \in Positions(b) :
           b # batch[c] \/ Arrival(b, p) # x =>
             attributes'[SpanAt(b, p)] = attributes[SpanAt(b, p)]
      /\ \A b \in Batches : \A y \in Arrivals(b) :
           b # batch[c] \/ y # x => attributes'[y.span] = attributes[y.span]
  <2>1. /\ Active(c) /\ x \in Arrivals(batch[c])
        /\ attributes' = [attributes EXCEPT ![x.span] = value]
    BY DEF Puts, Working, Active
  <2> HIDE DEF ProcessorInv
  <2> QED
    BY <2>1, OneSpanTouched
<1>2. /\ Active(c) /\ Working(c) /\ Working(c)' /\ Enriching(c)' /\ batch[c] \in Batches
      /\ pc'[c] \in {"targets", "metrics"}
      /\ x \in Begun(c)' /\ x \in Arrivals(batch[c]) /\ current'[c] = x
      /\ customAttributes \in inForce[c] /\ EnrichedBy(c)
      /\ UNCHANGED <<customAttributes, batch, segments, inForce, output>>
  BY DEF Puts, Enriching, Active, Working, TypeOK, EnrichInv, EnrichedBy
<1>3. \A d \in Consumers \ {c} :
        UNCHANGED <<pc[d], work[d], current[d], currentConfig[d], targets[d]>>
  BY DEF Puts
<1>4. \A d \in Consumers : (Active(d)' <=> Active(d)) /\ (Working(d)' <=> Working(d))
  BY <1>2, <1>3 DEF Active, Working
<1>5. \A d \in Batches : Received(d)' <=> Received(d)
  BY <1>2, <1>4 DEF Received, Active
<1>6. UntouchedBefore'
  <2>1. Received(batch[c])
    BY <1>2 DEF Received, Active
  <2> QED
    BY <1>1, <1>5, <2>1 DEF EnrichInv, UntouchedBefore, Untouched
<1>7. ASSUME NEW d \in Consumers \ {c}, Working(d) PROVE EnrichedBy(d)'
  <2>1. batch[d] \in Batches /\ batch[d] # batch[c] /\ EnrichedBy(d)
    BY <1>2, <1>7 DEF BatchInv, TypeOK, EnrichInv, Active, Working
  <2>2. /\ customAttributes' \in inForce'[d]
        /\ UNCHANGED <<batch[d], segments[d], inForce[d]>>
    BY <1>2, <2>1 DEF EnrichedBy
  <2> QED
    BY <1>1, <1>3, <1>7, <2>1, <2>2, EnrichedStays
<1>8. EnrichedBy(c)'
  <2>1. \A p \in Positions(batch[c]) :
          Arrival(batch[c], p) \notin Begun(c)' => Untouched(SpanAt(batch[c], p))'
    BY <1>1, <1>2 DEF EnrichedBy, Untouched, Puts
  <2>2. ASSUME NEW y \in Begun(c)', y # x
        PROVE  \E config \in inForce[c] : Enriched(y, config, attributes'[y.span])
    <3>1. y \in Begun(c) /\ y \in Arrivals(batch[c]) /\ (Enriching(c) => y # current[c])
      BY <1>2, <2>2, BegunArrived DEF Puts
    <3>2. \E config \in inForce[c] : Enriched(y, config, attributes[y.span])
      BY <1>2, <3>1 DEF EnrichedBy, Enriching
    <3> QED
      BY <1>1, <1>2, <2>2, <3>1, <3>2
  <2> QED
    BY <1>1, <1>2, <2>1, <2>2 DEF EnrichedBy
<1>9. CaptureInv'
  <2> SUFFICES ASSUME NEW m \in captured
               PROVE  /\ Unmarked(attributes'[m.at.span]) = Unmarked(m.attributes)
                      /\ \/ attributes'[m.at.span] = m.attributes
                         \/ \E h \in sampled : m.at.span \in SpansOf(h.batch)
                      /\ RequestContext \in DOMAIN m.attributes
                      /\ \E b \in Batches : Received(b)' /\ m.at \in Arrivals(b)
                      /\ \A d \in Consumers :
                           Working(d)' /\ m.at.span \in SpansOf(batch'[d]) =>
                             m.at \in Begun(d)' /\ (Enriching(d)' => m.at # current'[d])
    BY <1>2 DEF CaptureInv
  <2>1. /\ Unmarked(attributes[m.at.span]) = Unmarked(m.attributes)
        /\ \/ attributes[m.at.span] = m.attributes
           \/ \E h \in sampled : m.at.span \in SpansOf(h.batch)
        /\ RequestContext \in DOMAIN m.attributes
        /\ \E b \in Batches : Received(b) /\ m.at \in Arrivals(b)
        /\ \A d \in Consumers :
             Working(d) /\ m.at.span \in SpansOf(batch[d]) =>
               m.at \in Begun(d) /\ (Enriching(d) => m.at # current[d])
    BY DEF CaptureInv
  <2>2. x.span \in SpansOf(batch[c]) /\ x.span \in Spans
    BY <1>2, ArrivalAt DEF SpansOf
  <2>3. m.at # x
    BY <1>2, <2>1, <2>2 DEF Puts
  <2>4. attributes'[m.at.span] = attributes[m.at.span]
    BY <1>1, <2>1, <2>3
  <2>5. \A d \in Consumers \ {c} : Begun(d)' = Begun(d) /\ Enriching(d)' = Enriching(d)
    BY <1>2, <1>3 DEF Begun, Enriching
  <2> QED
    BY <1>2, <1>3, <1>4, <1>5, <2>1, <2>3, <2>4, <2>5 DEF Puts
<1> QED
  BY <1>6, <1>7, <1>8, <1>2, <1>4, <1>9 DEF EnrichInv

\* A span is begun under the rules in force, none of its attributes tried.
LEMMA BeginSpanKeepsInv ==
  ASSUME ProcessorInv, NEW c \in Consumers, BeginSpan(c)
  PROVE  ProcessorInv'
<1> USE DEF ProcessorInv
<1>1. PICK at \in work[c] :
        /\ current' = [current EXCEPT ![c] = at]
        /\ work' = [work EXCEPT ![c] = @ \ {at}]
        /\ attributes' = [attributes EXCEPT
             ![at.span] = AddRequestType(@, Data[at.span].kind)]
  BY DEF BeginSpan
<1>2. /\ pc[c] = "span" /\ pc' = [pc EXCEPT ![c] = "targets"]
      /\ currentConfig' = [currentConfig EXCEPT ![c] = customAttributes]
      /\ targets' = [targets EXCEPT ![c] = DOMAIN Compile(customAttributes)]
      /\ UNCHANGED <<lifecycle, settings, batch, assembly, inForce, output>>
  BY DEF BeginSpan, Goto
<1> USE DEF lifecycle, settings, assembly, output
<1>3. /\ Working(c) /\ batch[c] \in Batches /\ at \in Arrivals(batch[c])
      /\ at \in NonInternal(segments[c]) /\ at \notin Begun(c)
      /\ customAttributes \in inForce[c] /\ customAttributes \in SpanAttributes
  BY <1>1, <1>2, BegunArrived
  DEF Active, Working, AssemblyInv, Begun, EnrichInv, EnrichedBy, TypeOK
<1>4. at.span \in Spans /\ attributes[at.span] = Data[at.span].attributes
  <2>1. PICK p \in Positions(batch[c]) :
          at = Arrival(batch[c], p) /\ at.span = SpanAt(batch[c], p)
    BY <1>3, ArrivalAt
  <2> QED
    BY <1>3, <2>1, PlaceType DEF EnrichInv, EnrichedBy, Untouched
<1>5. AddRequestType(attributes[at.span], Data[at.span].kind) = Typed(at.span)
  BY <1>4, StartsTyped
<1>6. attributes' = [attributes EXCEPT ![at.span] = Typed(at.span)]
  BY <1>1, <1>5
<1>7. /\ pc'[c] = "targets" /\ current'[c] = at /\ work'[c] = work[c] \ {at}
      /\ currentConfig'[c] = customAttributes
      /\ targets'[c] = DOMAIN Compile(customAttributes)
      /\ \A d \in Consumers \ {c} :
           UNCHANGED <<pc[d], work[d], current[d], currentConfig[d], targets[d]>>
  BY <1>1, <1>2 DEF EveryConsumer
<1>8. EveryConsumer'
  BY <1>1, <1>2 DEF EveryConsumer
<1>9. TypeOK'
  <2>1. DOMAIN attributes' = Spans /\
        \A s \in Spans : DOMAIN Data[s].attributes \subseteq DOMAIN attributes'[s]
    BY <1>4, <1>6 DEF TypeOK, Typed, Put
  <2> QED
    BY <1>1, <1>2, <1>3, <1>7, <2>1 DEF TypeOK
<1>10. AssemblyInv' /\ BatchInv'
  BY <1>1, <1>2, <1>3, <1>7 DEF AssemblyInv, BatchInv, Active, Working, Enriching
<1>11. Puts(c, at, Typed(at.span))
  <2>1. \A y : y \in Begun(c)' <=> y \in Begun(c) \/ y = at
    BY <1>1, <1>2, <1>3, <1>7 DEF Begun
  <2> QED
    BY <1>2, <1>3, <1>6, <1>7, <2>1 DEF Puts, Enriching
<1>12. /\ targets'[c] = Names(currentConfig'[c])
       /\ InOrder(at, currentConfig'[c], {}, Typed(at.span))
  BY <1>4, <1>7, NothingTried DEF Compile, Names
<1>13. InOrder(at, currentConfig'[c], Names(currentConfig'[c]) \ targets'[c],
               Typed(at.span))
  <2>1. Names(currentConfig'[c]) \ targets'[c] = {}
    BY <1>12
  <2> QED
    BY <1>12, <2>1
<1>14. EnrichInv' /\ CaptureInv'
  BY <1>7, <1>11, <1>12, <1>13, PutsKeeps
<1> QED
  BY <1>8, <1>9, <1>10, <1>14

\* A turn of enrichSpan's loop.
LEMMA EnrichAttributeKeepsInv ==
  ASSUME ProcessorInv, NEW c \in Consumers, NEW target \in targets[c],
         EnrichAttribute(c, target)
  PROVE  ProcessorInv'
<1> USE DEF ProcessorInv
<1> DEFINE at == current[c]
           config == currentConfig[c]
           attrs == attributes[at.span]
           value == TargetValue(Compile(config)[target], at.namespace, at.service,
                                Data[at.span].kind, attrs)
           new == EnrichTarget(attrs, target, value)
<1>1. /\ pc[c] = "targets"
      /\ attributes' = [attributes EXCEPT ![at.span] = new]
      /\ targets' = [targets EXCEPT ![c] = @ \ {target}]
      /\ UNCHANGED <<lifecycle, settings, pc, batch, assembly, work, current,
                     currentConfig, inForce, output>>
  BY DEF EnrichAttribute, RulesOf
<1> USE DEF lifecycle, settings, assembly, output
<1>2. /\ Working(c) /\ Enriching(c) /\ batch[c] \in Batches
      /\ at \in Arrivals(batch[c]) /\ at \in Begun(c) /\ at.span \in Spans
  BY <1>1, BegunArrived, ArrivalAt DEF Active, Working, Enriching
<1>3. /\ config \in inForce[c] /\ config \in SpanAttributes
      /\ targets[c] \subseteq Names(config)
      /\ InOrder(at, config, Names(config) \ targets[c], attrs)
  BY <1>1, <1>2 DEF TypeOK, EnrichInv, EnrichedBy
<1>4. /\ targets'[c] = targets[c] \ {target}
      /\ \A d \in Consumers \ {c} : UNCHANGED targets[d]
  BY <1>1 DEF EveryConsumer
<1>5. InOrder(at, config, Names(config) \ targets'[c], new)
  <2>1. Names(config) \ targets'[c] = (Names(config) \ targets[c]) \cup {target}
    BY <1>3, <1>4
  <2>2. target \in Names(config) \ (Names(config) \ targets[c])
    BY <1>3
  <2> HIDE DEF at, config, attrs
  <2> QED
    BY <1>3, <2>1, <2>2, OneMoreTried
<1> HIDE DEF new
<1>6. DOMAIN attrs \subseteq DOMAIN new
  BY DEF new, EnrichTarget, Put
<1>7. EveryConsumer' /\ TypeOK'
  <2>1. EveryConsumer'
    BY <1>1 DEF EveryConsumer
  <2>2. DOMAIN attributes' = Spans /\
        \A s \in Spans : DOMAIN Data[s].attributes \subseteq DOMAIN attributes'[s]
    BY <1>1, <1>2, <1>6 DEF TypeOK
  <2> QED
    BY <1>1, <1>4, <2>1, <2>2 DEF TypeOK
<1>8. AssemblyInv' /\ BatchInv'
  BY <1>1 DEF AssemblyInv, BatchInv, Active, Working, Enriching
<1>9. Puts(c, at, new)
  <2>1. Begun(c)' = Begun(c) /\ Enriching(c)' = Enriching(c)
    BY <1>1 DEF Begun, Enriching
  <2> QED
    BY <1>1, <1>2, <1>4, <2>1 DEF Puts
<1>10. EnrichInv' /\ CaptureInv'
  <2>1. /\ pc'[c] = "targets" /\ currentConfig'[c] = config
        /\ targets'[c] \subseteq Names(config)
    BY <1>1, <1>3, <1>4
  <2> HIDE DEF at, config
  <2> QED
    BY <1>5, <1>9, <2>1, PutsKeeps
<1> QED
  BY <1>7, <1>8, <1>10

\* With all attributes tried, the span gets its request context.
LEMMA AddContextKeepsInv ==
  ASSUME ProcessorInv, NEW c \in Consumers, AddContext(c)
  PROVE  ProcessorInv'
<1> USE DEF ProcessorInv
<1> DEFINE at == current[c]
           config == currentConfig[c]
           attrs == attributes[at.span]
           new == DefaultContext(attrs, Data[at.span].name)
<1>1. /\ pc[c] = "targets" /\ targets[c] = {}
      /\ attributes' = [attributes EXCEPT ![at.span] = new]
      /\ currentConfig' = [currentConfig EXCEPT ![c] = <<>>]
      /\ pc' = [pc EXCEPT ![c] = "metrics"]
      /\ UNCHANGED <<lifecycle, settings, batch, assembly, work, current, targets,
                     inForce, output>>
  BY DEF AddContext, Goto
<1> USE DEF lifecycle, settings, assembly, output
<1>2. /\ Working(c) /\ Enriching(c) /\ batch[c] \in Batches
      /\ at \in Arrivals(batch[c]) /\ at \in Begun(c) /\ at.span \in Spans
  BY <1>1, BegunArrived, ArrivalAt DEF Active, Working, Enriching
<1>3. config \in inForce[c] /\ InOrder(at, config, Names(config) \ targets[c], attrs)
  BY <1>1, <1>2 DEF TypeOK, EnrichInv, EnrichedBy
<1>4. Enriched(at, config, new)
  <2>1. Names(config) \ targets[c] = Names(config)
    BY <1>1
  <2> HIDE DEF at, config, attrs
  <2> QED
    BY <1>3, <2>1, EnrichedInTheEnd
<1> HIDE DEF new
<1>5. DOMAIN attrs \subseteq DOMAIN new
  BY DEF new, DefaultContext, Put
<1>6. /\ pc'[c] = "metrics"
      /\ \A d \in Consumers \ {c} : UNCHANGED <<pc[d], currentConfig[d]>>
  BY <1>1 DEF EveryConsumer
<1>7. EveryConsumer' /\ TypeOK'
  <2>1. EveryConsumer'
    BY <1>1 DEF EveryConsumer
  <2>2. DOMAIN attributes' = Spans /\
        \A s \in Spans : DOMAIN Data[s].attributes \subseteq DOMAIN attributes'[s]
    BY <1>1, <1>2, <1>5 DEF TypeOK
  <2> QED
    BY <1>1, <1>6, <2>1, <2>2 DEF TypeOK
<1>8. AssemblyInv' /\ BatchInv'
  BY <1>1, <1>6 DEF AssemblyInv, BatchInv, Active, Working, Enriching
<1>9. Puts(c, at, new)
  <2>1. Begun(c)' = Begun(c) /\ Enriching(c)'
    BY <1>1, <1>6 DEF Begun, Enriching
  <2> QED
    BY <1>1, <1>2, <1>6, <2>1 DEF Puts
<1>10. EnrichInv' /\ CaptureInv'
  BY <1>3, <1>4, <1>6, <1>9, PutsKeeps
<1> QED
  BY <1>7, <1>8, <1>10

\* A span is enriched when its metrics are captured, and nobody returns to it.
LEMMA CaptureKeepsInv ==
  ASSUME ProcessorInv, NEW c \in Consumers, Capture(c)
  PROVE  ProcessorInv'
<1> USE DEF ProcessorInv, lifecycle, settings, assembly
<1> DEFINE at == current[c]
           new == [at |-> at, attributes |-> attributes[at.span]]
<1>1. /\ pc[c] = "metrics"
      /\ current' = [current EXCEPT ![c] = <<>>]
      /\ pc' = [pc EXCEPT ![c] = StepFor(work[c])]
      /\ captured' = captured \/ captured' = captured \cup {new}
      /\ UNCHANGED <<lifecycle, settings, batch, assembly, work, currentConfig, targets,
                     inForce, attributes, sampled, forwarded>>
  BY DEF Capture, Goto
<1>2. /\ Active(c) /\ Working(c) /\ batch[c] \in Batches
      /\ at \in Arrivals(batch[c]) /\ at \in Begun(c)
  BY <1>1, BegunArrived DEF Active, Working, Enriching
<1>3. /\ pc'[c] \in {"span", "hand"} /\ (pc'[c] = "span" <=> work[c] # {})
      /\ \A d \in Consumers \ {c} : UNCHANGED <<pc[d], current[d]>>
  BY <1>1 DEF StepFor, EveryConsumer
<1>4. EveryConsumer' /\ TypeOK'
  <2>1. EveryConsumer'
    BY <1>1 DEF EveryConsumer
  <2> QED
    BY <1>1, <1>3, <2>1 DEF TypeOK
<1>5. AssemblyInv' /\ BatchInv'
  BY <1>1, <1>3 DEF AssemblyInv, BatchInv, Active, Working, Enriching
<1>6. \A d \in Consumers :
        /\ Begun(d)' = Begun(d)
        /\ Active(d)' = Active(d) /\ Working(d)' = Working(d)
        /\ pc'[d] = "targets" <=> pc[d] = "targets"
        /\ Enriching(d)' => Enriching(d) /\ d # c
  BY <1>1, <1>3 DEF Begun, Active, Working, Enriching
<1>7. \A d \in Batches : Received(d)' <=> Received(d)
  BY <1>1, <1>6 DEF Received, Active
<1>8. EnrichInv'
  <2>1. ASSUME NEW d \in Consumers, Working(d) PROVE EnrichedBy(d)'
    <3>1. EnrichedBy(d)
      BY <2>1 DEF EnrichInv
    <3>2. pc[d] = "targets" => current'[d] = current[d]
      BY <1>1, <1>3
    <3> QED
      BY <1>1, <1>6, <3>1, <3>2 DEF EnrichedBy, Untouched
  <2> QED
    BY <1>1, <1>6, <1>7, <2>1 DEF EnrichInv, UntouchedBefore, Untouched
<1>9. CaptureInv'
  <2>1. RequestContext \in DOMAIN attributes[at.span]
    BY <1>1, <1>2 DEF EnrichInv, EnrichedBy, Enriched
  <2>2. Received(batch[c])
    BY <1>2 DEF Received, Active
  <2>3. \A d \in Consumers : Working(d) /\ at.span \in SpansOf(batch[d]) => d = c
    BY <1>2, OneArrival DEF SpansOf, BatchInv, TypeOK, Active, Working
  <2> SUFFICES ASSUME NEW m \in captured'
               PROVE  /\ Unmarked(attributes'[m.at.span]) = Unmarked(m.attributes)
                      /\ \/ attributes'[m.at.span] = m.attributes
                         \/ \E h \in sampled : m.at.span \in SpansOf(h.batch)
                      /\ RequestContext \in DOMAIN m.attributes
                      /\ \E b \in Batches : Received(b)' /\ m.at \in Arrivals(b)
                      /\ \A d \in Consumers :
                           Working(d)' /\ m.at.span \in SpansOf(batch'[d]) =>
                             m.at \in Begun(d)' /\ (Enriching(d)' => m.at # current'[d])
    BY <1>1 DEF CaptureInv
  <2>4. CASE m \in captured
    BY <1>1, <1>3, <1>6, <1>7, <2>4 DEF CaptureInv
  <2>5. CASE m = new
    BY <1>1, <1>2, <1>6, <1>7, <2>1, <2>2, <2>3, <2>5
  <2> QED
    BY <1>1, <2>4, <2>5
<1> QED
  BY <1>4, <1>5, <1>8, <1>9

\* A consumer that leaves its batch to the next consumer or the sampler has
\* nothing more to do with it.
LEMMA LeaveKeepsInv ==
  ASSUME ProcessorInv, NEW c \in Consumers, pc[c] \in {"hand", "sample"}, Leave(c),
         forwarded' = (IF pc[c] = "hand" THEN forwarded \cup {batch[c]} ELSE forwarded),
         inForce' = [inForce EXCEPT ![c] = {}] \/ UNCHANGED inForce,
         UNCHANGED <<lifecycle, settings, current, currentConfig, targets,
                     attributes, captured, sampled>>
  PROVE  ProcessorInv'
<1> USE DEF ProcessorInv, lifecycle, settings, assembly
<1>1. /\ pc' = [pc EXCEPT ![c] = "idle"]
      /\ batch' = [batch EXCEPT ![c] = <<>>]
      /\ taken' = [taken EXCEPT ![c] = {}]
      /\ segments' = [segments EXCEPT ![c] = NoSegments]
      /\ work' = [work EXCEPT ![c] = {}]
  BY DEF Leave, Goto
<1>2. batch[c] \in Batches /\ targets[c] = {}
  BY DEF TypeOK
<1>3. /\ Active(c) /\ pc'[c] = "idle" /\ taken'[c] = {} /\ work'[c] = {}
      /\ segments'[c] = NoSegments /\ inForce'[c] \subseteq inForce[c]
      /\ \A d \in Consumers \ {c} :
           UNCHANGED <<pc[d], batch[d], taken[d], segments[d], work[d], inForce[d]>>
  BY <1>1 DEF EveryConsumer, Active
<1>4. EveryConsumer'
  BY <1>1 DEF EveryConsumer
<1>5. TypeOK'
  BY <1>2, <1>3 DEF TypeOK
<1>6. AssemblyInv'
  <2>1. segments'[c] = SegmentsOf(batch'[c], taken'[c])
    BY <1>3, NoPlaces
  <2>2. taken'[c] \subseteq Visited(batch'[c]) /\ ~Enriching(c)' /\ ~Active(c)'
    BY <1>3 DEF Enriching, Active
  <2> DEFINE InOrderTaken(d) ==
               /\ taken[d] \subseteq Visited(batch[d])
               /\ \A p \in taken[d] : \A q \in Visited(batch[d]) \ taken[d] : Before(p, q)
               /\ segments[d] = SegmentsOf(batch[d], taken[d])
               /\ ~Active(d) => taken[d] = {}
               /\ pc[d] \notin {"idle", "assemble"} => taken[d] = Visited(batch[d])
               /\ work[d] \subseteq NonInternal(segments[d])
               /\ Enriching(d) => current[d] \in NonInternal(segments[d]) \ work[d]
  <2>3. InOrderTaken(c)'
    BY <1>3, <2>1, <2>2
  <2>4. ASSUME NEW d \in Consumers \ {c} PROVE InOrderTaken(d)'
    <3>1. InOrderTaken(d)
      BY DEF AssemblyInv
    <3> QED
      BY <1>3, <3>1 DEF Active, Enriching
  <2> QED
    BY <2>3, <2>4 DEF AssemblyInv
<1>7. BatchInv'
  <2>1. \A d \in Consumers \ {c} :
          Active(d)' = Active(d) /\ Working(d)' = Working(d) /\ batch'[d] = batch[d]
    BY <1>3 DEF Active, Working
  <2>2. ASSUME NEW d \in Consumers \ {c}, Active(d)
        PROVE  /\ \A e \in Consumers \ {c, d} : Active(e) => batch[e] # batch[d]
               /\ batch[d] \notin forwarded'
               /\ Working(d) => \A s \in sampled : s.batch # batch[d]
               /\ ~Working(d) => \E s \in sampled : s.batch = batch[d]
    BY <1>3, <2>2 DEF BatchInv
  <2>3. ~Active(c)'
    BY <1>3 DEF Active
  <2> QED
    BY <2>1, <2>2, <2>3 DEF BatchInv
<1>8. \A d \in Consumers \ {c} :
        Begun(d)' = Begun(d) /\ Working(d)' = Working(d) /\ Enriching(d)' = Enriching(d)
  BY <1>3 DEF Begun, Working, Enriching
<1>9. \A b \in Batches : Received(b)' <=> Received(b)
  <2>1. batch[c] \in forwarded' \/ \E s \in sampled : s.batch = batch[c]
    BY <1>3 DEF BatchInv, Working
  <2>2. \A b \in Batches : b \in forwarded' <=>
          b \in forwarded \/ (pc[c] = "hand" /\ b = batch[c])
    OBVIOUS
  <2> QED
    BY <1>3, <2>1, <2>2 DEF Received, Active
<1>10. ~Working(c)'
  BY <1>3 DEF Working
<1>11. EnrichInv'
  <2>1. UntouchedBefore'
    BY <1>9 DEF EnrichInv, UntouchedBefore, Untouched
  <2>2. ASSUME NEW d \in Consumers \ {c}, Working(d) PROVE EnrichedBy(d)'
    <3>1. EnrichedBy(d)
      BY <2>2 DEF EnrichInv
    <3> QED
      BY <1>3, <2>2, <3>1, EnrichedStays DEF EnrichedBy
  <2> QED
    BY <1>8, <1>10, <2>1, <2>2 DEF EnrichInv
<1>12. CaptureInv'
  BY <1>3, <1>8, <1>9, <1>10 DEF CaptureInv
<1> QED
  BY <1>4, <1>5, <1>6, <1>7, <1>11, <1>12

\* A batch is handed over with all its spans enriched; the sampler begins with
\* all of them.
LEMMA HandKeepsInv ==
  ASSUME ProcessorInv, NEW c \in Consumers, Hand(c)
  PROVE  ProcessorInv'
<1>1. CASE ~sampleTraces
  BY <1>1, LeaveKeepsInv DEF Hand
<1>2. CASE sampleTraces
  <2> USE DEF ProcessorInv, lifecycle, settings, assembly
  <2> DEFINE h == [batch |-> batch[c], traces |-> TracesOf(segments[c]),
                   inForce |-> inForce[c]]
  <2>1. /\ pc[c] = "hand" /\ pc' = [pc EXCEPT ![c] = "sample"]
        /\ work' = [work EXCEPT ![c] = NonInternal(segments[c])]
        /\ inForce' = [inForce EXCEPT ![c] = {}]
        /\ sampled' = sampled \cup {h}
        /\ UNCHANGED <<lifecycle, settings, batch, assembly, current, currentConfig,
                       targets, attributes, captured, forwarded>>
    BY <1>2 DEF Hand, Goto
  <2>2. h.batch = batch[c]
    OBVIOUS
  <2> HIDE DEF h
  <2>3. /\ Active(c) /\ Working(c) /\ batch[c] \in Batches
        /\ NonInternal(segments[c]) \subseteq Arrivals(batch[c])
    BY <2>1, BegunArrived DEF Active, Working
  <2>4. /\ pc'[c] = "sample" /\ Active(c)' /\ ~Working(c)' /\ ~Enriching(c)'
        /\ work'[c] = NonInternal(segments[c]) /\ inForce'[c] = {}
        /\ \A d \in Consumers \ {c} : UNCHANGED <<pc[d], work[d], inForce[d]>>
    BY <2>1 DEF EveryConsumer, Active, Working, Enriching
  <2>5. EveryConsumer'
    BY <2>1 DEF EveryConsumer
  <2>6. TypeOK'
    <3>1. {s.batch : s \in sampled'} \subseteq Batches
      BY <2>1, <2>2, <2>3 DEF TypeOK
    <3> QED
      BY <2>1, <2>3, <2>4, <3>1 DEF TypeOK
  <2>7. AssemblyInv'
    BY <2>1, <2>4 DEF AssemblyInv, Active, Enriching
  <2>8. \A d \in Consumers \ {c} :
          /\ Begun(d)' = Begun(d) /\ Active(d)' = Active(d)
          /\ Working(d)' = Working(d) /\ Enriching(d)' = Enriching(d)
    BY <2>1, <2>4 DEF Begun, Active, Working, Enriching
  <2>9. BatchInv'
    BY <2>1, <2>2, <2>3, <2>4, <2>8 DEF BatchInv
  <2>10. \A b \in Batches : Received(b)' <=> Received(b)
    BY <2>1, <2>2, <2>3, <2>4 DEF Received, Active
  <2>11. EnrichInv'
    <3>1. UntouchedBefore'
      BY <2>1, <2>10 DEF EnrichInv, UntouchedBefore, Untouched
    <3>2. ASSUME NEW d \in Consumers \ {c}, Working(d) PROVE EnrichedBy(d)'
      <4>1. EnrichedBy(d)
        BY <3>2 DEF EnrichInv
      <4> QED
        BY <2>1, <2>4, <3>2, <4>1, EnrichedStays DEF EnrichedBy
    <3> QED
      BY <2>4, <2>8, <3>1, <3>2 DEF EnrichInv
  <2>12. CaptureInv'
    BY <2>1, <2>4, <2>8, <2>10 DEF CaptureInv
  <2> QED
    BY <2>5, <2>6, <2>7, <2>9, <2>11, <2>12
<1> QED
  BY <1>1, <1>2

\* A mark changes nothing else of a span.
LEMMA MarkedOnly ==
  ASSUME NEW attrs, NEW type
  PROVE  /\ Unmarked(Put(attrs, SampleType, type)) = Unmarked(attrs)
         /\ DOMAIN attrs \subseteq DOMAIN Put(attrs, SampleType, type)
BY DEF Unmarked, Put

\* What the sampler marks nobody has to enrich.
LEMMA MarkKeepsInv ==
  ASSUME ProcessorInv, NEW c \in Consumers, Mark(c)
  PROVE  ProcessorInv'
<1> USE DEF ProcessorInv, lifecycle, settings, assembly, output
<1>1. PICK at \in work[c], type \in SampleTypes :
        /\ attributes' = [attributes EXCEPT ![at.span] = Put(@, SampleType, type)]
        /\ work' = [work EXCEPT ![c] = @ \ {at}]
  BY DEF Mark
<1>2. /\ pc[c] = "sample"
      /\ UNCHANGED <<lifecycle, settings, pc, batch, assembly, current, currentConfig,
                     targets, inForce, output>>
  BY DEF Mark
<1>3. /\ Active(c) /\ ~Working(c) /\ ~Enriching(c) /\ batch[c] \in Batches
      /\ at \in Arrivals(batch[c]) /\ at.span \in Spans
  BY <1>1, <1>2, BegunArrived, ArrivalAt DEF Active, Working, Enriching
<1>4. PICK value : value = Put(attributes[at.span], SampleType, type)
  OBVIOUS
<1>5. /\ attributes' = [attributes EXCEPT ![at.span] = value]
      /\ Unmarked(value) = Unmarked(attributes[at.span])
      /\ DOMAIN attributes[at.span] \subseteq DOMAIN value
  BY <1>1, <1>4, MarkedOnly
<1>6. /\ attributes'[at.span] = value
      /\ \A s \in Spans : s # at.span => attributes'[s] = attributes[s]
      /\ \A b \in Batches : \A p \in Positions(b) :
           b # batch[c] \/ Arrival(b, p) # at =>
             attributes'[SpanAt(b, p)] = attributes[SpanAt(b, p)]
  <2>1. attributes'[at.span] = value
    BY <1>3, <1>5 DEF TypeOK
  <2>2. Active(c) /\ at \in Arrivals(batch[c])
    BY <1>3
  <2> QED
    BY <1>5, <2>1, <2>2, OneSpanTouched
<1>7. /\ work'[c] \subseteq work[c]
      /\ \A d \in Consumers \ {c} : work'[d] = work[d]
  BY <1>1 DEF EveryConsumer
<1>8. EveryConsumer' /\ TypeOK'
  <2>1. EveryConsumer'
    BY <1>1, <1>2, <1>5 DEF EveryConsumer
  <2>2. DOMAIN attributes' = Spans
    BY <1>5 DEF TypeOK
  <2>3. \A s \in Spans : DOMAIN Data[s].attributes \subseteq DOMAIN attributes'[s]
    BY <1>5, <1>6 DEF TypeOK
  <2> QED
    BY <1>2, <1>7, <2>1, <2>2, <2>3 DEF TypeOK
<1>9. AssemblyInv' /\ BatchInv'
  BY <1>2, <1>3, <1>7 DEF AssemblyInv, BatchInv, Active, Working, Enriching
<1>10. \A d \in Consumers : Working(d) => d # c /\ Begun(d)' = Begun(d)
  BY <1>2, <1>3, <1>7 DEF Begun
<1>11. EnrichInv'
  <2>1. UntouchedBefore'
    <3>1. Received(batch[c])
      BY <1>3 DEF Received, Active
    <3> QED
      BY <1>2, <1>6, <3>1 DEF EnrichInv, UntouchedBefore, Untouched, Received
  <2>2. ASSUME NEW d \in Consumers, Working(d) PROVE EnrichedBy(d)'
    <3>1. d # c /\ batch[d] \in Batches /\ batch[d] # batch[c] /\ EnrichedBy(d)
      BY <1>3, <1>10, <2>2 DEF BatchInv, TypeOK, EnrichInv, Active, Working
    <3> QED
      BY <1>2, <1>6, <1>7, <2>2, <3>1, EnrichedStays DEF EnrichedBy
  <2> QED
    BY <1>2, <2>1, <2>2 DEF EnrichInv, Working
<1>12. CaptureInv'
  <2> SUFFICES ASSUME NEW m \in captured
               PROVE  /\ Unmarked(attributes'[m.at.span]) = Unmarked(m.attributes)
                      /\ \/ attributes'[m.at.span] = m.attributes
                         \/ \E h \in sampled : m.at.span \in SpansOf(h.batch)
    BY <1>2, <1>10 DEF CaptureInv, Received, Working, Enriching
  <2>1. /\ Unmarked(attributes[m.at.span]) = Unmarked(m.attributes)
        /\ \/ attributes[m.at.span] = m.attributes
           \/ \E h \in sampled : m.at.span \in SpansOf(h.batch)
        /\ m.at.span \in Spans
    BY ArrivalAt DEF CaptureInv
  <2>2. CASE m.at.span = at.span
    <3>1. at.span \in SpansOf(batch[c])
      BY <1>3, ArrivalAt DEF SpansOf
    <3>2. \E h \in sampled : h.batch = batch[c]
      BY <1>3 DEF BatchInv
    <3> QED
      BY <1>5, <1>6, <2>1, <2>2, <3>1, <3>2
  <2>3. CASE m.at.span # at.span
    BY <1>6, <2>1, <2>3
  <2> QED
    BY <2>2, <2>3
<1> QED
  BY <1>8, <1>9, <1>11, <1>12

\* With or without all the marks, sampleTraces is done with the batch.
LEMMA ReturnKeepsInv ==
  ASSUME ProcessorInv, NEW c \in Consumers, Return(c)
  PROVE  ProcessorInv'
BY LeaveKeepsInv DEF Return, output

\* No step breaks the invariant.
LEMMA StepKeepsInv == ProcessorInv /\ [Next]_vars => ProcessorInv'
<1> SUFFICES ASSUME ProcessorInv, [Next]_vars PROVE ProcessorInv'
  OBVIOUS
<1>1. CASE Lifecycle
  BY <1>1, LifecycleKeepsInv
<1>2. CASE Refresh
  BY <1>2, RefreshKeepsInv
<1>3. ASSUME NEW c \in Consumers, Consume(c) PROVE ProcessorInv'
  <2>1. CASE \E b \in Batches : Receive(c, b)
    BY <2>1, ReceiveKeepsInv
  <2>2. CASE TakeSpan(c)
    BY <2>2, TakeSpanKeepsInv
  <2>3. CASE Assembled(c)
    BY <2>3, AssembledKeepsInv
  <2>4. CASE BeginSpan(c)
    BY <2>4, BeginSpanKeepsInv
  <2>5. CASE \E target \in targets[c] : EnrichAttribute(c, target)
    BY <2>5, EnrichAttributeKeepsInv
  <2>6. CASE AddContext(c)
    BY <2>6, AddContextKeepsInv
  <2>7. CASE Capture(c)
    BY <2>7, CaptureKeepsInv
  <2>8. CASE Hand(c)
    BY <2>8, HandKeepsInv
  <2>9. CASE Mark(c)
    BY <2>9, MarkKeepsInv
  <2>10. CASE Return(c)
    BY <2>10, ReturnKeepsInv
  <2> QED
    BY <1>3, <2>1, <2>2, <2>3, <2>4, <2>5, <2>6, <2>7, <2>8, <2>9, <2>10
    DEF Consume, Proceed
<1>4. CASE UNCHANGED vars
  <2> USE <1>4 DEF vars, lifecycle, settings, consumer, assembly, output, ProcessorInv
  <2>1. EveryConsumer' /\ TypeOK' /\ AssemblyInv' /\ BatchInv'
    BY DEF EveryConsumer, TypeOK, AssemblyInv, BatchInv, Active, Working, Enriching
  <2>2. EnrichInv'
    BY DEF EnrichInv, UntouchedBefore, EnrichedBy, Received, Untouched, Working, Begun
  <2>3. CaptureInv'
    BY DEF CaptureInv, Received, Working, Enriching, Begun
  <2> QED
    BY <2>1, <2>2, <2>3
<1> QED
  BY <1>1, <1>2, <1>3, <1>4 DEF Next

\* Whatever the batches, the consumers and the updates, what was begun of a
\* batch is enriched by one configuration and the rest is as it arrived.
THEOREM ProcessorInvariant == Spec => []ProcessorInv
BY InitEstablishesInv, StepKeepsInv, PTL DEF Spec

\* Type correctness of the processor.
THEOREM ProcessorTypeCorrect == Spec => []TypeOK
<1>1. ProcessorInv => TypeOK
  BY DEF ProcessorInv
<1> QED
  BY <1>1, ProcessorInvariant, PTL

\* Only a turn that hands a batch over changes what the sampler has got, by the
\* traces made of all the places of that batch.
LEMMA HandedOver ==
  ASSUME ProcessorInv, Next, NEW h \in sampled' \ sampled
  PROVE  \E c \in Consumers :
           /\ pc[c] = "hand" /\ Working(c) /\ work[c] = {} /\ batch[c] \in Batches
           /\ segments[c] = SegmentsOf(batch[c], Visited(batch[c]))
           /\ h.batch = batch[c] /\ h.traces = TracesOf(segments[c])
           /\ h.inForce = inForce[c]
<1>1. PICK c \in Consumers : Hand(c)
  BY DEF Next, Lifecycle, Start, Shutdown, TakeStop, Refresh, UpdateRules,
     UpdateCaptureMetrics, Consume, Receive, Proceed, TakeSpan, Assembled, BeginSpan,
     EnrichAttribute, AddContext, Capture, Mark, Return, output
<1>2. h = [batch |-> batch[c], traces |-> TracesOf(segments[c]), inForce |-> inForce[c]]
  BY <1>1 DEF Hand
<1>3. pc[c] = "hand" /\ Working(c)
  BY <1>1 DEF Hand, Working
<1>4. /\ work[c] = {} /\ batch[c] \in Batches
      /\ segments[c] = SegmentsOf(batch[c], Visited(batch[c]))
  BY <1>3 DEF ProcessorInv, TypeOK, AssemblyInv
<1> QED
  BY <1>2, <1>3, <1>4

\* Only earlier root spans are lost between a batch and what the sampler can
\* export of it.
THEOREM ProcessorLosesOnlyEarlierRoots == Spec => OnlyEarlierRootsLost
<1> DEFINE AsArrived(h) ==
             /\ UNION {BuildTrace(t) : t \in h.traces} =
                  Arrivals(h.batch) \ EarlierRoots(h.batch)
             /\ \A t, u \in h.traces : \A x \in BuildTrace(t), y \in BuildTrace(u) :
                  (t = u) = (Data[x.span].trace = Data[y.span].trace)
<1>1. ProcessorInv /\ [Next]_vars =>
        [\A h \in sampled' \ sampled : AsArrived(h)]_sampled
  <2> SUFFICES ASSUME ProcessorInv, Next, NEW h \in sampled' \ sampled
               PROVE  AsArrived(h)
    BY DEF vars, output
  <2>1. PICK c \in Consumers :
          /\ batch[c] \in Batches /\ h.batch = batch[c]
          /\ h.traces = TracesOf(SegmentsOf(batch[c], Visited(batch[c])))
    BY HandedOver
  <2>2. UNION {BuildTrace(t) : t \in h.traces} = Arrivals(h.batch) \ EarlierRoots(h.batch)
    BY <2>1, AllButEarlierRoots
  <2>3. Visited(batch[c]) \subseteq Positions(batch[c])
    BY DEF Visited
  <2>4. \A t, u \in h.traces : \A x \in BuildTrace(t), y \in BuildTrace(u) :
          (t = u) = (Data[x.span].trace = Data[y.span].trace)
    BY <2>1, <2>3, TracesAreApart
  <2> QED
    BY <2>2, <2>4
<1> QED
  BY <1>1, ProcessorInvariant, PTL DEF Spec, OnlyEarlierRootsLost

\* Each span is enriched by a single configuration in force since its batch
\* arrived, and internal spans are left alone.
THEOREM ProcessorEnrichesByOneConfig == Spec => SpanEnrichedByOneConfig
<1> DEFINE OneConfig(h) ==
             \A t \in h.traces : \A ts \in t :
               /\ \A s \in NonInternalSpans(ts) : \E config \in h.inForce :
                    Enriched(At(s, ts), config, attributes[s])
               /\ \A s \in InternalSpans(ts) : attributes[s] = Data[s].attributes
<1>1. ProcessorInv /\ [Next]_vars =>
        [\A h \in sampled' \ sampled : OneConfig(h)]_sampled
  <2> SUFFICES ASSUME ProcessorInv, Next, NEW h \in sampled' \ sampled,
                      NEW t \in h.traces, NEW ts \in t
               PROVE  /\ \A s \in NonInternalSpans(ts) : \E config \in h.inForce :
                           Enriched(At(s, ts), config, attributes[s])
                      /\ \A s \in InternalSpans(ts) : attributes[s] = Data[s].attributes
    BY DEF vars, output
  <2>1. PICK c \in Consumers :
          /\ pc[c] = "hand" /\ Working(c) /\ work[c] = {} /\ batch[c] \in Batches
          /\ segments[c] = SegmentsOf(batch[c], Visited(batch[c]))
          /\ h.traces = TracesOf(segments[c]) /\ h.inForce = inForce[c]
    BY HandedOver
  <2>2. PICK place \in DOMAIN segments[c] : ts = segments[c][place]
    BY <2>1 DEF TracesOf
  <2>3. Begun(c) = NonInternal(segments[c]) /\ EnrichedBy(c)
    BY <2>1 DEF Begun, ProcessorInv, EnrichInv
  <2>4. ASSUME NEW s \in NonInternalSpans(ts)
        PROVE  \E config \in h.inForce : Enriched(At(s, ts), config, attributes[s])
    <3>1. At(s, ts) \in Begun(c) /\ At(s, ts).span = s
      <4>1. At(s, ts) \in NonInternal(segments[c])
        BY <2>2 DEF NonInternal
      <4> QED
        BY <2>3, <4>1 DEF At
    <3> QED
      BY <2>1, <2>3, <3>1 DEF EnrichedBy
  <2>5. ASSUME NEW s \in InternalSpans(ts)
        PROVE  attributes[s] = Data[s].attributes
    <3> DEFINE b == batch[c]
    <3>1. Visited(b) \subseteq Positions(b)
      BY DEF Visited
    <3>2. PICK p \in Kept(b, Visited(b)) :
            Role(SpanAt(b, p)) = "internal" /\ At(s, ts) = Arrival(b, p)
      <4>1. \E r \in ts.spans["internal"] : At(s, ts) = At(r, ts)
        BY DEF InternalSpans
      <4> QED
        BY <2>1, <2>2, <3>1, <4>1, SpansOfSegment DEF Roles
    <3>3. p \in Positions(b) /\ s = SpanAt(b, p)
      <4>1. At(s, ts).span = s /\ Arrival(b, p).span = SpanAt(b, p)
        BY DEF At, Arrival
      <4> QED
        BY <3>1, <3>2, <4>1 DEF Kept
    <3>4. Arrival(b, p) \notin Begun(c)
      <4>1. ASSUME NEW q \in Kept(b, Visited(b)), Arrival(b, p) = Arrival(b, q)
            PROVE  SpanAt(b, q) = SpanAt(b, p)
        BY <4>1 DEF Arrival
      <4> QED
        BY <2>1, <2>3, <3>1, <3>2, <4>1, NonInternalKept
    <3> QED
      BY <2>3, <3>3, <3>4 DEF EnrichedBy, Untouched
  <2> QED
    BY <2>4, <2>5
<1> QED
  BY <1>1, ProcessorInvariant, PTL DEF Spec, SpanEnrichedByOneConfig

\* Metrics are of the attributes a span is exported with, but for the mark that
\* the sampler puts on it once it has the batch.
THEOREM ProcessorCapturesAsExported == Spec => CapturedAsExported
<1> DEFINE StaysCaptured ==
             /\ \A m \in captured :
                  /\ Unmarked(attributes'[m.at.span]) = Unmarked(m.attributes)
                  /\ attributes'[m.at.span] # m.attributes =>
                       \E h \in sampled : m.at.span \in SpansOf(h.batch)
             /\ \A m \in captured' : RequestContext \in DOMAIN m.attributes
             /\ \A h \in sampled' \ sampled : \A m \in captured :
                  m.at.span \in SpansOf(h.batch) =>
                    /\ m.at \in UNION {BuildTrace(t) : t \in h.traces}
                    /\ IsRoot(m.at.span) \/ IsEntry(m.at.span) \/ IsExit(m.at.span)
<1>1. ProcessorInv /\ ProcessorInv' /\ [Next]_vars => [StaysCaptured]_vars
  <2> SUFFICES ASSUME ProcessorInv, ProcessorInv', Next PROVE StaysCaptured
    OBVIOUS
  <2>1. /\ captured \subseteq captured'
        /\ sampled' = sampled \/ UNCHANGED attributes
    BY DEF Next, Lifecycle, Start, Shutdown, TakeStop, Refresh, UpdateRules,
       UpdateCaptureMetrics, Consume, Receive, Proceed, TakeSpan, Assembled, BeginSpan,
       EnrichAttribute, AddContext, Capture, Hand, Mark, Return, output
  <2>2. /\ \A m \in captured' : RequestContext \in DOMAIN m.attributes
        /\ \A m \in captured :
             /\ Unmarked(attributes'[m.at.span]) = Unmarked(m.attributes)
             /\ attributes'[m.at.span] # m.attributes =>
                  \E h \in sampled : m.at.span \in SpansOf(h.batch)
    <3>1. CASE sampled' = sampled
      BY <2>1, <3>1 DEF ProcessorInv, CaptureInv
    <3>2. CASE UNCHANGED attributes
      BY <2>1, <3>2 DEF ProcessorInv, CaptureInv
    <3> QED
      BY <2>1, <3>1, <3>2
  <2>3. ASSUME NEW h \in sampled' \ sampled, NEW m \in captured,
               m.at.span \in SpansOf(h.batch)
        PROVE  /\ m.at \in UNION {BuildTrace(t) : t \in h.traces}
               /\ IsRoot(m.at.span) \/ IsEntry(m.at.span) \/ IsExit(m.at.span)
    <3>1. PICK c \in Consumers :
            /\ pc[c] = "hand" /\ Working(c) /\ work[c] = {} /\ batch[c] \in Batches
            /\ segments[c] = SegmentsOf(batch[c], Visited(batch[c]))
            /\ h.batch = batch[c] /\ h.traces = TracesOf(segments[c])
      BY HandedOver
    <3> DEFINE b == batch[c]
    <3>2. m.at \in NonInternal(SegmentsOf(b, Visited(b)))
      BY <2>3, <3>1 DEF ProcessorInv, CaptureInv, Begun
    <3>3. Visited(b) \subseteq Positions(b)
      BY DEF Visited
    <3>4. PICK p \in Kept(b, Visited(b)) :
            Role(SpanAt(b, p)) # "internal" /\ m.at = Arrival(b, p)
      BY <3>1, <3>2, <3>3, NonInternalKept
    <3>5. m.at.span = SpanAt(b, p) /\ SpanAt(b, p) \in Spans
      <4>1. p \in Positions(b) /\ Arrival(b, p).span = SpanAt(b, p)
        BY <3>3 DEF Kept, Arrival
      <4> QED
        BY <3>1, <3>4, <4>1, PlaceType
    <3>6. m.at \in Arrivals(b) \ EarlierRoots(b)
      <4>1. p \in Visited(b)
        BY DEF Kept
      <4> QED
        BY <3>1, <3>4, <4>1, LostAreEarlierRoots DEF Arrivals, Visited
    <3>7. m.at \in UNION {BuildTrace(t) : t \in h.traces}
      BY <3>1, <3>6, AllButEarlierRoots
    <3> QED
      BY <3>4, <3>5, <3>7, RoleType
  <2> QED
    BY <2>1, <2>2, <2>3
<1> QED
  BY <1>1, ProcessorInvariant, PTL DEF Spec, CapturedAsExported
=============================================================================
