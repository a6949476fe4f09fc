--------------------------- MODULE ServicesProofs ---------------------------
(***************************************************************************)
(* Proofs about the helpers that work beside the handlers: modules that    *)
(* MCServices runs, each in a section of its own.                          *)
(***************************************************************************)
EXTENDS EventDAG, RateLimiter, BatchProcessor, AutoCert, Induction, FiniteSetTheorems, TLAPS

----------------------------------------------------------------------------
(***************************************************************************)
(* EventDAG, for any number of events and goroutines and any clocks.       *)
(*                                                                         *)
(* The invariant says link by link what the order of arrival makes: the    *)
(* two directions agree, depth rises by one along the longest way, and the *)
(* k-th arrival is less than k deep.  That no event starts a cycle follows *)
(* from the depth it is given, so that every event added stays; what the   *)
(* walks collect follows by taking the sets they are the least of; and the *)
(* sort by induction on the depth to which it visits.                      *)
(***************************************************************************)

ComesBefore(s, p, e) == \E j, k \in DOMAIN s : j < k /\ s[j] = p /\ s[k] = e

GraphTypes ==
  /\ hashed \in [Events -> Seq(Events)] /\ listed \in [Events -> Seq(Events)]
  /\ time \in [Events -> Int]
  /\ predecessors \in [Events -> Seq(Events)] /\ successors \in [Events -> Seq(Events)]
  /\ depth \in [Events -> Nat]
  /\ arrived \in Seq(Events)

(* VerifyMergePoint changes the order of a list and not what it names.     *)
ListsNameTheSame ==
  \A e \in Events :
    /\ Range(listed[e]) = Range(hashed[e])
    /\ listed[e] # hashed[e] => listed[e] = Ordered(hashed[e]) /\ Len(hashed[e]) > 1

ArrivedOnce ==
  /\ nodes = Range(arrived)
  /\ \A j, k \in DOMAIN arrived : arrived[j] = arrived[k] => j = k

LinksUp ==
  \A e \in Events : Range(predecessors[e]) = {p \in Range(listed[e]) : ComesBefore(arrived, p, e)}

LinksDown == \A p, e \in Events : e \in Range(successors[p]) <=> p \in Range(predecessors[e])

LeavesHaveNone == leaves = {e \in nodes : Range(successors[e]) = {}}

(* Depth rises by one along the longest way to an event.                   *)
RisesAt(up, d, e) ==
  /\ \A p \in up : d[p] < d[e]
  /\ d[e] # 0 => \E p \in up : d[p] = d[e] - 1

DepthsRise == \A e \in Events : RisesAt(Range(predecessors[e]), depth, e)

DepthsBounded == \A k \in DOMAIN arrived : depth[arrived[k]] < k

GraphSound ==
  /\ GraphTypes /\ ListsNameTheSame /\ ArrivedOnce /\ LinksUp /\ LinksDown /\ LeavesHaveNone
  /\ DepthsRise /\ DepthsBounded

(* What a caller keeps in mind while events are added.                     *)
CallSound(call, now, lists) ==
  /\ call.at = "announced" => call.event \in Events
  /\ call.at \in {"sorted", "reported"} => call.events \subseteq now
  /\ call.at = "reported" /\ call.errors = {} => \A e \in call.events : Range(lists[e]) \subseteq now

CallersSound == DOMAIN caller = Callers /\ \A c \in Callers : CallSound(caller[c], nodes, listed)

DagInv == GraphSound /\ CallersSound

----------------------------------------------------------------------------
(* Sequences.                                                              *)

LEMMA EventsFinite == Events \subseteq Nat /\ IsFiniteSet(Events) /\ Cardinality(Events) = NumEvents
<1>1. NumEvents \in Nat \ {0}
  BY DagAssumption DEF DagAssumption
<1>2. QED
  BY <1>1, FS_Interval DEF Events

LEMMA RangeIs ==
  ASSUME NEW S, NEW s \in Seq(S)
  PROVE  /\ Range(s) = {s[k] : k \in 1 .. Len(s)} /\ Range(s) \subseteq S
         /\ Range(s) = {} <=> s = << >>
<1>1. DOMAIN s = 1 .. Len(s) /\ Len(s) \in Nat
  OBVIOUS
<1>2. Range(s) = {s[k] : k \in 1 .. Len(s)}
  BY <1>1 DEF Range
<1>3. \A k \in 1 .. Len(s) : s[k] \in S
  OBVIOUS
<1>4. s # << >> => 1 \in 1 .. Len(s)
  BY <1>1
<1>5. QED
  BY <1>1, <1>2, <1>3, <1>4

LEMMA RangeGrows ==
  ASSUME NEW S, NEW s \in Seq(S), NEW x \in S
  PROVE  Append(s, x) \in Seq(S) /\ Range(Append(s, x)) = Range(s) \cup {x}
<1>1. PICK t : t = Append(s, x)
  OBVIOUS
<1> t \in Seq(S)
  BY <1>1
<1>2. /\ Len(s) \in Nat /\ Len(t) = Len(s) + 1 /\ t[Len(s) + 1] = x
      /\ \A k \in 1 .. Len(s) : t[k] = s[k]
  BY <1>1
<1>3. Range(t) \subseteq Range(s) \cup {x}
  <2> SUFFICES ASSUME NEW k \in 1 .. Len(t) PROVE t[k] \in Range(s) \cup {x}
    BY RangeIs
  <2>1. CASE k = Len(s) + 1
    BY <1>2, <2>1
  <2>2. CASE k # Len(s) + 1
    <3>1. k \in 1 .. Len(s)
      BY <1>2, <2>2
    <3>2. QED
      BY <1>2, <3>1, RangeIs
  <2>3. QED
    BY <2>1, <2>2
<1>4. Range(s) \subseteq Range(t)
  <2> SUFFICES ASSUME NEW k \in 1 .. Len(s) PROVE s[k] \in Range(t)
    BY RangeIs
  <2>1. k \in 1 .. Len(t) /\ t[k] = s[k]
    BY <1>2
  <2>2. QED
    BY <2>1, RangeIs
<1>5. x \in Range(t)
  <2>1. Len(s) + 1 \in 1 .. Len(t)
    BY <1>2
  <2>2. QED
    BY <1>2, <2>1, RangeIs
<1>6. QED
  BY <1>1, <1>3, <1>4, <1>5

LEMMA SeqsOfSet ==
  ASSUME NEW S \in SUBSET Events, NEW s \in SetToSeqs(S)
  PROVE  s \in Seq(Events) /\ s \in Seq(S) /\ Range(s) = S
<1>1. IsFiniteSet(S)
  BY EventsFinite, FS_Subset
<1>2. PICK n \in Nat : n = Cardinality(S)
  BY <1>1, FS_CardinalityType
<1>3. s \in [1 .. n -> S] /\ \A i, j \in 1 .. n : i # j => s[i] # s[j]
  BY <1>2 DEF SetToSeqs
<1>4. IsFiniteSet(1 .. n) /\ Cardinality(1 .. n) = n
  BY FS_Interval
<1>5. s \in Injection(1 .. n, S)
  BY <1>3 DEF Injection, IsInjective
<1>6. s \in Surjection(1 .. n, S)
  BY <1>1, <1>2, <1>4, <1>5, FS_Injection
<1>7. \A x \in S : \E i \in 1 .. n : s[i] = x
  BY <1>6 DEF Surjection
<1>8. s \in Seq(S) /\ DOMAIN s = 1 .. n
  BY <1>3
<1>9. s \in Seq(Events)
  BY <1>3
<1>10. Range(s) = S
  BY <1>3, <1>7, <1>8 DEF Range
<1>11. QED
  BY <1>8, <1>9, <1>10

(* A list that is put in order names the same events.                      *)
LEMMA OrderedIs ==
  ASSUME NEW s \in Seq(Events)
  PROVE  Ordered(s) \in Seq(Events) /\ Range(Ordered(s)) = Range(s)
<1>1. PICK A \in SUBSET Events : A = Range(s)
  BY RangeIs
<1>2. IsFiniteSet(A) /\ A \subseteq Nat
  BY EventsFinite, FS_Subset
<1>3. PICK n \in Nat : n = Cardinality(A) /\ \E t \in [1 .. n -> A] : Rising(t, n)
  BY <1>2, InOrderOf DEF ListedInOrder
<1>4. PICK t \in [1 .. n -> A] : Rising(t, n)
  BY <1>3
<1>5. t \in SetToSeqs(A)
  <2>1. ASSUME NEW i \in 1 .. n, NEW j \in 1 .. n, i # j PROVE t[i] # t[j]
    <3>1. t[i] \in A /\ t[j] \in A
      OBVIOUS
    <3>2. t[i] \in Nat /\ t[j] \in Nat
      BY <1>2, <3>1
    <3>3. CASE i < j
      BY <1>4, <3>2, <3>3 DEF Rising
    <3>4. CASE j < i
      BY <1>4, <3>2, <3>4 DEF Rising
    <3>5. QED
      BY <2>1, <3>3, <3>4
  <2>2. QED
    BY <1>3, <1>4, <2>1 DEF SetToSeqs
<1>6. \A j, k \in DOMAIN t : j < k => t[j] < t[k]
  BY <1>4 DEF Rising
<1>7. Ordered(s) \in SetToSeqs(A)
  BY <1>1, <1>5, <1>6 DEF Ordered
<1>8. QED
  BY <1>1, <1>7, SeqsOfSet

LEMMA OrderedSame ==
  ASSUME NEW s, NEW t, Range(s) = Range(t)
  PROVE  Ordered(s) = Ordered(t)
BY DEF Ordered

----------------------------------------------------------------------------
(* Loops.                                                                  *)

LEMMA FoundIs ==
  ASSUME listed \in [Events -> Seq(Events)], NEW e \in Events
  PROVE  Found(e) \in Seq(Events) /\ Range(Found(e)) = Range(listed[e]) \cap nodes
<1>1. PICK l \in Seq(Events) : l = listed[e]
  OBVIOUS
<1>2. PICK N \in Nat : N = Len(l)
  OBVIOUS
<1> DEFINE Here(f) ==
      f = [k \in 0 .. N |-> IF k = 0 THEN << >>
                             ELSE IF l[k] \in nodes THEN Append(f[k - 1], l[k]) ELSE f[k - 1]]
<1>3. Found(e) = (CHOOSE f : Here(f))[N]
  BY <1>1, <1>2 DEF Found
<1>4. \E f : Here(f)
  <2> DEFINE step == [n \in Nat |-> [s \in Seq(Events) |->
                        IF n + 1 \in 1 .. N /\ l[n + 1] \in nodes THEN Append(s, l[n + 1]) ELSE s]]
  <2>1. step \in Steps(Seq(Events))
    <3>1. \A n \in Nat : n + 1 \in 1 .. N => l[n + 1] \in Events
      BY <1>2
    <3>2. QED
      BY <3>1 DEF Steps
  <2>2. << >> \in Seq(Events)
    OBVIOUS
  <2>3. PICK f \in [0 .. N -> Seq(Events)] : Loops(f, << >>, step, N)
    <3> HIDE DEF step
    <3> QED
      BY <2>1, <2>2, Looped
  <2>4. ASSUME NEW k \in 1 .. N PROVE f[k] = IF l[k] \in nodes THEN Append(f[k - 1], l[k]) ELSE f[k - 1]
    <3>1. PICK n \in Nat : n = k - 1 /\ n + 1 = k /\ n \in 0 .. N
      OBVIOUS
    <3>2. f[n] \in Seq(Events) /\ f[k] = step[n][f[n]]
      BY <2>3, <3>1 DEF Loops
    <3>3. QED
      BY <3>1, <3>2
  <2>5. f = [k \in 0 .. N |-> f[k]]
    OBVIOUS
  <2>6. \A k \in 0 .. N : k = 0 \/ k \in 1 .. N
    OBVIOUS
  <2>7. \A k \in 0 .. N : f[k] = IF k = 0 THEN << >>
                                 ELSE IF l[k] \in nodes THEN Append(f[k - 1], l[k]) ELSE f[k - 1]
    BY <2>3, <2>4, <2>6 DEF Loops
  <2>8. Here(f)
    BY <2>5, <2>7
  <2>9. QED
    BY <2>8
<1>5. PICK f : Here(f) /\ Found(e) = f[N]
  <2> HIDE DEF Here
  <2> QED
    BY <1>3, <1>4
<1> DEFINE Named(k) == {l[j] : j \in 1 .. k} \cap nodes
<1> DEFINE T == {k \in Nat : k <= N => f[k] \in Seq(Events) /\ Range(f[k]) = Named(k)}
<1>6. 0 \in T
  <2>1. f[0] = << >>
    BY <1>5
  <2>2. Range(<< >>) = {}
    BY DEF Range
  <2>3. Named(0) = {}
    OBVIOUS
  <2> HIDE DEF Named
  <2>4. Range(f[0]) = Named(0)
    BY <2>1, <2>2, <2>3
  <2>5. << >> \in Seq(Events)
    OBVIOUS
  <2>6. f[0] \in Seq(Events)
    BY <2>1, <2>5, Zenon
  <2>7. QED
    BY <2>4, <2>6
<1>7. ASSUME NEW k \in Nat, k \in T PROVE k + 1 \in T
  <2> SUFFICES ASSUME k + 1 <= N
               PROVE  f[k + 1] \in Seq(Events) /\ Range(f[k + 1]) = Named(k + 1)
    OBVIOUS
  <2>0. Named(k + 1) = IF l[k + 1] \in nodes THEN Named(k) \cup {l[k + 1]} ELSE Named(k)
    <3>1. \A j : j \in 1 .. k + 1 <=> j \in 1 .. k \/ j = k + 1
      OBVIOUS
    <3>2. {l[j] : j \in 1 .. k + 1} = {l[j] : j \in 1 .. k} \cup {l[k + 1]}
      BY <3>1
    <3>3. QED
      BY <3>2
  <2> HIDE DEF Named
  <2>1. PICK s \in Seq(Events) : s = f[k] /\ Range(s) = Named(k)
    BY <1>7
  <2>2. PICK x \in Events : x = l[k + 1]
    BY <1>2
  <2>3. f[k + 1] = IF x \in nodes THEN Append(s, x) ELSE s
    <3>1. k + 1 \in 0 .. N /\ k + 1 # 0 /\ (k + 1) - 1 = k
      OBVIOUS
    <3>2. QED
      BY <1>5, <2>1, <2>2, <3>1
  <2>5. CASE x \in nodes
    <3>1. Append(s, x) \in Seq(Events) /\ Range(Append(s, x)) = Range(s) \cup {x}
      BY RangeGrows
    <3>2. f[k + 1] = Append(s, x) /\ Named(k + 1) = Range(s) \cup {x}
      BY <2>0, <2>1, <2>2, <2>3, <2>5
    <3>3. QED
      BY <3>1, <3>2
  <2>6. CASE x \notin nodes
    BY <2>0, <2>1, <2>2, <2>3, <2>6
  <2>7. QED
    BY <2>5, <2>6
<1>8. Nat \subseteq T
  <2> HIDE DEF T
  <2> QED
    BY <1>6, <1>7, NatAll
<1>9. N \in T
  BY <1>8
<1>10. Range(l) = {l[j] : j \in 1 .. N}
  BY <1>2, RangeIs
<1>11. QED
  BY <1>1, <1>5, <1>9, <1>10

VisitType == [Events -> [Seq(Events) -> Seq(Events)]]

VisitsAll(f, visit, result, l, N) ==
  /\ f[0] = result /\ VisitAll(visit, result, l) = f[N]
  /\ \A k \in 1 .. N : f[k] = visit[l[k]][f[k - 1]]

LEMMA VisitAllIs ==
  ASSUME NEW visit \in VisitType, NEW result \in Seq(Events), NEW l \in Seq(Events), NEW N \in Nat, N = Len(l)
  PROVE  \E f \in [0 .. N -> Seq(Events)] : VisitsAll(f, visit, result, l, N)
<1> DEFINE Here(f) == f = [k \in 0 .. N |-> IF k = 0 THEN result ELSE visit[l[k]][f[k - 1]]]
<1>1. VisitAll(visit, result, l) = (CHOOSE f : Here(f))[N]
  BY DEF VisitAll
<1>2. \A k \in 1 .. N : l[k] \in Events
  OBVIOUS
<1>3. \A e \in Events : visit[e] \in [Seq(Events) -> Seq(Events)]
  BY DEF VisitType
<1>4. \E f : Here(f)
  <2> DEFINE step == [n \in Nat |-> [s \in Seq(Events) |-> IF n + 1 \in 1 .. N THEN visit[l[n + 1]][s] ELSE s]]
  <2>1. step \in Steps(Seq(Events))
    BY <1>2, <1>3 DEF Steps
  <2>2. PICK f \in [0 .. N -> Seq(Events)] : Loops(f, result, step, N)
    <3> HIDE DEF step
    <3> QED
      BY <2>1, Looped
  <2>3. ASSUME NEW k \in 1 .. N PROVE f[k] = visit[l[k]][f[k - 1]]
    <3>1. PICK n \in Nat : n = k - 1 /\ n + 1 = k /\ n \in 0 .. N
      OBVIOUS
    <3>2. f[n] \in Seq(Events) /\ f[k] = step[n][f[n]]
      BY <2>2, <3>1 DEF Loops
    <3>3. QED
      BY <3>1, <3>2
  <2>4. f = [k \in 0 .. N |-> f[k]]
    OBVIOUS
  <2>5. \A k \in 0 .. N : k = 0 \/ k \in 1 .. N
    OBVIOUS
  <2>6. \A k \in 0 .. N : f[k] = IF k = 0 THEN result ELSE visit[l[k]][f[k - 1]]
    BY <2>2, <2>3, <2>5 DEF Loops
  <2>7. Here(f)
    BY <2>4, <2>6
  <2>8. QED
    BY <2>7
<1>5. PICK f : Here(f) /\ VisitAll(visit, result, l) = f[N]
  <2> HIDE DEF Here
  <2> QED
    BY <1>1, <1>4
<1>6. f[0] = result /\ \A k \in 1 .. N : f[k] = visit[l[k]][f[k - 1]]
  <2>1. f[0] = result
    BY <1>5
  <2>2. ASSUME NEW k \in 1 .. N PROVE f[k] = visit[l[k]][f[k - 1]]
    <3>1. k \in 0 .. N /\ k # 0
      OBVIOUS
    <3>2. QED
      BY <1>5, <3>1
  <2>3. QED
    BY <2>1, <2>2
<1> DEFINE T == {k \in Nat : k <= N => f[k] \in Seq(Events)}
<1>7. 0 \in T
  BY <1>6
<1>8. ASSUME NEW k \in Nat, k \in T PROVE k + 1 \in T
  <2> SUFFICES ASSUME k + 1 <= N PROVE f[k + 1] \in Seq(Events)
    OBVIOUS
  <2>1. k + 1 \in 1 .. N /\ (k + 1) - 1 = k /\ f[k] \in Seq(Events)
    BY <1>8
  <2>2. f[k + 1] = visit[l[k + 1]][f[k]]
    BY <1>6, <2>1
  <2>3. QED
    BY <1>2, <1>3, <2>1, <2>2
<1>9. Nat \subseteq T
  <2> HIDE DEF T
  <2> QED
    BY <1>7, <1>8, NatAll
<1>10. f \in [0 .. N -> Seq(Events)]
  <2>1. \A k \in 0 .. N : f[k] \in Seq(Events)
    BY <1>9
  <2>2. QED
    BY <1>5, <2>1
<1>11. QED
  BY <1>5, <1>6, <1>10 DEF VisitsAll

LEMMA VisitingType ==
  ASSUME NEW visit \in VisitType, predecessors \in [Events -> Seq(Events)]
  PROVE  Visiting(visit) \in VisitType
<1> SUFFICES ASSUME NEW e \in Events, NEW result \in Seq(Events)
             PROVE  Append(VisitAll(visit, result, predecessors[e]), e) \in Seq(Events)
  BY DEF Visiting, VisitType
<1>1. predecessors[e] \in Seq(Events) /\ Len(predecessors[e]) \in Nat
  OBVIOUS
<1>2. PICK l \in Seq(Events), N \in Nat : l = predecessors[e] /\ N = Len(l)
  BY <1>1
<1>3. VisitAll(visit, result, l) \in Seq(Events)
  <2>0. PICK f \in [0 .. N -> Seq(Events)] : VisitsAll(f, visit, result, l, N)
    BY <1>2, VisitAllIs
  <2>1. VisitAll(visit, result, l) = f[N]
    BY <2>0 DEF VisitsAll
  <2>2. N \in 0 .. N
    OBVIOUS
  <2>3. QED
    BY <2>1, <2>2
<1>4. QED
  BY <1>2, <1>3

NoVisit == [e \in Events |-> [result \in Seq(Events) |-> result]]

LEMMA VisitUnfolds ==
  ASSUME predecessors \in [Events -> Seq(Events)]
  PROVE  /\ Visit[0] = NoVisit
         /\ \A n \in Nat : Visit[n] \in VisitType /\ Visit[n + 1] = Visiting(Visit[n])
<1> DEFINE step == [n \in Nat |-> [v \in VisitType |-> Visiting(v)]]
<1>1. NoVisit \in VisitType /\ step \in Steps(VisitType)
  BY VisitingType DEF NoVisit, VisitType, Steps
<1>2. PICK f \in [Nat -> VisitType] : f[0] = NoVisit /\ \A n \in Nat : f[n + 1] = step[n][f[n]]
  <2> HIDE DEF step
  <2>1. \E f \in [Nat -> VisitType] : Iterates(f, NoVisit, step)
    BY <1>1, Iterated
  <2>2. QED
    BY <2>1 DEF Iterates
<1>3. f = [n \in Nat |-> IF n = 0 THEN NoVisit ELSE Visiting(f[n - 1])]
  <2>1. ASSUME NEW n \in Nat, n # 0 PROVE f[n] = Visiting(f[n - 1])
    <3>1. n - 1 \in Nat /\ (n - 1) + 1 = n
      BY <2>1
    <3>2. f[n] = step[n - 1][f[n - 1]] /\ f[n - 1] \in VisitType
      BY <1>2, <3>1
    <3>3. QED
      BY <3>2, <3>1
  <2>2. QED
    BY <1>2, <2>1
<1> DEFINE Recursive(g) == g = [n \in Nat |-> IF n = 0 THEN NoVisit ELSE Visiting(g[n - 1])]
<1>4. Visit = CHOOSE g : Recursive(g)
  BY DEF Visit, NoVisit
<1>5. Recursive(Visit)
  <2>1. \E g : Recursive(g)
    BY <1>3
  <2> HIDE DEF Recursive
  <2>2. QED
    BY <1>4, <2>1
<1>6. Visit[0] = NoVisit /\ \A n \in Nat : Visit[n + 1] = Visiting(Visit[n])
  BY <1>5
<1> DEFINE T == {n \in Nat : Visit[n] \in VisitType}
<1>7. 0 \in T
  BY <1>1, <1>6
<1>8. ASSUME NEW n \in Nat, n \in T PROVE n + 1 \in T
  BY <1>6, <1>8, VisitingType
<1>9. Nat \subseteq T
  <2> HIDE DEF T
  <2> QED
    BY <1>7, <1>8, NatAll
<1>10. QED
  BY <1>6, <1>9

----------------------------------------------------------------------------
(* Walks.                                                                  *)

Graph == [Events -> Seq(Events)]
ClosedUnder(next, S) == \A g \in S : Range(next[g]) \subseteq S

LEMMA NextIsEvents ==
  ASSUME NEW next \in Graph, NEW e \in Events
  PROVE  Range(next[e]) \subseteq Events
<1>1. next[e] \in Seq(Events)
  BY DEF Graph
<1>2. QED
  BY <1>1, RangeIs

LEMMA CollectLeast ==
  ASSUME NEW next, NEW e, NEW S \in SUBSET Events, Range(next[e]) \subseteq S, ClosedUnder(next, S)
  PROVE  Collect(next, e) \subseteq S
BY DEF Collect, ClosedUnder

LEMMA CollectCloses ==
  ASSUME NEW next \in Graph, NEW e \in Events
  PROVE  /\ Collect(next, e) \in SUBSET Events
         /\ Range(next[e]) \subseteq Collect(next, e)
         /\ ClosedUnder(next, Collect(next, e))
<1>1. Collect(next, e) \in SUBSET Events
  BY DEF Collect
<1>2. Range(next[e]) \subseteq Collect(next, e)
  BY NextIsEvents DEF Collect
<1>3. ASSUME NEW g \in Collect(next, e), NEW h \in Range(next[g]) PROVE h \in Collect(next, e)
  <2>1. g \in Events
    BY <1>1
  <2>2. h \in Events
    BY <2>1, NextIsEvents
  <2>3. ASSUME NEW S \in SUBSET Events, Range(next[e]) \subseteq S, \A x \in S : Range(next[x]) \subseteq S
        PROVE  h \in S
    <3>1. g \in S
      BY <1>3, <2>3 DEF Collect
    <3>2. QED
      BY <1>3, <2>3, <3>1
  <2>4. QED
    BY <2>2, <2>3 DEF Collect
<1>4. QED
  BY <1>1, <1>2, <1>3 DEF ClosedUnder

LEMMA CollectReaches ==
  ASSUME NEW next \in Graph, NEW e \in Events, NEW g \in Range(next[e])
  PROVE  g \in Collect(next, e) /\ Collect(next, g) \subseteq Collect(next, e)
<1>1. g \in Collect(next, e) /\ Collect(next, e) \in SUBSET Events /\ ClosedUnder(next, Collect(next, e))
  BY CollectCloses
<1>2. Range(next[g]) \subseteq Collect(next, e)
  BY <1>1 DEF ClosedUnder
<1>3. QED
  BY <1>1, <1>2, CollectLeast

(* A walk one way is a walk back the other way.                            *)
LEMMA CollectTurns ==
  ASSUME NEW next \in Graph, NEW back \in Graph,
         \A p, e \in Events : e \in Range(next[p]) <=> p \in Range(back[e]),
         NEW e \in Events, NEW f \in Collect(back, e)
  PROVE  e \in Collect(next, f)
<1>1. PICK S \in SUBSET Events : S = {g \in Events : e \in Collect(next, g)}
  OBVIOUS
<1>2. Range(back[e]) \subseteq S
  <2> SUFFICES ASSUME NEW g \in Range(back[e]) PROVE g \in S
    OBVIOUS
  <2>1. g \in Events
    BY NextIsEvents
  <2>2. e \in Range(next[g])
    BY <2>1
  <2>3. QED
    BY <1>1, <2>1, <2>2, CollectReaches
<1>3. ClosedUnder(back, S)
  <2> SUFFICES ASSUME NEW g \in S, NEW h \in Range(back[g]) PROVE h \in S
    BY DEF ClosedUnder
  <2>1. g \in Events /\ e \in Collect(next, g)
    BY <1>1
  <2>2. h \in Events
    BY <2>1, NextIsEvents
  <2>3. g \in Range(next[h])
    BY <2>1, <2>2
  <2>4. Collect(next, g) \subseteq Collect(next, h)
    BY <2>2, <2>3, CollectReaches
  <2>5. QED
    BY <1>1, <2>1, <2>2, <2>4
<1>4. f \in S
  BY <1>2, <1>3, CollectLeast
<1>5. QED
  BY <1>1, <1>4

(* Where a number rises along the links, so it does along a walk, which    *)
(* never comes back.                                                       *)
LEMMA WalkRises ==
  ASSUME NEW next \in Graph, NEW rank \in [Events -> Nat],
         \A p \in Events : \A f \in Range(next[p]) : rank[p] < rank[f],
         NEW e \in Events
  PROVE  \A f \in Collect(next, e) : rank[e] < rank[f]
<1>1. PICK S \in SUBSET Events : S = {g \in Events : rank[e] < rank[g]}
  OBVIOUS
<1>2. Range(next[e]) \subseteq S
  BY <1>1, NextIsEvents
<1>3. ClosedUnder(next, S)
  <2> SUFFICES ASSUME NEW g \in S, NEW h \in Range(next[g]) PROVE h \in S
    BY DEF ClosedUnder
  <2>1. g \in Events /\ rank[e] < rank[g]
    BY <1>1
  <2>2. h \in Events /\ rank[g] < rank[h]
    BY <2>1, NextIsEvents
  <2>3. QED
    BY <1>1, <2>1, <2>2
<1>4. QED
  BY <1>1, <1>2, <1>3, CollectLeast

LEMMA NoCycle ==
  ASSUME NEW next \in Graph, NEW rank \in [Events -> Nat],
         \A p \in Events : \A f \in Range(next[p]) : rank[p] < rank[f],
         NEW e \in Events
  PROVE  ~HasCycleFrom(next, e)
<1> SUFFICES ASSUME NEW f \in {e} \cup Collect(next, e), f \in Collect(next, f) PROVE FALSE
  BY DEF HasCycleFrom
<1>1. f \in Events
  BY CollectCloses
<1>2. rank[f] < rank[f]
  BY <1>1, WalkRises
<1>3. QED
  BY <1>1, <1>2

(* The depth below a list of events.                                       *)
LEMMA DepthBelowIs ==
  ASSUME depth \in [Events -> Nat], NEW preds \in Seq(Events), NEW b \in Nat,
         \A p \in Range(preds) : depth[p] < b
  PROVE  /\ DepthBelow(preds) \in Nat /\ DepthBelow(preds) <= b
         /\ \A p \in Range(preds) : depth[p] < DepthBelow(preds)
         /\ DepthBelow(preds) # 0 => \E p \in Range(preds) : depth[p] = DepthBelow(preds) - 1
<1> DEFINE D(A) == {0} \cup {depth[p] + 1 : p \in A}
<1> DEFINE HasMax(A) == \E m \in D(A) : \A x \in D(A) : m >= x
<1> DEFINE T == {A \in SUBSET Events : HasMax(A)}
<1>1. {} \in T
  <2>1. \A x \in D({}) : x = 0
    OBVIOUS
  <2>2. QED
    BY <2>1
<1>2. ASSUME NEW A \in SUBSET Events, A # {}, \A x \in A : A \ {x} \in T PROVE A \in T
  <2>1. PICK y \in A : TRUE
    BY <1>2
  <2>2. PICK m \in D(A \ {y}) : \A x \in D(A \ {y}) : m >= x
    BY <1>2, <2>1
  <2>3. m \in Nat /\ m \in D(A) /\ depth[y] + 1 \in D(A) /\ depth[y] + 1 \in Nat
    OBVIOUS
  <2>4. \A x \in D(A) : x \in Nat /\ (x \in D(A \ {y}) \/ x = depth[y] + 1)
    OBVIOUS
  <2> HIDE DEF D
  <2>5. CASE m >= depth[y] + 1
    <3>1. \A x \in D(A) : m >= x
      BY <2>2, <2>3, <2>4, <2>5
    <3>2. QED
      BY <2>3, <3>1
  <2>6. CASE ~(m >= depth[y] + 1)
    <3>1. \A x \in D(A) : depth[y] + 1 >= x
      <4> SUFFICES ASSUME NEW x \in D(A) PROVE depth[y] + 1 >= x
        OBVIOUS
      <4>1. x = depth[y] + 1 \/ m >= x
        BY <2>2, <2>4
      <4>2. x \in Nat
        BY <2>4
      <4>3. QED
        BY <2>3, <2>6, <4>1, <4>2
    <3>2. QED
      BY <2>3, <3>1
  <2>7. QED
    BY <2>5, <2>6
<1>3. SUBSET Events \subseteq T
  <2> HIDE DEF T
  <2> QED
    BY <1>1, <1>2, EventsFinite, FiniteAll
<1>4. PICK A \in SUBSET Events : A = Range(preds)
  BY RangeIs
<1>5. PICK m : m = DepthBelow(preds)
  OBVIOUS
<1>6. m \in D(A) /\ \A x \in D(A) : m >= x
  <2>1. HasMax(A)
    BY <1>3
  <2>2. m = CHOOSE x \in D(A) : \A y \in D(A) : x >= y
    BY <1>4, <1>5 DEF DepthBelow, Max
  <2> HIDE DEF D
  <2>3. QED
    BY <2>1, <2>2
<1>7. \A p \in A : depth[p] \in Nat /\ depth[p] + 1 \in D(A) /\ depth[p] < b
  BY <1>4
<1>8. m \in Nat /\ m <= b
  BY <1>6, <1>7
<1>9. \A p \in A : depth[p] < m
  BY <1>6, <1>7, <1>8
<1>10. m # 0 => \E p \in A : depth[p] = m - 1
  BY <1>6, <1>7
<1>11. QED
  BY <1>4, <1>5, <1>8, <1>9, <1>10
----------------------------------------------------------------------------
(* Steps.                                                                  *)

graphVars == <<hashed, listed, time, nodes, predecessors, successors, depth, leaves, arrived>>

LEMMA GraphSame ==
  ASSUME GraphSound, UNCHANGED graphVars
  PROVE  GraphSound'
BY DEF GraphSound, graphVars, GraphTypes, ListsNameTheSame, ArrivedOnce, LinksUp, LinksDown,
       LeavesHaveNone, DepthsRise, DepthsBounded

LEMMA NodesAreEvents ==
  ASSUME GraphSound
  PROVE  nodes \subseteq Events
BY RangeIs DEF GraphSound, GraphTypes, ArrivedOnce

(* What a caller keeps in mind stays true.                                 *)
LEMMA CallGoesOn ==
  ASSUME NEW now \in SUBSET Events, NEW then, now \subseteq then, NEW lists, NEW new,
         \A e \in Events : Range(new[e]) = Range(lists[e]),
         NEW call, CallSound(call, now, lists)
  PROVE  CallSound(call, then, new)
<1>1. ASSUME call.at = "reported", call.errors = {}, NEW e \in call.events
      PROVE  Range(new[e]) \subseteq then
  BY <1>1 DEF CallSound
<1>2. call.at \in {"sorted", "reported"} => call.events \subseteq then
  BY DEF CallSound
<1>3. QED
  BY <1>1, <1>2 DEF CallSound

LEMMA CallersGoOn ==
  ASSUME GraphSound, CallersSound, nodes \subseteq nodes',
         \A e \in Events : Range(listed'[e]) = Range(listed[e]),
         NEW c \in Callers, NEW call, caller' = [caller EXCEPT ![c] = call], CallSound(call, nodes', listed')
  PROVE  CallersSound'
<1>1. DOMAIN caller = Callers /\ \A d \in Callers : CallSound(caller[d], nodes, listed)
  BY DEF CallersSound
<1>2. DOMAIN caller' = Callers
  BY <1>1
<1>3. ASSUME NEW d \in Callers PROVE CallSound(caller'[d], nodes', listed')
  <2>1. CASE d = c
    BY <1>1, <2>1
  <2>2. CASE d # c
    <3>1. caller'[d] = caller[d]
      BY <1>1, <2>2
    <3>2. CallSound(caller[d], nodes', listed')
      BY <1>1, NodesAreEvents, CallGoesOn
    <3>3. QED
      BY <3>1, <3>2
  <2>3. QED
    BY <2>1, <2>2
<1>4. QED
  BY <1>2, <1>3 DEF CallersSound, CallSound

LEMMA DagInitSound ==
  ASSUME DagInit
  PROVE  DagInv
<1>1. hashed \in [Events -> Seq(Events)]
  <2>1. hashed \in [Events -> UNION {SetToSeqs(S) : S \in SUBSET Events}]
    BY DEF DagInit
  <2>2. ASSUME NEW e \in Events PROVE hashed[e] \in Seq(Events)
    <3>1. PICK S \in SUBSET Events : hashed[e] \in SetToSeqs(S)
      BY <2>1
    <3>2. QED
      BY <3>1, SeqsOfSet
  <2>3. QED
    BY <2>1, <2>2
<1>2. Range(<< >>) = {} /\ DOMAIN << >> = {} /\ << >> \in Seq(Events)
  BY DEF Range
<1>3. GraphTypes
  <2>1. time \in [Events -> Int]
    BY DagAssumption DEF DagInit, DagAssumption, Events
  <2>2. QED
    BY <1>1, <2>1 DEF DagInit, GraphTypes
<1>4. ListsNameTheSame /\ ArrivedOnce
  BY <1>2 DEF DagInit, ListsNameTheSame, ArrivedOnce
<1>5. LinksUp
  BY <1>2 DEF DagInit, LinksUp, ComesBefore
<1>6. LinksDown /\ LeavesHaveNone /\ DepthsRise /\ DepthsBounded
  BY <1>2 DEF DagInit, LinksDown, LeavesHaveNone, DepthsRise, RisesAt, DepthsBounded
<1>7. CallersSound
  <2>1. DOMAIN caller = Callers /\ \A c \in Callers : caller[c] = Idle
    BY DEF DagInit
  <2>2. CallSound(Idle, nodes, listed)
    BY DEF CallSound, Idle
  <2>3. QED
    BY <2>1, <2>2 DEF CallersSound
<1>8. QED
  BY <1>3, <1>4, <1>5, <1>6, <1>7 DEF DagInv, GraphSound

(* A step of a caller that leaves the graph as it is.                      *)
LEMMA CallStep ==
  ASSUME DagInv, UNCHANGED graphVars,
         NEW c \in Callers, NEW call, caller' = [caller EXCEPT ![c] = call], CallSound(call, nodes, listed)
  PROVE  DagInv'
<1>1. GraphSound'
  BY GraphSame DEF DagInv
<1>2. nodes' = nodes /\ listed' = listed
  BY DEF graphVars
<1>3. CallSound(call, nodes', listed')
  BY <1>2
<1>4. CallersSound'
  BY <1>2, <1>3, CallersGoOn DEF DagInv
<1>5. QED
  BY <1>1, <1>4 DEF DagInv

LEMMA ReaderSteps ==
  ASSUME DagInv, NEW c \in Callers, NEW e \in Events,
         \/ AnnounceAdd(c, e) \/ EnterParallel(c) \/ GetParallelEvents(c) \/ VerifyDAGSort(c)
         \/ VerifyDAGReport(c) \/ VerifyDAGDone(c)
  PROVE  DagInv'
<1>0. CallSound(caller[c], nodes, listed)
  BY DEF DagInv, CallersSound
<1>1. CallSound(Idle, nodes, listed)
  BY DEF CallSound, Idle
<1>2. CASE AnnounceAdd(c, e)
  <2>1. PICK call : call = [at |-> "announced", event |-> e]
    OBVIOUS
  <2>2. CallSound(call, nodes, listed)
    BY <2>1 DEF CallSound
  <2>3. QED
    BY <1>2, <2>1, <2>2, CallStep DEF AnnounceAdd, graphVars
<1>3. CASE EnterParallel(c)
  <2>1. PICK call : call = [at |-> "parallel"]
    OBVIOUS
  <2>2. CallSound(call, nodes, listed)
    BY <2>1 DEF CallSound
  <2>3. QED
    BY <1>3, <2>1, <2>2, CallStep DEF EnterParallel, graphVars
<1>4. CASE GetParallelEvents(c)
  BY <1>1, <1>4, CallStep DEF GetParallelEvents, graphVars
<1>5. CASE VerifyDAGSort(c)
  <2>1. PICK call : call = [at |-> "sorted", events |-> nodes]
    OBVIOUS
  <2>2. CallSound(call, nodes, listed)
    BY <2>1 DEF CallSound
  <2>3. QED
    BY <1>5, <2>1, <2>2, CallStep DEF VerifyDAGSort, graphVars
<1>6. CASE VerifyDAGReport(c)
  <2>1. PICK S : S = caller[c].events
    OBVIOUS
  <2>2. PICK errors : errors = InvalidHashes(S) \cup MissingPredecessors(S) \cup TimestampViolations(S)
    OBVIOUS
  <2>3. PICK call : call = [at |-> "reported", events |-> S, errors |-> errors]
    OBVIOUS
  <2>4. S \subseteq nodes
    BY <1>0, <1>6, <2>1 DEF VerifyDAGReport, CallSound
  <2>5. errors = {} => MissingPredecessors(S) = {}
    BY <2>2
  <2>6. errors = {} => \A f \in S : Range(listed[f]) \subseteq nodes
    BY <2>4, <2>5 DEF MissingPredecessors
  <2>7. CallSound(call, nodes, listed)
    BY <2>3, <2>4, <2>6 DEF CallSound
  <2>8. caller' = [caller EXCEPT ![c] = call] /\ UNCHANGED graphVars
    BY <1>6, <2>1, <2>2, <2>3 DEF VerifyDAGReport, graphVars
  <2>9. QED
    BY <2>7, <2>8, CallStep
<1>7. CASE VerifyDAGDone(c)
  BY <1>1, <1>7, CallStep DEF VerifyDAGDone, graphVars
<1>8. QED
  BY <1>2, <1>3, <1>4, <1>5, <1>6, <1>7

LEMMA MergePointStep ==
  ASSUME DagInv, NEW c \in Callers, NEW e \in Events, VerifyMergePoint(c, e)
  PROVE  DagInv'
<1>0. GraphSound /\ CallersSound /\ listed \in [Events -> Seq(Events)] /\ hashed \in [Events -> Seq(Events)]
  BY DEF DagInv, GraphSound, GraphTypes
<1>1. /\ listed' = [listed EXCEPT ![e] = Ordered(listed[e])] /\ Len(listed[e]) > 1
      /\ UNCHANGED <<hashed, time, nodes, predecessors, successors, depth, leaves, caller, arrived>>
  BY DEF VerifyMergePoint
<1>2. Ordered(listed[e]) \in Seq(Events) /\ Range(Ordered(listed[e])) = Range(listed[e])
  BY <1>0, OrderedIs
<1>3. /\ listed' \in [Events -> Seq(Events)] /\ listed'[e] = Ordered(listed[e])
      /\ \A f \in Events : f # e => listed'[f] = listed[f]
  BY <1>0, <1>1, <1>2
<1>4. \A f \in Events : Range(listed'[f]) = Range(listed[f])
  BY <1>2, <1>3
<1>5. GraphTypes'
  BY <1>0, <1>1, <1>3 DEF GraphSound, GraphTypes
<1>6. ListsNameTheSame'
  <2> SUFFICES ASSUME NEW f \in Events
               PROVE  /\ Range(listed'[f]) = Range(hashed[f])
                      /\ listed'[f] # hashed[f] => listed'[f] = Ordered(hashed[f]) /\ Len(hashed[f]) > 1
    BY <1>1 DEF ListsNameTheSame
  <2>1. /\ Range(listed[f]) = Range(hashed[f])
        /\ listed[f] # hashed[f] => listed[f] = Ordered(hashed[f]) /\ Len(hashed[f]) > 1
    BY <1>0 DEF GraphSound, ListsNameTheSame
  <2>2. CASE f = e
    <3>1. Ordered(listed[e]) = Ordered(hashed[e])
      BY <2>1, <2>2, OrderedSame
    <3>2. Len(hashed[e]) > 1
      BY <1>1, <2>1, <2>2
    <3>3. QED
      BY <1>3, <1>4, <2>1, <2>2, <3>1, <3>2
  <2>3. CASE f # e
    BY <1>3, <2>1, <2>3
  <2>4. QED
    BY <2>2, <2>3
<1>7. (ArrivedOnce /\ LinksDown /\ LeavesHaveNone /\ DepthsRise /\ DepthsBounded)'
  BY <1>0, <1>1 DEF GraphSound, ArrivedOnce, LinksDown, LeavesHaveNone, DepthsRise, DepthsBounded
<1>8. LinksUp'
  BY <1>0, <1>1, <1>4 DEF GraphSound, LinksUp
<1>9. CallersSound'
  <2> SUFFICES ASSUME NEW d \in Callers PROVE CallSound(caller[d], nodes, listed')
    BY <1>0, <1>1 DEF CallersSound
  <2>1. nodes \in SUBSET Events /\ CallSound(caller[d], nodes, listed)
    BY <1>0, NodesAreEvents DEF CallersSound
  <2>2. QED
    BY <1>4, <2>1, CallGoesOn
<1>10. QED
  BY <1>5, <1>6, <1>7, <1>8, <1>9 DEF DagInv, GraphSound

LEMMA BeforeGrows ==
  ASSUME NEW a \in Seq(Events), NEW e \in Events, e \notin Range(a), NEW p, NEW f
  PROVE  ComesBefore(Append(a, e), p, f) <=> IF f = e THEN p \in Range(a) ELSE ComesBefore(a, p, f)
<1>1. PICK b, n : b = Append(a, e) /\ n = Len(a)
  OBVIOUS
<1>2. n \in Nat /\ DOMAIN a = 1 .. n /\ DOMAIN b = 1 .. n + 1 /\ b[n + 1] = e
  BY <1>1
<1>3. \A k \in 1 .. n : b[k] = a[k] /\ k \in 1 .. n + 1
  BY <1>1, <1>2
<1>4. Range(a) = {a[k] : k \in 1 .. n}
  BY <1>1, RangeIs
<1>5. \A k \in 1 .. n : a[k] # e
  BY <1>4
<1>6. \A k \in 1 .. n + 1 : k = n + 1 \/ k \in 1 .. n
  BY <1>2
<1>7. \A k \in 1 .. n : k < n + 1
  BY <1>2
<1>8. CASE f = e
  <2>1. ASSUME ComesBefore(b, p, f) PROVE p \in Range(a)
    <3>1. PICK j, k \in 1 .. n + 1 : j < k /\ b[j] = p /\ b[k] = e
      BY <1>2, <1>8, <2>1 DEF ComesBefore
    <3>2. k = n + 1
      BY <1>3, <1>5, <1>6, <3>1
    <3>3. j \in 1 .. n
      BY <1>2, <3>1, <3>2
    <3>4. QED
      BY <1>3, <1>4, <3>1, <3>3
  <2>2. ASSUME p \in Range(a) PROVE ComesBefore(b, p, f)
    <3>1. PICK j \in 1 .. n : a[j] = p
      BY <1>4, <2>2
    <3>2. j \in 1 .. n + 1 /\ n + 1 \in 1 .. n + 1 /\ j < n + 1
      BY <1>2
    <3>3. QED
      BY <1>2, <1>3, <1>8, <3>1, <3>2 DEF ComesBefore
  <2>3. QED
    BY <1>1, <1>8, <2>1, <2>2
<1>9. CASE f # e
  <2>1. ASSUME ComesBefore(b, p, f) PROVE ComesBefore(a, p, f)
    <3>1. PICK j, k \in 1 .. n + 1 : j < k /\ b[j] = p /\ b[k] = f
      BY <1>2, <2>1 DEF ComesBefore
    <3>2. k \in 1 .. n
      BY <1>2, <1>6, <1>9, <3>1
    <3>3. j \in 1 .. n
      BY <1>2, <3>1, <3>2
    <3>4. QED
      BY <1>2, <1>3, <3>1, <3>2, <3>3 DEF ComesBefore
  <2>2. ASSUME ComesBefore(a, p, f) PROVE ComesBefore(b, p, f)
    <3>1. PICK j, k \in 1 .. n : j < k /\ a[j] = p /\ a[k] = f
      BY <1>2, <2>2 DEF ComesBefore
    <3>2. QED
      BY <1>2, <1>3, <3>1 DEF ComesBefore
  <2>3. QED
    BY <1>1, <1>9, <2>1, <2>2
<1>10. QED
  BY <1>8, <1>9

LEMMA BeforeIsIn ==
  ASSUME NEW a, NEW p, NEW f, ComesBefore(a, p, f)
  PROVE  p \in Range(a) /\ f \in Range(a)
BY DEF ComesBefore, Range

(* The graph after a new event was put in it, with its links both ways.    *)
LEMMA AddStep ==
  ASSUME DagInv, NEW c \in Callers, AddEvent(c), caller[c].event \notin nodes
  PROVE  DagInv'
<1>0. GraphSound /\ CallersSound /\ GraphTypes
  BY DEF DagInv, GraphSound
<1>1. PICK e \in Events : e = caller[c].event
  BY <1>0 DEF CallersSound, CallSound, AddEvent
<1>2. e \notin nodes /\ nodes \subseteq Events /\ nodes = Range(arrived)
  BY <1>0, <1>1, NodesAreEvents DEF GraphSound, ArrivedOnce
<1>3. PICK found \in Seq(Events) : found = Found(e) /\ Range(found) = Range(listed[e]) \cap nodes
  BY <1>0, FoundIs DEF GraphTypes
<1>4. PICK next : next = [p \in Events |-> IF p \in Range(Found(e)) THEN Append(successors[p], e)
                                                           ELSE successors[p]]
  OBVIOUS
<1>5. /\ predecessors' = [predecessors EXCEPT ![e] = found]
      /\ successors' = next
      /\ depth' = [depth EXCEPT ![e] = DepthBelow(found)]
      /\ leaves' = LeavesWith(next, e)
      /\ nodes' = IF HasCycleFrom(next, e) THEN nodes ELSE nodes \cup {e}
      /\ arrived' = Append(arrived, e)
  BY <1>1, <1>2, <1>3, <1>4 DEF AddEvent
<1>6. UNCHANGED <<hashed, listed, time>> /\ caller' = [caller EXCEPT ![c] = Idle]
  BY DEF AddEvent
<1>7. PICK n \in Nat : n = Len(arrived) /\ DOMAIN arrived = 1 .. n
  BY <1>0 DEF GraphTypes
<1>8. \A p \in nodes : depth[p] \in Nat /\ depth[p] < n
  <2> SUFFICES ASSUME NEW p \in nodes PROVE depth[p] \in Nat /\ depth[p] < n
    OBVIOUS
  <2>1. PICK k \in 1 .. n : arrived[k] = p
    BY <1>2, <1>7 DEF Range
  <2>2. depth[p] < k /\ depth[p] \in Nat
    BY <1>0, <1>2, <1>7, <2>1 DEF GraphSound, DepthsBounded, GraphTypes
  <2>3. QED
    BY <2>2
<1>9. PICK d \in Nat : /\ d = DepthBelow(found) /\ d <= n
                       /\ \A p \in Range(found) : depth[p] < d
                       /\ d # 0 => \E p \in Range(found) : depth[p] = d - 1
  <2>1. depth \in [Events -> Nat] /\ \A p \in Range(found) : depth[p] < n
    BY <1>0, <1>3, <1>8 DEF GraphTypes
  <2>2. QED
    BY <2>1, DepthBelowIs
<1>10. /\ predecessors' \in [Events -> Seq(Events)] /\ predecessors'[e] = found
       /\ \A f \in Events : f # e => predecessors'[f] = predecessors[f]
  BY <1>0, <1>5 DEF GraphTypes
<1>11. /\ depth' \in [Events -> Nat] /\ depth'[e] = d
       /\ \A f \in Events : f # e => depth'[f] = depth[f]
  BY <1>0, <1>5, <1>9 DEF GraphTypes
<1>12. /\ next \in [Events -> Seq(Events)]
       /\ \A p \in Events : Range(next[p]) = IF p \in Range(found) THEN Range(successors[p]) \cup {e}
                                                                  ELSE Range(successors[p])
  <2>1. ASSUME NEW p \in Events
        PROVE  /\ next[p] \in Seq(Events)
               /\ Range(next[p]) = IF p \in Range(found) THEN Range(successors[p]) \cup {e}
                                                          ELSE Range(successors[p])
    <3>1. successors[p] \in Seq(Events)
      BY <1>0 DEF GraphTypes
    <3>2. next[p] = IF p \in Range(found) THEN Append(successors[p], e) ELSE successors[p]
      BY <1>3, <1>4
    <3>3. Append(successors[p], e) \in Seq(Events) /\ Range(Append(successors[p], e)) = Range(successors[p]) \cup {e}
      BY <3>1, RangeGrows
    <3>4. QED
      BY <3>1, <3>2, <3>3
  <2>2. QED
    BY <1>4, <2>1
<1>13. \A f \in Events : \A p \in Range(predecessors[f]) : p \in nodes /\ f \in nodes
  BY <1>0, <1>2, BeforeIsIn DEF GraphSound, LinksUp
<1>14. LinksUp'
  <2> SUFFICES ASSUME NEW f \in Events
               PROVE  Range(predecessors'[f]) = {p \in Range(listed[f]) : ComesBefore(Append(arrived, e), p, f)}
    BY <1>5, <1>6 DEF LinksUp
  <2>1. \A p : ComesBefore(Append(arrived, e), p, f) <=> IF f = e THEN p \in nodes ELSE ComesBefore(arrived, p, f)
    BY <1>0, <1>2, BeforeGrows DEF GraphTypes
  <2>2. CASE f = e
    BY <1>3, <1>10, <2>1, <2>2
  <2>3. CASE f # e
    BY <1>0, <1>10, <2>1, <2>3 DEF GraphSound, LinksUp
  <2>4. QED
    BY <2>2, <2>3
<1>15. \A p, f \in Events : f \in Range(next[p]) <=> p \in Range(predecessors'[f])
  <2> SUFFICES ASSUME NEW p \in Events, NEW f \in Events
               PROVE  f \in Range(next[p]) <=> p \in Range(predecessors'[f])
    OBVIOUS
  <2>1. f \in Range(successors[p]) <=> p \in Range(predecessors[f])
    BY <1>0 DEF GraphSound, LinksDown
  <2>2. CASE f = e
    BY <1>2, <1>10, <1>12, <1>13, <2>1, <2>2
  <2>3. CASE f # e
    BY <1>10, <1>12, <2>1, <2>3
  <2>4. QED
    BY <2>2, <2>3
<1>16. \A f \in Events : RisesAt(Range(predecessors'[f]), depth', f)
  <2> SUFFICES ASSUME NEW f \in Events PROVE RisesAt(Range(predecessors'[f]), depth', f)
    OBVIOUS
  <2>1. CASE f = e
    <3>1. \A p \in Range(found) : p \in Events /\ depth'[p] = depth[p]
      BY <1>2, <1>3, <1>11
    <3>2. QED
      BY <1>9, <1>10, <1>11, <2>1, <3>1 DEF RisesAt
  <2>2. CASE f # e
    <3>1. \A p \in Range(predecessors[f]) : depth'[p] = depth[p]
      BY <1>2, <1>11, <1>13
    <3>2. predecessors'[f] = predecessors[f] /\ depth'[f] = depth[f]
      BY <1>10, <1>11, <2>2
    <3>3. RisesAt(Range(predecessors[f]), depth, f)
      BY <1>0 DEF GraphSound, DepthsRise
    <3>4. QED
      BY <3>1, <3>2, <3>3 DEF RisesAt
  <2>3. QED
    BY <2>1, <2>2
<1>17. nodes' = nodes \cup {e}
  <2>1. PICK rank \in [Events -> Nat] : rank = depth'
    BY <1>11
  <2>2. \A p \in Events : \A f \in Range(next[p]) : rank[p] < rank[f]
    <3> SUFFICES ASSUME NEW p \in Events, NEW f \in Range(next[p]) PROVE rank[p] < rank[f]
      OBVIOUS
    <3>1. f \in Events
      BY <1>12, RangeIs
    <3>2. p \in Range(predecessors'[f])
      BY <1>15, <3>1
    <3>3. RisesAt(Range(predecessors'[f]), rank, f)
      BY <1>16, <2>1, <3>1
    <3>4. QED
      BY <3>2, <3>3 DEF RisesAt
  <2>3. next \in Graph
    BY <1>12 DEF Graph
  <2>4. ~HasCycleFrom(next, e)
    BY <2>2, <2>3, NoCycle
  <2>5. QED
    BY <1>5, <2>4
<1>18. ArrivedOnce'
  <2>1. Range(Append(arrived, e)) = nodes \cup {e}
    BY <1>0, <1>2, RangeGrows DEF GraphTypes
  <2>2. PICK b : b = Append(arrived, e)
    OBVIOUS
  <2>3. DOMAIN b = 1 .. n + 1 /\ b[n + 1] = e /\ \A k \in 1 .. n : b[k] = arrived[k]
    BY <1>0, <1>7, <2>2 DEF GraphTypes
  <2>4. \A k \in 1 .. n : arrived[k] # e
    BY <1>2, <1>7 DEF Range
  <2>5. \A j, k \in 1 .. n : arrived[j] = arrived[k] => j = k
    BY <1>0, <1>7 DEF GraphSound, ArrivedOnce
  <2>6. \A k \in 1 .. n + 1 : k = n + 1 \/ k \in 1 .. n
    BY <1>7
  <2>7. \A j, k \in 1 .. n + 1 : b[j] = b[k] => j = k
    BY <2>3, <2>4, <2>5, <2>6
  <2>8. QED
    BY <1>5, <1>17, <2>1, <2>2, <2>3, <2>7 DEF ArrivedOnce
<1>19. DepthsBounded'
  <2>2. PICK b : b = Append(arrived, e)
    OBVIOUS
  <2>3. DOMAIN b = 1 .. n + 1 /\ b[n + 1] = e /\ \A k \in 1 .. n : b[k] = arrived[k]
    BY <1>0, <1>7, <2>2 DEF GraphTypes
  <2>4. \A k \in 1 .. n : arrived[k] # e /\ arrived[k] \in Events
    BY <1>2, <1>7 DEF Range
  <2>6. \A k \in 1 .. n + 1 : k = n + 1 \/ k \in 1 .. n
    BY <1>7
  <2>7. \A k \in 1 .. n : depth[arrived[k]] < k
    BY <1>0, <1>7 DEF GraphSound, DepthsBounded
  <2>8. \A k \in 1 .. n + 1 : depth'[b[k]] < k
    <3> SUFFICES ASSUME NEW k \in 1 .. n + 1 PROVE depth'[b[k]] < k
      OBVIOUS
    <3>1. CASE k = n + 1
      BY <1>9, <1>11, <2>3, <3>1
    <3>2. CASE k \in 1 .. n
      BY <1>11, <2>3, <2>4, <2>7, <3>2
    <3>3. QED
      BY <2>6, <3>1, <3>2
  <2>9. QED
    BY <1>5, <2>2, <2>3, <2>8 DEF DepthsBounded
<1>20. LeavesHaveNone'
  <2>1. leaves = {l \in nodes : Range(successors[l]) = {}}
    BY <1>0 DEF GraphSound, LeavesHaveNone
  <2>2. \A l \in Events : next[l] = << >> <=> Range(next[l]) = {}
    BY <1>12, RangeIs
  <2>3. \A l \in Events : Range(next[l]) = {} => Range(successors[l]) = {}
    BY <1>12
  <2>4. LeavesWith(next, e) = {l \in nodes \cup {e} : Range(next[l]) = {}}
    BY <1>2, <2>1, <2>2, <2>3 DEF LeavesWith
  <2>5. QED
    BY <1>5, <1>17, <2>4 DEF LeavesHaveNone
<1>21. GraphTypes'
  <2>1. Append(arrived, e) \in Seq(Events)
    BY <1>0 DEF GraphTypes
  <2>2. QED
    BY <1>0, <1>5, <1>6, <1>10, <1>11, <1>12, <2>1 DEF GraphTypes
<1>22. ListsNameTheSame'
  BY <1>0, <1>6 DEF GraphSound, ListsNameTheSame
<1>23. LinksDown'
  BY <1>5, <1>15 DEF LinksDown
<1>24. DepthsRise'
  BY <1>16 DEF DepthsRise
<1>25. CallersSound'
  <2>1. CallSound(Idle, nodes', listed')
    BY DEF CallSound, Idle
  <2>2. \A f \in Events : Range(listed'[f]) = Range(listed[f])
    BY <1>6
  <2>3. QED
    BY <1>0, <1>6, <1>17, <2>1, <2>2, CallersGoOn
<1>26. QED
  BY <1>14, <1>18, <1>19, <1>20, <1>21, <1>22, <1>23, <1>24, <1>25 DEF DagInv, GraphSound

LEMMA DagStep ==
  ASSUME DagInv, DagNext
  PROVE  DagInv'
<1>1. PICK c \in Callers : \/ \E e \in Events : AnnounceAdd(c, e) \/ VerifyMergePoint(c, e)
                           \/ EnterParallel(c) \/ VerifyDAGSort(c) \/ Continue(c)
  BY DEF DagNext
<1>2. 1 \in Events
  BY DagAssumption DEF DagAssumption, Events
<1>3. CASE AddEvent(c)
  <2>1. CASE caller[c].event \notin nodes
    BY <1>3, <2>1, AddStep
  <2>2. CASE caller[c].event \in nodes
    <3>1. caller' = [caller EXCEPT ![c] = Idle] /\ UNCHANGED graphVars
      BY <1>3, <2>2 DEF AddEvent, graphVars
    <3>2. CallSound(Idle, nodes, listed)
      BY DEF CallSound, Idle
    <3>3. QED
      BY <3>1, <3>2, CallStep
  <2>3. QED
    BY <2>1, <2>2
<1>4. CASE \E e \in Events : VerifyMergePoint(c, e)
  BY <1>4, MergePointStep
<1>5. CASE \/ \E e \in Events : AnnounceAdd(c, e)
           \/ EnterParallel(c) \/ VerifyDAGSort(c) \/ GetParallelEvents(c)
           \/ VerifyDAGReport(c) \/ VerifyDAGDone(c)
  BY <1>2, <1>5, ReaderSteps
<1>6. QED
  BY <1>1, <1>3, <1>4, <1>5 DEF Continue

LEMMA DagInvHolds == DagSpec => []DagInv
<1>1. DagInv /\ UNCHANGED dagVars => DagInv'
  <2> SUFFICES ASSUME DagInv, UNCHANGED dagVars PROVE DagInv'
    OBVIOUS
  <2>1. GraphSound'
    BY GraphSame DEF DagInv, dagVars, graphVars
  <2>2. CallersSound'
    BY DEF DagInv, CallersSound, dagVars
  <2>3. QED
    BY <2>1, <2>2 DEF DagInv
<1>2. QED
  BY <1>1, DagInitSound, DagStep, PTL DEF DagSpec

----------------------------------------------------------------------------
(* What the graph says.                                                    *)

LEMMA ArrivalIs ==
  ASSUME NEW p, NEW e
  PROVE  ArrivedBefore(p, e) <=> ComesBefore(arrived, p, e)
BY DEF ArrivedBefore, ComesBefore

(* A walk up is a walk down, and depth rises along it.                     *)
LEMMA WalksMeet ==
  ASSUME GraphSound
  PROVE  /\ \A e, f \in Events : f \in GetAncestors(e) <=> e \in GetDescendants(f)
         /\ \A e \in Events : GetAncestors(e) \subseteq Events
         /\ \A e \in Events : \A f \in GetDescendants(e) : f \in Events /\ depth[e] < depth[f]
<1>1. /\ predecessors \in Graph /\ successors \in Graph /\ depth \in [Events -> Nat]
      /\ \A p, e \in Events : e \in Range(successors[p]) <=> p \in Range(predecessors[e])
  BY DEF GraphSound, GraphTypes, LinksDown, Graph
<1>2. \A e, f \in Events : f \in Collect(predecessors, e) => e \in Collect(successors, f)
  BY <1>1, CollectTurns
<1>3. \A e, f \in Events : f \in Collect(successors, e) => e \in Collect(predecessors, f)
  BY <1>1, CollectTurns
<1>4. \A e \in Events : Collect(predecessors, e) \subseteq Events /\ Collect(successors, e) \subseteq Events
  BY DEF Collect
<1>5. \A p \in Events : \A f \in Range(successors[p]) : depth[p] < depth[f]
  <2> SUFFICES ASSUME NEW p \in Events, NEW f \in Range(successors[p]) PROVE depth[p] < depth[f]
    OBVIOUS
  <2>1. f \in Events /\ p \in Range(predecessors[f])
    BY <1>1, NextIsEvents
  <2>2. QED
    BY <2>1 DEF GraphSound, DepthsRise, RisesAt
<1>6. \A e \in Events : \A f \in Collect(successors, e) : depth[e] < depth[f]
  BY <1>1, <1>5, WalkRises
<1>7. QED
  BY <1>2, <1>3, <1>4, <1>6 DEF GetAncestors, GetDescendants

(* Below an event of some depth there is one of each smaller depth.        *)
LEMMA ChainAbove ==
  ASSUME GraphSound, NEW e \in Events, NEW d \in Nat, d < depth[e]
  PROVE  \E p \in GetAncestors(e) : depth[p] = d
<1>1. predecessors \in Graph /\ depth \in [Events -> Nat]
  BY DEF GraphSound, GraphTypes, Graph
<1> DEFINE Has(f, k) == \E p \in Collect(predecessors, f) : depth[p] = k
<1> DEFINE T == {n \in Nat : \A f \in Events : depth[f] = n => \A k \in 0 .. n - 1 : Has(f, k)}
<1>2. 0 \in T
  OBVIOUS
<1>3. ASSUME NEW n \in Nat, n \in T PROVE n + 1 \in T
  <2> SUFFICES ASSUME NEW f \in Events, depth[f] = n + 1, NEW k \in 0 .. n PROVE Has(f, k)
    OBVIOUS
  <2>1. PICK p \in Range(predecessors[f]) : depth[p] = n
    BY DEF GraphSound, DepthsRise, RisesAt
  <2>2. p \in Collect(predecessors, f) /\ Collect(predecessors, p) \subseteq Collect(predecessors, f)
    BY <1>1, CollectReaches
  <2>3. p \in Events
    BY <1>1, NextIsEvents
  <2>4. CASE k = n
    BY <2>1, <2>2, <2>4
  <2>5. CASE k # n
    <3>1. k \in 0 .. n - 1
      BY <2>5
    <3>2. Has(p, k)
      BY <1>3, <2>1, <2>3, <3>1
    <3>3. QED
      BY <2>2, <3>2
  <2>6. QED
    BY <2>4, <2>5
<1>4. Nat \subseteq T
  <2> HIDE DEF T
  <2> QED
    BY <1>2, <1>3, NatAll
<1>5. depth[e] \in T /\ d \in 0 .. depth[e] - 1
  BY <1>1, <1>4
<1>6. QED
  BY <1>5 DEF GetAncestors

LEMMA ArrivalMakesTheGraph ==
  ASSUME GraphSound
  PROVE  GraphFollowsArrival
<1>0. nodes \subseteq Events /\ nodes = Range(arrived) /\ GraphTypes
  BY NodesAreEvents DEF GraphSound, ArrivedOnce
<1>1. \A f \in Events : Range(predecessors[f]) = {p \in Range(listed[f]) : ArrivedBefore(p, f)}
  BY ArrivalIs DEF GraphSound, LinksUp
<1>2. leaves = {e \in nodes : \A f \in nodes : ~(ArrivedBefore(e, f) /\ e \in Range(listed[f]))}
  <2>1. leaves = {e \in nodes : Range(successors[e]) = {}}
    BY DEF GraphSound, LeavesHaveNone
  <2>2. ASSUME NEW e \in nodes
        PROVE  Range(successors[e]) = {} <=> \A f \in nodes : ~(ArrivedBefore(e, f) /\ e \in Range(listed[f]))
    <3>1. Range(successors[e]) \subseteq Events
      BY <1>0, RangeIs DEF GraphTypes
    <3>2. \A f \in Events : f \in Range(successors[e]) <=> e \in Range(predecessors[f])
      BY <1>0 DEF GraphSound, LinksDown
    <3>3. \A f \in Events : e \in Range(predecessors[f]) <=> ArrivedBefore(e, f) /\ e \in Range(listed[f])
      BY <1>1
    <3>4. \A f : ArrivedBefore(e, f) => f \in nodes
      BY <1>0, ArrivalIs, BeforeIsIn
    <3>5. QED
      BY <1>0, <3>1, <3>2, <3>3, <3>4
  <2>3. QED
    BY <2>1, <2>2
<1>3. ASSUME NEW e \in nodes
      PROVE  /\ Range(predecessors[e]) = {p \in Range(listed[e]) : ArrivedBefore(p, e)}
             /\ \A f \in nodes : f \in GetAncestors(e) <=> e \in GetDescendants(f)
             /\ depth[e] = 0 <=> predecessors[e] = << >>
             /\ \A p \in GetAncestors(e) : depth[p] < depth[e]
             /\ \A d \in 0 .. depth[e] - 1 : \E p \in GetAncestors(e) : depth[p] = d
  <2>1. Range(predecessors[e]) = {p \in Range(listed[e]) : ArrivedBefore(p, e)}
    BY <1>0, <1>1
  <2>2. \A f \in nodes : f \in GetAncestors(e) <=> e \in GetDescendants(f)
    BY <1>0, WalksMeet
  <2>3. depth[e] = 0 <=> predecessors[e] = << >>
    <3>1. predecessors[e] \in Seq(Events) /\ depth[e] \in Nat
      BY <1>0 DEF GraphTypes
    <3>2. predecessors[e] = << >> <=> Range(predecessors[e]) = {}
      BY <3>1, RangeIs
    <3>3. RisesAt(Range(predecessors[e]), depth, e)
      BY <1>0 DEF GraphSound, DepthsRise
    <3>4. \A p \in Range(predecessors[e]) : depth[p] \in Nat
      BY <1>0, <3>1, RangeIs DEF GraphTypes
    <3>5. QED
      BY <3>1, <3>2, <3>3, <3>4 DEF RisesAt
  <2>4. \A p \in GetAncestors(e) : depth[p] < depth[e]
    BY <1>0, WalksMeet
  <2>5. \A d \in 0 .. depth[e] - 1 : \E p \in GetAncestors(e) : depth[p] = d
    <3>1. depth[e] \in Nat
      BY <1>0 DEF GraphTypes
    <3>2. \A d \in 0 .. depth[e] - 1 : d \in Nat /\ d < depth[e]
      BY <3>1
    <3>3. QED
      BY <1>0, <3>2, ChainAbove
  <2>6. QED
    BY <2>1, <2>2, <2>3, <2>4, <2>5
<1>4. QED
  BY <1>0, <1>2, <1>3 DEF GraphFollowsArrival

LEMMA ParallelAreApart ==
  ASSUME GraphSound, NEW g \in ParallelGroups, NEW e \in g, NEW f \in g, e # f
  PROVE  ~HasPath(e, f)
<1>1. e \in nodes /\ f \in nodes /\ depth[e] = depth[f]
  BY DEF ParallelGroups, GetEventsByDepth
<1>2. e \in Events /\ depth[e] \in Nat
  BY <1>1, NodesAreEvents DEF GraphSound, GraphTypes
<1>3. f \in GetDescendants(e) => depth[e] < depth[f]
  BY <1>2, WalksMeet
<1>4. QED
  BY <1>1, <1>2, <1>3 DEF HasPath

LEMMA BuiltAsListed ==
  ASSUME GraphSound, \A e \in nodes : \A p \in Range(listed[e]) : time[p] < time[e],
         NEW s \in BuildOrders(nodes)
  PROVE  BuiltLinks(s) = {link \in nodes \X nodes : link[1] \in Range(listed[link[2]])}
<1>0. nodes \subseteq Events /\ time \in [Events -> Int]
  BY NodesAreEvents DEF GraphSound, GraphTypes
<1>1. s \in SetToSeqs(nodes) /\ \A j, k \in DOMAIN s : j < k => time[s[j]] <= time[s[k]]
  BY DEF BuildOrders
<1>2. s \in Seq(Events) /\ Range(s) = nodes
  BY <1>0, <1>1, SeqsOfSet
<1>3. \A k \in DOMAIN s : s[k] \in nodes
  BY <1>2 DEF Range
<1>4. ASSUME NEW link \in BuiltLinks(s)
      PROVE  link \in nodes \X nodes /\ link[1] \in Range(listed[link[2]])
  <2>1. PICK j, k \in DOMAIN s : j < k /\ link = <<s[j], s[k]>> /\ s[j] \in Range(listed[s[k]])
    BY DEF BuiltLinks
  <2>2. QED
    BY <1>3, <2>1
<1>5. ASSUME NEW p \in nodes, NEW e \in nodes, p \in Range(listed[e]) PROVE <<p, e>> \in BuiltLinks(s)
  <2>1. PICK j, k \in DOMAIN s : s[j] = p /\ s[k] = e
    BY <1>2 DEF Range
  <2>2. time[p] < time[e] /\ time[p] \in Int /\ time[e] \in Int
    BY <1>0, <1>5
  <2>3. j \in Int /\ k \in Int
    BY <1>2, <2>1
  <2>4. ~(k < j) /\ j # k
    BY <1>1, <2>1, <2>2
  <2>5. j < k
    BY <2>3, <2>4
  <2>6. QED
    BY <1>0, <1>5, <2>1, <2>5 DEF BuiltLinks
<1>6. \A link \in nodes \X nodes : link = <<link[1], link[2]>> /\ link[1] \in nodes /\ link[2] \in nodes
  OBVIOUS
<1>7. ASSUME NEW link \in nodes \X nodes, link[1] \in Range(listed[link[2]]) PROVE link \in BuiltLinks(s)
  BY <1>5, <1>6, <1>7
<1>8. QED
  BY <1>4, <1>7

LEMMA CleanReportsLast ==
  ASSUME DagInv
  PROVE  CleanReportLasts
<1> SUFFICES ASSUME NEW c \in Callers, caller[c].at = "reported", caller[c].errors = {},
                    NEW e \in caller[c].events
             PROVE  /\ e \notin OrphanNodes
                    /\ e \in InvalidNodes => (Len(hashed[e]) > 1 /\ hashed[e] # Ordered(hashed[e]))
  BY DEF CleanReportLasts
<1>1. e \in nodes /\ Range(listed[e]) \subseteq nodes
  BY DEF DagInv, CallersSound, CallSound
<1>2. e \in Events
  BY <1>1, NodesAreEvents DEF DagInv
<1>3. listed[e] # hashed[e] => listed[e] = Ordered(hashed[e]) /\ Len(hashed[e]) > 1
  BY <1>2 DEF DagInv, GraphSound, ListsNameTheSame
<1>4. QED
  BY <1>1, <1>3 DEF OrphanNodes, InvalidNodes, VerifyEventHash

----------------------------------------------------------------------------
(* The sort.                                                               *)

(* Every event of the list is a node that comes after its predecessors.    *)
CausalAt(r, k) ==
  r[k] \in nodes /\ Range(predecessors[r[k]]) \subseteq {r[j] : j \in 1 .. k - 1}
Causal(r) == \A k \in DOMAIN r : CausalAt(r, k)

LEMMA CausalGrows ==
  ASSUME NEW r \in Seq(Events), Causal(r), NEW e \in Events, e \in nodes, Range(predecessors[e]) \subseteq Range(r)
  PROVE  Causal(Append(r, e))
<1>1. PICK b, n : b = Append(r, e) /\ n = Len(r)
  OBVIOUS
<1>2. n \in Nat /\ DOMAIN r = 1 .. n /\ DOMAIN b = 1 .. n + 1 /\ b[n + 1] = e
  BY <1>1
<1>3. \A k \in 1 .. n : b[k] = r[k]
  BY <1>1, <1>2
<1>4. Range(r) = {r[j] : j \in 1 .. n}
  BY <1>1, RangeIs
<1>5. ASSUME NEW k \in 1 .. n + 1
      PROVE  CausalAt(b, k)
  <2>1. CASE k = n + 1
    <3>1. {b[j] : j \in 1 .. n} = {r[j] : j \in 1 .. n}
      BY <1>3
    <3>2. k - 1 = n
      BY <1>2, <2>1
    <3>3. QED
      BY <1>2, <1>4, <2>1, <3>1, <3>2 DEF CausalAt
  <2>2. CASE k \in 1 .. n
    <3>1. r[k] \in nodes /\ Range(predecessors[r[k]]) \subseteq {r[j] : j \in 1 .. k - 1}
      BY <1>2, <2>2 DEF Causal, CausalAt
    <3>2. \A j \in 1 .. k - 1 : j \in 1 .. n
      BY <1>2, <2>2
    <3>3. {b[j] : j \in 1 .. k - 1} = {r[j] : j \in 1 .. k - 1}
      BY <1>3, <3>2
    <3>4. QED
      BY <1>3, <2>2, <3>1, <3>3 DEF CausalAt
  <2>3. QED
    BY <1>2, <2>1, <2>2
<1>6. QED
  BY <1>1, <1>2, <1>5 DEF Causal

(* What a visit of the nodes that are less than n deep does to a list.     *)
Extends(r, t, S) == Causal(t) /\ Range(r) \cup S \subseteq Range(t)
Visits(visit, n) ==
  \A e \in nodes : depth[e] < n =>
    \A r \in Seq(Events) : Causal(r) => Extends(r, visit[e][r], {e})

LEMMA AllVisited ==
  ASSUME nodes \subseteq Events, NEW visit \in VisitType, NEW n \in Nat, Visits(visit, n),
         NEW r \in Seq(Events), Causal(r),
         NEW l \in Seq(Events), Range(l) \subseteq nodes, \A e \in Range(l) : depth[e] < n
  PROVE  VisitAll(visit, r, l) \in Seq(Events) /\ Extends(r, VisitAll(visit, r, l), Range(l))
<1>1. PICK N \in Nat : N = Len(l)
  OBVIOUS
<1>2. PICK f \in [0 .. N -> Seq(Events)] : VisitsAll(f, visit, r, l, N)
  BY <1>1, VisitAllIs
<1>3. /\ f[0] = r /\ VisitAll(visit, r, l) = f[N]
      /\ \A k \in 1 .. N : f[k] = visit[l[k]][f[k - 1]]
  BY <1>2 DEF VisitsAll
<1>4. Range(l) = {l[k] : k \in 1 .. N}
  BY <1>1, RangeIs
<1> DEFINE Upto(k) == {l[j] : j \in 1 .. k}
<1> DEFINE T == {k \in Nat : k <= N => Extends(r, f[k], Upto(k))}
<1>5. 0 \in T
  <2>1. Upto(0) = {}
    OBVIOUS
  <2> HIDE DEF Upto
  <2>2. Extends(r, f[0], Upto(0))
    BY <1>3, <2>1 DEF Extends
  <2>3. QED
    BY <2>2
<1>6. ASSUME NEW k \in Nat, k \in T PROVE k + 1 \in T
  <2> SUFFICES ASSUME k + 1 <= N PROVE Extends(r, f[k + 1], Upto(k + 1))
    OBVIOUS
  <2>1. k + 1 \in 1 .. N /\ k \in 0 .. N /\ (k + 1) - 1 = k
    OBVIOUS
  <2>2. Upto(k + 1) = Upto(k) \cup {l[k + 1]}
    <3>1. \A j : j \in 1 .. k + 1 <=> j \in 1 .. k \/ j = k + 1
      OBVIOUS
    <3>2. QED
      BY <3>1
  <2> HIDE DEF Upto
  <2>3. PICK t \in Seq(Events) : t = f[k]
    BY <2>1
  <2>4. Extends(r, t, Upto(k))
    BY <1>6, <2>3
  <2>5. l[k + 1] \in Range(l)
    BY <1>4, <2>1
  <2>6. f[k + 1] = visit[l[k + 1]][t]
    BY <1>3, <2>1, <2>3
  <2>7. Causal(t)
    BY <2>4 DEF Extends
  <2>8. l[k + 1] \in nodes /\ depth[l[k + 1]] < n
    BY <2>5
  <2>9. Extends(t, f[k + 1], {l[k + 1]})
    BY <2>6, <2>7, <2>8 DEF Visits
  <2>10. QED
    BY <2>2, <2>4, <2>9 DEF Extends
<1>7. Nat \subseteq T
  <2> HIDE DEF T
  <2> QED
    BY <1>5, <1>6, NatAll
<1>8. N \in 0 .. N
  OBVIOUS
<1>9. Extends(r, f[N], Range(l))
  <2>1. N \in T
    BY <1>7
  <2>2. Range(l) = Upto(N)
    BY <1>4
  <2> HIDE DEF Upto
  <2>3. QED
    BY <2>1, <2>2
<1>10. QED
  BY <1>3, <1>8, <1>9

LEMMA VisitsDeeper ==
  ASSUME GraphSound, NEW visit \in VisitType, NEW n \in Nat, Visits(visit, n)
  PROVE  Visits(Visiting(visit), n + 1)
<1>0. nodes \subseteq Events /\ predecessors \in [Events -> Seq(Events)] /\ depth \in [Events -> Nat]
  BY NodesAreEvents DEF GraphSound, GraphTypes
<1> SUFFICES ASSUME NEW e \in nodes, depth[e] < n + 1, NEW r \in Seq(Events), Causal(r)
             PROVE  Extends(r, Visiting(visit)[e][r], {e})
  BY DEF Visits
<1>1. e \in Events
  BY <1>0
<1>2. Visiting(visit)[e][r] = IF e \in Range(r) THEN r ELSE Append(VisitAll(visit, r, predecessors[e]), e)
  BY <1>1 DEF Visiting
<1>3. CASE e \in Range(r)
  BY <1>2, <1>3 DEF Extends
<1>4. CASE e \notin Range(r)
  <2>1. PICK l \in Seq(Events) : l = predecessors[e]
    BY <1>0, <1>1
  <2>2. Range(l) \subseteq nodes
    BY <1>1, <2>1, BeforeIsIn DEF GraphSound, LinksUp, ArrivedOnce
  <2>3. \A p \in Range(l) : depth[p] < n
    <3> SUFFICES ASSUME NEW p \in Range(l) PROVE depth[p] < n
      OBVIOUS
    <3>1. depth[p] < depth[e]
      BY <1>1, <2>1 DEF GraphSound, DepthsRise, RisesAt
    <3>2. depth[p] \in Nat /\ depth[e] \in Nat
      BY <1>0, <1>1, <2>2
    <3>3. QED
      BY <3>1, <3>2
  <2>4. PICK t \in Seq(Events) : t = VisitAll(visit, r, l) /\ Extends(r, t, Range(l))
    BY <1>0, <2>2, <2>3, AllVisited
  <2>5. Causal(t) /\ Range(r) \subseteq Range(t) /\ Range(predecessors[e]) \subseteq Range(t)
    BY <2>1, <2>4 DEF Extends
  <2>6. Causal(Append(t, e)) /\ Range(Append(t, e)) = Range(t) \cup {e}
    BY <1>1, <2>5, CausalGrows, RangeGrows
  <2>7. Visiting(visit)[e][r] = Append(t, e)
    BY <1>2, <1>4, <2>1, <2>4
  <2>8. QED
    BY <2>5, <2>6, <2>7 DEF Extends
<1>5. QED
  BY <1>3, <1>4

LEMMA SortsAreCausal ==
  ASSUME GraphSound, NEW s \in TopologicalSorts
  PROVE  s \in Seq(Events) /\ Causal(s) /\ nodes \subseteq Range(s)
<1>0. /\ nodes \subseteq Events /\ predecessors \in [Events -> Seq(Events)]
      /\ depth \in [Events -> Nat] /\ arrived \in Seq(Events)
  BY NodesAreEvents DEF GraphSound, GraphTypes
<1>1. /\ Visit[0] = NoVisit
      /\ \A n \in Nat : Visit[n] \in VisitType /\ Visit[n + 1] = Visiting(Visit[n])
  BY <1>0, VisitUnfolds
<1> DEFINE T == {n \in Nat : Visits(Visit[n], n)}
<1>2. 0 \in T
  <2>1. \A e \in nodes : ~(depth[e] < 0)
    BY <1>0
  <2>2. Visits(Visit[0], 0)
    BY <2>1 DEF Visits
  <2>3. QED
    BY <2>2
<1>3. ASSUME NEW n \in Nat, n \in T PROVE n + 1 \in T
  <2>1. Visits(Visiting(Visit[n]), n + 1)
    BY <1>1, <1>3, VisitsDeeper
  <2>2. QED
    BY <1>1, <2>1
<1>4. Nat \subseteq T
  <2> HIDE DEF T
  <2> QED
    BY <1>2, <1>3, NatAll
<1>5. NumEvents \in Nat /\ Visits(Visit[NumEvents], NumEvents) /\ Visit[NumEvents] \in VisitType
  BY <1>1, <1>4, DagAssumption DEF DagAssumption
<1>6. PICK m \in Nat : m = Len(arrived) /\ DOMAIN arrived = 1 .. m
  BY <1>0
<1>7. m <= NumEvents
  <2>1. arrived \in [1 .. m -> Events] /\ \A j, k \in 1 .. m : arrived[j] = arrived[k] => j = k
    <3>1. arrived \in [1 .. m -> Events]
      BY <1>0, <1>6
    <3>2. QED
      BY <1>6, <3>1 DEF GraphSound, ArrivedOnce
  <2>2. arrived \in Injection(1 .. m, Events)
    BY <2>1 DEF Injection, IsInjective
  <2>3. Cardinality(1 .. m) <= Cardinality(Events)
    BY <2>2, EventsFinite, FS_Injection
  <2>4. Cardinality(1 .. m) = m
    BY FS_Interval
  <2>5. QED
    BY <2>3, <2>4, EventsFinite
<1>8. \A e \in nodes : depth[e] < NumEvents
  <2> SUFFICES ASSUME NEW e \in nodes PROVE depth[e] < NumEvents
    OBVIOUS
  <2>1. PICK k \in 1 .. m : arrived[k] = e
    BY <1>6 DEF GraphSound, ArrivedOnce, Range
  <2>2. depth[e] < k /\ depth[e] \in Nat
    BY <1>0, <1>6, <2>1 DEF GraphSound, DepthsBounded
  <2>3. QED
    BY <1>5, <1>7, <2>2
<1>9. PICK order \in SetToSeqs(nodes) : s = VisitAll(Visit[NumEvents], << >>, order)
  BY DEF TopologicalSorts
<1>10. order \in Seq(Events) /\ Range(order) = nodes
  BY <1>0, SeqsOfSet
<1>11. PICK none : none = << >>
  OBVIOUS
<1>12. none \in Seq(Events) /\ Causal(none)
  BY <1>11 DEF Causal
<1>13. s \in Seq(Events) /\ Extends(none, s, Range(order))
  BY <1>0, <1>5, <1>8, <1>9, <1>10, <1>11, <1>12, AllVisited
<1>14. QED
  BY <1>10, <1>13 DEF Extends

LEMMA FirstOf ==
  ASSUME NEW s \in Seq(Events), NEW k \in 1 .. Len(s)
  PROVE  {s[j] : j \in 1 .. k - 1} \subseteq Range(SubSeq(s, 1, k - 1))
<1>1. PICK t : t = SubSeq(s, 1, k - 1)
  OBVIOUS
<1>2. DOMAIN t = 1 .. k - 1 /\ \A j \in 1 .. k - 1 : t[j] = s[j]
  BY <1>1
<1>3. QED
  BY <1>1, <1>2 DEF Range

LEMMA InOrderStaysCausal ==
  ASSUME GraphSound, InOrder, NEW s \in TopologicalSorts
  PROVE  ValidateCausalOrder(s)
<1>1. s \in Seq(Events) /\ Causal(s)
  BY SortsAreCausal
<1> SUFFICES ASSUME NEW k \in 1 .. Len(s)
             PROVE  Range(listed[s[k]]) \subseteq Range(SubSeq(s, 1, k - 1))
  BY DEF ValidateCausalOrder
<1>2. s[k] \in nodes /\ Range(predecessors[s[k]]) \subseteq {s[j] : j \in 1 .. k - 1}
  <2>1. CausalAt(s, k)
    BY <1>1 DEF Causal
  <2>2. QED
    BY <2>1 DEF CausalAt
<1>3. s[k] \in Events
  BY <1>2, NodesAreEvents
<1>4. Range(predecessors[s[k]]) = {p \in Range(listed[s[k]]) : ComesBefore(arrived, p, s[k])}
  BY <1>3 DEF GraphSound, LinksUp
<1>5. \A p \in Range(listed[s[k]]) : ComesBefore(arrived, p, s[k])
  BY <1>2, ArrivalIs DEF InOrder
<1>6. Range(listed[s[k]]) \subseteq Range(predecessors[s[k]])
  BY <1>4, <1>5
<1>7. QED
  BY <1>1, <1>2, <1>6, FirstOf

(* The graph is what the order of arrival makes of it, and what arrived in *)
(* order is sorted, grouped and rebuilt in causal order (dag.go:55, 80,    *)
(* 203, 247; validator.go:241), for any number of events and goroutines.   *)
THEOREM ArrivalIsAlwaysKept == DagSpec => []ArrivalIsKept
<1>1. ASSUME DagInv PROVE ArrivalIsKept
  <2>0. GraphSound
    BY <1>1 DEF DagInv
  <2>1. GraphFollowsArrival
    BY <2>0, ArrivalMakesTheGraph
  <2>2. InOrder => \A s \in TopologicalSorts : ValidateCausalOrder(s)
    BY <2>0, InOrderStaysCausal
  <2>3. \A g \in ParallelGroups : \A e, f \in g : ~(e # f /\ HasPath(e, f))
    BY <2>0, ParallelAreApart
  <2>4. (\A e \in nodes : \A p \in Range(listed[e]) : time[p] < time[e]) =>
          \A s \in BuildOrders(nodes) :
            BuiltLinks(s) = {link \in nodes \X nodes : link[1] \in Range(listed[link[2]])}
    BY <2>0, BuiltAsListed
  <2>5. QED
    BY <2>1, <2>2, <2>3, <2>4 DEF ArrivalIsKept, InOrderIsCausal
<1>2. QED
  BY <1>1, DagInvHolds, PTL

(* A clean report of VerifyDAG stays true of its events while others add   *)
(* events and call VerifyMergePoint, which alone makes an event invalid    *)
(* (validator.go:151).                                                     *)
THEOREM CleanReportsAlwaysLast == DagSpec => []CleanReportLasts
BY DagInvHolds, CleanReportsLast, PTL

----------------------------------------------------------------------------
(***************************************************************************)
(* RateLimiter, for any clients, burst, rate and cost, as long as a bucket *)
(* is full again within a cleanup interval.                                *)
(*                                                                         *)
(* The equality of the lazy tokens and the bucket is inductive with the    *)
(* types: a tick adds to both (RefillAfterTick), and a client is forgotten *)
(* only after enough ticks to fill it (ExpiredIsFull).                     *)
(***************************************************************************)

USE LimiterAssumption DEF LimiterAssumption, NoClient

LimiterTypes ==
  /\ tokens \in [Keys -> {NoClient} \cup 0 .. Full]
  /\ idle \in [Keys -> 0 .. CleanupInterval + 1]
  /\ bucket \in [Keys -> Int]

LimiterInv == LimiterTypes /\ LimiterIsBucket

LEMMA FullType == Full \in Nat /\ Cost <= Full
<1>1. \A b \in Nat \ {0}, c \in Nat \ {0} : b * c \in Nat /\ c <= b * c
  <2> SUFFICES ASSUME NEW b \in Nat \ {0}, NEW c \in Nat \ {0}
               PROVE  b * c \in Nat /\ c <= b * c
    OBVIOUS
  <2>1. b * c = (b - 1) * c + c /\ (b - 1) * c \in Nat
    OBVIOUS
  <2>2. QED
    BY <2>1
<1>2. QED
  BY <1>1 DEF Full

(* Refills are additive, up to the size of the bucket.                     *)
LEMMA RefillAfterTick ==
  ASSUME NEW t \in Nat, NEW n \in Nat
  PROVE  Capped(t + (n + 1) * Rate) = Capped(Capped(t + n * Rate) + Rate)
<1>1. (n + 1) * Rate = n * Rate + Rate /\ n * Rate \in Nat
  OBVIOUS
<1>2. \A m \in Nat : Capped(t + (m + Rate)) = Capped(Capped(t + m) + Rate)
  BY FullType DEF Capped
<1>3. QED
  BY <1>1, <1>2

LEMMA ExpiredIsFull ==
  ASSUME LimiterTypes, NEW k \in Keys, Expired(k), tokens[k] # NoClient
  PROVE  Refilled(k) = Full
<1>1. idle[k] = CleanupInterval + 1 /\ tokens[k] \in Nat
  BY FullType DEF LimiterTypes, Expired
<1>2. (CleanupInterval + 1) * Rate = CleanupInterval * Rate + Rate /\ CleanupInterval * Rate \in Nat
  OBVIOUS
<1>3. idle[k] * Rate >= Full
  BY <1>1, <1>2, FullType DEF Full
<1>4. idle[k] * Rate \in Nat
  BY <1>1, <1>2
<1>5. QED
  BY <1>1, <1>3, <1>4, FullType DEF Refilled, Capped

LEMMA AllowKeeps ==
  ASSUME LimiterInv, NEW k \in Keys, Allow(k)
  PROVE  LimiterInv'
<1> DEFINE held == IF tokens[k] = NoClient THEN Full ELSE Refilled(k)
<1>1. held \in 0 .. Full /\ bucket[k] = held
  <2>1. bucket[k] = held
    BY DEF LimiterInv, LimiterIsBucket
  <2>2. tokens[k] # NoClient => Refilled(k) \in 0 .. Full
    <3>1. tokens[k] # NoClient => tokens[k] \in Nat /\ idle[k] * Rate \in Nat
      BY FullType DEF LimiterInv, LimiterTypes
    <3>2. QED
      BY <3>1, FullType DEF Refilled, Capped
  <2>3. QED
    BY <2>1, <2>2, FullType
<1>2. Allows(k) => held >= Cost
  BY FullType DEF Allows
<1>3. PICK n \in 0 .. Full :
        /\ tokens' = [tokens EXCEPT ![k] = n]
        /\ idle' = [idle EXCEPT ![k] = 0]
        /\ n = IF Allows(k) THEN held - Cost ELSE held
        /\ bucket' = IF Allows(k) THEN [bucket EXCEPT ![k] = @ - Cost] ELSE bucket
  <2>1. (IF Allows(k) THEN held - Cost ELSE held) \in 0 .. Full
    BY <1>1, <1>2, FullType
  <2>2. QED
    BY <2>1 DEF Allow
<1>4. LimiterTypes'
  BY <1>3, FullType DEF LimiterInv, LimiterTypes
<1>5. ASSUME NEW j \in Keys
      PROVE  bucket'[j] = IF tokens'[j] = NoClient THEN Full ELSE Refilled(j)'
  <2>1. CASE j = k
    <3>1. tokens'[j] = n /\ idle'[j] = 0 /\ n # NoClient
      BY <1>3, <2>1, FullType DEF LimiterInv, LimiterTypes
    <3>2. Refilled(j)' = n
      BY <3>1, FullType DEF Refilled, Capped
    <3>3. bucket'[j] = n
      BY <1>1, <1>3, <2>1, FullType DEF LimiterInv, LimiterTypes
    <3>4. QED
      BY <3>1, <3>2, <3>3
  <2>2. CASE j # k
    BY <1>3, <2>2 DEF LimiterInv, LimiterTypes, LimiterIsBucket, Refilled
  <2>3. QED
    BY <2>1, <2>2
<1>6. QED
  BY <1>4, <1>5 DEF LimiterInv, LimiterIsBucket

LEMMA CleanupKeeps ==
  ASSUME LimiterInv, cleanup
  PROVE  LimiterInv'
<1>1. LimiterTypes'
  BY FullType DEF cleanup, LimiterInv, LimiterTypes
<1>2. ASSUME NEW k \in Keys
      PROVE  bucket'[k] = IF tokens'[k] = NoClient THEN Full ELSE Refilled(k)'
  <2>1. CASE Expired(k)
    BY <2>1, ExpiredIsFull DEF cleanup, LimiterInv, LimiterIsBucket
  <2>2. CASE ~Expired(k)
    BY <2>2 DEF cleanup, LimiterInv, LimiterIsBucket, Refilled
  <2>3. QED
    BY <2>1, <2>2
<1>3. QED
  BY <1>1, <1>2 DEF LimiterInv, LimiterIsBucket

LEMMA TickKeeps ==
  ASSUME LimiterInv, Tick
  PROVE  LimiterInv'
<1>1. LimiterTypes'
  BY FullType DEF Tick, LimiterInv, LimiterTypes, Expired, Capped
<1>2. ASSUME NEW k \in Keys
      PROVE  bucket'[k] = IF tokens'[k] = NoClient THEN Full ELSE Refilled(k)'
  <2>1. bucket'[k] = Capped(bucket[k] + Rate) /\ tokens'[k] = tokens[k]
    BY DEF Tick
  <2>2. Capped(Full + Rate) = Full
    BY FullType DEF Capped
  <2>3. CASE tokens[k] = NoClient
    BY <2>1, <2>2, <2>3 DEF LimiterInv, LimiterIsBucket
  <2>4. CASE tokens[k] # NoClient /\ Expired(k)
    <3>1. idle'[k] = idle[k]
      BY <2>4 DEF Tick
    <3>2. Refilled(k)' = Refilled(k)
      BY <2>1, <3>1 DEF Refilled
    <3>3. QED
      BY <2>1, <2>2, <2>4, <3>2, ExpiredIsFull DEF LimiterInv, LimiterIsBucket
  <2>5. CASE tokens[k] # NoClient /\ ~Expired(k)
    <3>1. tokens[k] \in Nat /\ idle[k] \in Nat /\ idle'[k] = idle[k] + 1
      BY <2>5, FullType DEF Tick, LimiterInv, LimiterTypes
    <3>2. Refilled(k)' = Capped(Refilled(k) + Rate)
      <4>1. Capped(tokens[k] + (idle[k] + 1) * Rate) = Capped(Capped(tokens[k] + idle[k] * Rate) + Rate)
        BY <3>1, RefillAfterTick
      <4>2. Refilled(k)' = Capped(tokens[k] + (idle[k] + 1) * Rate)
        BY <2>1, <3>1 DEF Refilled
      <4>3. QED
        BY <4>1, <4>2 DEF Refilled
    <3>3. QED
      BY <2>1, <2>5, <3>2 DEF LimiterInv, LimiterIsBucket
  <2>6. QED
    BY <2>3, <2>4, <2>5
<1>3. QED
  BY <1>1, <1>2 DEF LimiterInv, LimiterIsBucket

(* For any clients, burst, rate and cost: forgetting a client and          *)
(* refilling it lazily are invisible (middleware.go:139, 148, 176).        *)
THEOREM LazyRefillIsBucket == LimiterSpec => []LimiterIsBucket
<1>1. LimiterInit => LimiterInv
  BY FullType DEF LimiterInit, LimiterInv, LimiterTypes, LimiterIsBucket
<1>2. LimiterInv /\ [LimiterNext]_limiterVars => LimiterInv'
  <2> SUFFICES ASSUME LimiterInv, [LimiterNext]_limiterVars
               PROVE  LimiterInv'
    OBVIOUS
  <2>1. CASE UNCHANGED limiterVars
    BY <2>1 DEF limiterVars, LimiterInv, LimiterTypes, LimiterIsBucket, Refilled
  <2>2. QED
    BY <2>1, AllowKeeps, CleanupKeeps, TickKeeps DEF LimiterNext
<1>3. LimiterInv => LimiterIsBucket
  BY DEF LimiterInv
<1>4. QED
  BY <1>1, <1>2, <1>3, PTL DEF LimiterSpec

HIDE LimiterAssumption DEF LimiterAssumption, NoClient

----------------------------------------------------------------------------
(***************************************************************************)
(* BatchProcessor, for any finite sets of messages and workers, and any    *)
(* batch size.                                                             *)
(*                                                                         *)
(* A message is in one place at most: delayed, ready, in the channel, in   *)
(* the buffer, in the hands of a goroutine, or in a batch that was         *)
(* processed (Apart). Each operation takes messages from one place to      *)
(* another (Moved, Unmoved). The buffer is longer than flush allows only   *)
(* by the workers that are about to flush it (BufferIsBounded).            *)
(***************************************************************************)

Once(s) == \A i, j \in DOMAIN s : s[i] = s[j] => i = j

(* A batch that flush may have taken out of the buffer.                    *)
Fit == {b \in Seq(Messages) : b # << >> /\ Len(b) <= BatchSize - 1 + Cardinality(Workers) /\ Once(b)}

Flushing == {w \in Workers : worker[w].at = "flush"}

HeldBy(step) == IF step.at = "handling" THEN {step.message} ELSE BatchOf(step)

(* Where a message can be, apart from those that are lost.                 *)
Places ==
  {<<"delayed", 0>>, <<"ready", 0>>, <<"channel", 0>>, <<"buffer", 0>>, <<"loop", 0>>, <<"stopper", 0>>}
  \cup {<<"worker", w>> : w \in Workers} \cup {<<"processed", b>> : b \in Fit}

Where(p) ==
  CASE p[1] = "delayed" -> delayed
    [] p[1] = "ready" -> Range(ready)
    [] p[1] = "channel" -> Range(channel)
    [] p[1] = "buffer" -> Range(buffer)
    [] p[1] = "loop" -> BatchOf(loop)
    [] p[1] = "stopper" -> BatchOf(stopper)
    [] p[1] = "worker" -> HeldBy(worker[p[2]])
    [] p[1] = "processed" -> IF p[2] \in processed THEN Range(p[2]) ELSE {}

Apart == \A p, q \in Places : p # q => Where(p) \cap Where(q) = {}

ProcessorTypes ==
  /\ delayed \subseteq Messages
  /\ ready \in Seq(Messages) /\ channel \in Seq(Messages) /\ buffer \in Seq(Messages)
  /\ worker \in [Workers -> {Waiting, At("flush")} \cup [at : {"handling"}, message : Messages]
                              \cup {InFlight(b) : b \in Fit}]
  /\ loop \in {Waiting, At("ended")} \cup {InFlight(b) : b \in Fit}
  /\ stopper \in {At("idle"), At("cancelled"), At("done")} \cup {InFlight(b) : b \in Fit}
  /\ processed \subseteq Fit

(* A full buffer is as much longer as there are workers on their way to    *)
(* flush it.                                                               *)
SequencesAreSets == Once(ready) /\ Once(channel) /\ Once(buffer)
BufferIsBounded == Len(buffer) <= BatchSize - 1 + Cardinality(Flushing)

ProcessorInv == ProcessorTypes /\ SequencesAreSets /\ BufferIsBounded /\ Apart

----------------------------------------------------------------------------
(* Sequences in which nothing occurs twice.                                *)

LEMMA AppendOnce ==
  ASSUME NEW s \in Seq(Messages), Once(s), NEW m \in Messages, m \notin Range(s)
  PROVE  /\ Append(s, m) \in Seq(Messages) /\ Once(Append(s, m))
         /\ Range(Append(s, m)) = Range(s) \cup {m}
         /\ Len(Append(s, m)) = Len(s) + 1
<1>1. /\ Append(s, m) \in Seq(Messages) /\ Len(Append(s, m)) = Len(s) + 1
      /\ DOMAIN s = 1 .. Len(s) /\ DOMAIN Append(s, m) = 1 .. Len(s) + 1 /\ Len(s) \in Nat
      /\ \A i \in 1 .. Len(s) : Append(s, m)[i] = s[i]
      /\ Append(s, m)[Len(s) + 1] = m
  OBVIOUS
<1>2. \A i \in 1 .. Len(s) : s[i] # m
  BY <1>1 DEF Range
<1>3. Once(Append(s, m))
  BY <1>1, <1>2 DEF Once
<1>4. Range(Append(s, m)) = Range(s) \cup {m}
  BY <1>1 DEF Range
<1>5. QED
  BY <1>1, <1>3, <1>4

LEMMA TailOnce ==
  ASSUME NEW s \in Seq(Messages), s # << >>, Once(s)
  PROVE  /\ Head(s) \in Messages /\ Head(s) \in Range(s)
         /\ Tail(s) \in Seq(Messages) /\ Once(Tail(s))
         /\ Range(Tail(s)) = Range(s) \ {Head(s)}
<1>1. /\ Len(s) \in Nat \ {0} /\ DOMAIN s = 1 .. Len(s)
      /\ Head(s) = s[1] /\ Head(s) \in Messages
      /\ Tail(s) \in Seq(Messages) /\ DOMAIN Tail(s) = 1 .. Len(s) - 1
      /\ \A i \in 1 .. Len(s) - 1 : Tail(s)[i] = s[i + 1]
  OBVIOUS
<1>2. Once(Tail(s))
  BY <1>1 DEF Once
<1>3. Range(Tail(s)) = Range(s) \ {Head(s)}
  <2>1. ASSUME NEW x \in Range(s), x # Head(s) PROVE x \in Range(Tail(s))
    <3>1. PICK i \in 1 .. Len(s) : x = s[i]
      BY <1>1 DEF Range
    <3>2. i - 1 \in 1 .. Len(s) - 1 /\ Tail(s)[i - 1] = x
      BY <1>1, <2>1, <3>1
    <3>3. QED
      BY <1>1, <3>2 DEF Range
  <2>2. ASSUME NEW x \in Range(Tail(s)) PROVE x \in Range(s) /\ x # Head(s)
    <3>1. PICK i \in 1 .. Len(s) - 1 : x = s[i + 1]
      BY <1>1 DEF Range
    <3>2. i + 1 \in DOMAIN s /\ i + 1 # 1 /\ 1 \in DOMAIN s
      BY <1>1
    <3>3. QED
      BY <1>1, <3>1, <3>2 DEF Range, Once
  <2>3. QED
    BY <2>1, <2>2
<1>4. QED
  BY <1>1, <1>2, <1>3 DEF Range

LEMMA OnceCounts ==
  ASSUME NEW s \in Seq(Messages), Once(s)
  PROVE  Cardinality(Range(s)) = Len(s)
<1>1. Len(s) \in Nat /\ DOMAIN s = 1 .. Len(s)
  OBVIOUS
<1>2. IsFiniteSet(1 .. Len(s)) /\ Cardinality(1 .. Len(s)) = Len(s)
  BY <1>1, FS_Interval
<1>3. s \in Bijection(1 .. Len(s), Range(s))
  BY <1>1 DEF Bijection, Injection, Surjection, IsInjective, Range, Once
<1>4. QED
  BY <1>2, <1>3, FS_Bijection DEF ExistsBijection

----------------------------------------------------------------------------
(* Messages that move from one place to another stay apart.                *)

LEMMA Moved ==
  ASSUME Apart, NEW from \in Places, NEW to \in Places, NEW G, G \subseteq Where(from),
         Where(to)' \subseteq Where(to) \cup G,
         from # to => Where(from)' \subseteq Where(from) \ G,
         \A p \in Places \ {from, to} : Where(p)' \subseteq Where(p)
  PROVE  Apart'
<1> SUFFICES ASSUME NEW p \in Places, NEW q \in Places, p # q, NEW x, x \in Where(p)', x \in Where(q)'
             PROVE  FALSE
  BY DEF Apart
<1>1. \A r \in Places : x \in Where(r)' => x \in Where(r) \/ (r = to /\ x \in G)
  OBVIOUS
<1>2. \A r \in Places : x \in Where(r)' /\ x \in G => r \in {from, to}
  BY DEF Apart
<1>3. CASE x \in G
  BY <1>2, <1>3 DEF Apart
<1>4. CASE x \notin G
  BY <1>1, <1>4 DEF Apart
<1>5. QED
  BY <1>3, <1>4

LEMMA Unmoved ==
  ASSUME Apart, \A p \in Places : Where(p)' \subseteq Where(p)
  PROVE  Apart'
BY DEF Apart

LEMMA PlaceOf ==
  /\ Where(<<"delayed", 0>>) = delayed /\ Where(<<"ready", 0>>) = Range(ready)
  /\ Where(<<"channel", 0>>) = Range(channel) /\ Where(<<"buffer", 0>>) = Range(buffer)
  /\ Where(<<"loop", 0>>) = BatchOf(loop) /\ Where(<<"stopper", 0>>) = BatchOf(stopper)
  /\ \A w \in Workers : Where(<<"worker", w>>) = HeldBy(worker[w])
  /\ \A b \in Fit : Where(<<"processed", b>>) = IF b \in processed THEN Range(b) ELSE {}
BY DEF Where

(* What a step leaves alone stays where it is.                             *)
LEMMA PlacesUnchanged ==
  /\ delayed' = delayed => Where(<<"delayed", 0>>)' = Where(<<"delayed", 0>>)
  /\ ready' = ready => Where(<<"ready", 0>>)' = Where(<<"ready", 0>>)
  /\ channel' = channel => Where(<<"channel", 0>>)' = Where(<<"channel", 0>>)
  /\ buffer' = buffer => Where(<<"buffer", 0>>)' = Where(<<"buffer", 0>>)
  /\ loop' = loop => Where(<<"loop", 0>>)' = Where(<<"loop", 0>>)
  /\ stopper' = stopper => Where(<<"stopper", 0>>)' = Where(<<"stopper", 0>>)
  /\ \A w \in Workers : worker'[w] = worker[w] => Where(<<"worker", w>>)' = Where(<<"worker", w>>)
  /\ \A b \in Fit : (b \in processed' <=> b \in processed) => Where(<<"processed", b>>)' = Where(<<"processed", b>>)
<1>1. BatchOf(loop)' = BatchOf(loop') /\ BatchOf(stopper)' = BatchOf(stopper')
  BY DEF BatchOf
<1>2. \A w \in Workers : worker'[w] = worker[w] => HeldBy(worker[w])' = HeldBy(worker[w])
  BY DEF HeldBy, BatchOf
<1>3. QED
  BY <1>1, <1>2, PlaceOf DEF Where, BatchOf

LEMMA FlushingCounts ==
  /\ IsFiniteSet(Flushing) /\ Cardinality(Flushing) \in Nat
  /\ Cardinality(Flushing) <= Cardinality(Workers)
  /\ Cardinality(Workers) \in Nat
<1>1. Flushing \in SUBSET Workers /\ IsFiniteSet(Workers)
  BY BatchProcessorAssumption DEF Flushing, BatchProcessorAssumption
<1>2. QED
  BY <1>1, FS_Subset, FS_CardinalityType

LEMMA StepsHold ==
  /\ HeldBy(Waiting) = {} /\ BatchOf(Waiting) = {}
  /\ \A s : HeldBy(At(s)) = IF s \in {"handling", "processing"} THEN HeldBy(At(s)) ELSE {}
  /\ \A s : s # "processing" => BatchOf(At(s)) = {}
  /\ \A b : BatchOf(InFlight(b)) = Range(b) /\ HeldBy(InFlight(b)) = Range(b)
  /\ \A m : HeldBy([at |-> "handling", message |-> m]) = {m}
BY DEF HeldBy, BatchOf, Waiting, At, InFlight

LEMMA PlaceNames ==
  /\ {<<"delayed", 0>>, <<"ready", 0>>, <<"channel", 0>>, <<"buffer", 0>>, <<"loop", 0>>, <<"stopper", 0>>} \subseteq Places
  /\ \A w \in Workers : <<"worker", w>> \in Places
  /\ \A b \in Fit : <<"processed", b>> \in Places
  /\ \A p \in Places :
       \/ p \in {<<"delayed", 0>>, <<"ready", 0>>, <<"channel", 0>>, <<"buffer", 0>>, <<"loop", 0>>, <<"stopper", 0>>}
       \/ \E w \in Workers : p = <<"worker", w>>
       \/ \E b \in Fit : p = <<"processed", b>>
BY DEF Places

(* The places other than those a step names, when it leaves the rest alone.*)
LEMMA OthersUnchanged ==
  ASSUME NEW S \in SUBSET Places,
         <<"delayed", 0>> \in S \/ delayed' = delayed, <<"ready", 0>> \in S \/ ready' = ready,
         <<"channel", 0>> \in S \/ channel' = channel, <<"buffer", 0>> \in S \/ buffer' = buffer,
         <<"loop", 0>> \in S \/ loop' = loop, <<"stopper", 0>> \in S \/ stopper' = stopper,
         \A w \in Workers : <<"worker", w>> \in S \/ worker'[w] = worker[w],
         \A b \in Fit : <<"processed", b>> \in S \/ (b \in processed' <=> b \in processed)
  PROVE  \A p \in Places \ S : Where(p)' \subseteq Where(p)
<1> SUFFICES ASSUME NEW p \in Places \ S PROVE Where(p)' \subseteq Where(p)
  OBVIOUS
<1>1. CASE p \in {<<"delayed", 0>>, <<"ready", 0>>, <<"channel", 0>>, <<"buffer", 0>>, <<"loop", 0>>, <<"stopper", 0>>}
  BY <1>1, PlacesUnchanged
<1>2. CASE \E w \in Workers : p = <<"worker", w>>
  BY <1>2, PlacesUnchanged
<1>3. CASE \E b \in Fit : p = <<"processed", b>>
  BY <1>3, PlacesUnchanged
<1>4. QED
  BY <1>1, <1>2, <1>3, PlaceNames

----------------------------------------------------------------------------
(* What is in a place has been given to PublishDelayed.                    *)
LEMMA PlacesAreGiven == \A q \in Places : Where(q) \subseteq Given
<1> DEFINE U == UNION {BatchOf(worker[w]) : w \in Workers}
<1> DEFINE H == {worker[w].message : w \in {v \in Workers : worker[v].at = "handling"}}
<1> DEFINE P == UNION {Range(b) : b \in processed}
<1>1. Given = delayed \cup Range(ready) \cup Range(channel) \cup Range(buffer)
              \cup U \cup BatchOf(loop) \cup BatchOf(stopper) \cup H \cup P \cup DOMAIN lost
  BY DEF Given
<1>2. \A w \in Workers : HeldBy(worker[w]) \subseteq U \cup H
  <2> SUFFICES ASSUME NEW w \in Workers, NEW x, x \in HeldBy(worker[w]) PROVE x \in U \cup H
    OBVIOUS
  <2>1. CASE worker[w].at = "handling"
    BY <2>1 DEF HeldBy
  <2>2. CASE worker[w].at # "handling"
    BY <2>2 DEF HeldBy
  <2>3. QED
    BY <2>1, <2>2
<1>3. \A b \in processed : Range(b) \subseteq P
  OBVIOUS
<1> HIDE DEF U, H, P
<1>4. ASSUME NEW q \in Places PROVE Where(q) \subseteq Given
  <2>1. CASE q \in {<<"delayed", 0>>, <<"ready", 0>>, <<"channel", 0>>, <<"buffer", 0>>, <<"loop", 0>>, <<"stopper", 0>>}
    BY <1>1, <2>1, PlaceOf
  <2>2. CASE \E w \in Workers : q = <<"worker", w>>
    BY <1>1, <1>2, <2>2, PlaceOf
  <2>3. CASE \E b \in Fit : q = <<"processed", b>>
    BY <1>1, <1>3, <2>3, PlaceOf
  <2>4. QED
    BY <2>1, <2>2, <2>3, PlaceNames
<1>5. QED
  BY <1>4

LEMMA PublishDelayedKeeps ==
  ASSUME ProcessorInv, NEW m \in Messages, PublishDelayed(m)
  PROVE  ProcessorInv'
<1> DEFINE p == <<"delayed", 0>>
<1>1. /\ delayed' = delayed \cup {m} /\ m \notin Given
      /\ UNCHANGED <<ready, channel, worker, loop, stopper, buffer, processed>>
  BY DEF PublishDelayed
<1>2. \A q \in Places : m \notin Where(q)
  BY <1>1, PlacesAreGiven
<1>3. /\ Where(p)' = Where(p) \cup {m} /\ p \in Places
      /\ \A q \in Places \ {p} : Where(q)' \subseteq Where(q)
  BY <1>1, PlaceOf, PlaceNames, OthersUnchanged DEF Where
<1>4. Apart'
  BY <1>2, <1>3 DEF ProcessorInv, Apart
<1>5. QED
  BY <1>1, <1>4 DEF ProcessorInv, ProcessorTypes, SequencesAreSets, BufferIsBounded, Flushing

LEMMA ProcessDelayedKeeps ==
  ASSUME ProcessorInv, processDelayed
  PROVE  ProcessorInv'
<1> DEFINE from == <<"delayed", 0>>
<1> DEFINE to == <<"ready", 0>>
<1>1. PICK due \in (SUBSET delayed) \ {{}} : delayed' = delayed \ due /\ \E s \in SetToSeqs(due) : ready' = s
  BY DEF processDelayed
<1>2. UNCHANGED <<channel, worker, loop, stopper, buffer, processed>> /\ ready = << >>
  BY DEF processDelayed
<1>3. due \subseteq Messages /\ IsFiniteSet(due) /\ Cardinality(due) \in Nat
  BY <1>1, FS_Subset, FS_CardinalityType, BatchProcessorAssumption
     DEF ProcessorInv, ProcessorTypes, BatchProcessorAssumption
<1>4. ready' \in [1 .. Cardinality(due) -> due] /\ Once(ready')
  BY <1>1 DEF SetToSeqs, Once
<1>5. ready' \in Seq(Messages) /\ Range(ready') \subseteq due
  BY <1>3, <1>4 DEF Range
<1>6. from \in Places /\ to \in Places /\ from # to
  BY PlaceNames
<1>7. /\ due \subseteq Where(from)
      /\ Where(to)' \subseteq Where(to) \cup due
      /\ Where(from)' \subseteq Where(from) \ due
  BY <1>1, <1>5, PlaceOf DEF Where
<1>8. \A p \in Places \ {from, to} : Where(p)' \subseteq Where(p)
  BY <1>2, <1>6, OthersUnchanged
<1>9. Apart'
  BY <1>6, <1>7, <1>8, Moved DEF ProcessorInv
<1>10. QED
  BY <1>1, <1>2, <1>4, <1>5, <1>9
     DEF ProcessorInv, ProcessorTypes, SequencesAreSets, BufferIsBounded, Flushing

LEMMA PublishReadyKeeps ==
  ASSUME ProcessorInv, PublishReady
  PROVE  ProcessorInv'
<1> DEFINE from == <<"ready", 0>>
<1> DEFINE to == <<"channel", 0>>
<1> DEFINE m == Head(ready)
<1>1. /\ ready # << >> /\ ready' = Tail(ready)
      /\ UNCHANGED <<delayed, worker, loop, stopper, buffer, processed>>
      /\ channel' = Append(channel, m) \/ channel' = channel
  BY DEF PublishReady
<1>2. /\ m \in Messages /\ m \in Range(ready)
      /\ ready' \in Seq(Messages) /\ Once(ready') /\ Range(ready') = Range(ready) \ {m}
  BY <1>1, TailOnce DEF ProcessorInv, ProcessorTypes, SequencesAreSets
<1>3. from \in Places /\ to \in Places /\ from # to
  BY PlaceNames
<1>4. m \notin Range(channel)
  BY <1>2, <1>3, PlaceOf DEF ProcessorInv, Apart
<1>5. /\ channel' \in Seq(Messages) /\ Once(channel')
      /\ Range(channel') \subseteq Range(channel) \cup {m}
  <2>0. channel \in Seq(Messages) /\ Once(channel)
    BY DEF ProcessorInv, ProcessorTypes, SequencesAreSets
  <2>1. CASE channel' = Append(channel, m)
    <3> HIDE DEF m
    <3>1. /\ Append(channel, m) \in Seq(Messages) /\ Once(Append(channel, m))
          /\ Range(Append(channel, m)) = Range(channel) \cup {m}
      BY <1>2, <1>4, <2>0, AppendOnce
    <3>2. QED
      BY <2>1, <3>1
  <2>2. CASE channel' = channel
    BY <2>0, <2>2
  <2>3. QED
    BY <1>1, <2>1, <2>2
<1>6. /\ {m} \subseteq Where(from)
      /\ Where(to)' \subseteq Where(to) \cup {m}
      /\ Where(from)' \subseteq Where(from) \ {m}
  BY <1>2, <1>5, PlaceOf DEF Where
<1>7. \A p \in Places \ {from, to} : Where(p)' \subseteq Where(p)
  BY <1>1, <1>3, OthersUnchanged
<1>8. Apart'
  BY <1>3, <1>6, <1>7, Moved DEF ProcessorInv
<1>9. QED
  BY <1>1, <1>2, <1>5, <1>8
     DEF ProcessorInv, ProcessorTypes, SequencesAreSets, BufferIsBounded, Flushing

LEMMA TakeKeeps ==
  ASSUME ProcessorInv, NEW w \in Workers, Take(w)
  PROVE  ProcessorInv'
<1> DEFINE from == <<"channel", 0>>
<1> DEFINE to == <<"worker", w>>
<1> DEFINE m == Head(channel)
<1>1. /\ worker[w] = Waiting /\ channel # << >> /\ channel' = Tail(channel)
      /\ worker' = [worker EXCEPT ![w] = [at |-> "handling", message |-> m]]
      /\ UNCHANGED <<delayed, ready, loop, stopper, buffer, processed>>
  BY DEF Take
<1>2. /\ m \in Messages /\ m \in Range(channel)
      /\ channel' \in Seq(Messages) /\ Once(channel') /\ Range(channel') = Range(channel) \ {m}
  BY <1>1, TailOnce DEF ProcessorInv, ProcessorTypes, SequencesAreSets
<1>3. from \in Places /\ to \in Places /\ from # to
  BY PlaceNames
<1>4. /\ worker'[w] = [at |-> "handling", message |-> m]
      /\ \A v \in Workers \ {w} : worker'[v] = worker[v]
  BY <1>1 DEF ProcessorInv, ProcessorTypes
<1>5. HeldBy(worker'[w]) = {m}
  BY <1>4 DEF HeldBy
<1>6. /\ {m} \subseteq Where(from)
      /\ Where(to)' \subseteq Where(to) \cup {m}
      /\ Where(from)' \subseteq Where(from) \ {m}
  BY <1>2, <1>5, PlaceOf DEF Where, HeldBy, BatchOf
<1>7. \A p \in Places \ {from, to} : Where(p)' \subseteq Where(p)
  <2>1. \A v \in Workers : <<"worker", v>> \in {from, to} \/ worker'[v] = worker[v]
    BY <1>4
  <2>2. QED
    BY <1>1, <1>3, <2>1, OthersUnchanged
<1>8. Apart'
  BY <1>3, <1>6, <1>7, Moved DEF ProcessorInv
<1>9. Flushing' = Flushing
  BY <1>1, <1>4 DEF Flushing, Waiting
<1>10. ProcessorTypes'
  BY <1>1, <1>2 DEF ProcessorInv, ProcessorTypes
<1>11. QED
  BY <1>1, <1>2, <1>8, <1>9, <1>10 DEF ProcessorInv, SequencesAreSets, BufferIsBounded

LEMMA BufferMessageKeeps ==
  ASSUME ProcessorInv, NEW w \in Workers, BufferMessage(w)
  PROVE  ProcessorInv'
<1> DEFINE from == <<"worker", w>>
<1> DEFINE to == <<"buffer", 0>>
<1> PICK m : m = worker[w].message
  OBVIOUS
<1>1. /\ worker[w].at = "handling" /\ buffer' = Append(buffer, m)
      /\ worker' = [worker EXCEPT ![w] = IF shouldFlush(buffer') THEN At("flush") ELSE Waiting]
      /\ UNCHANGED <<delayed, ready, channel, loop, stopper, processed>>
  BY DEF BufferMessage
<1>2. m \in Messages /\ HeldBy(worker[w]) = {m}
  BY <1>1 DEF ProcessorInv, ProcessorTypes, HeldBy, Waiting, At, InFlight
<1>3. from \in Places /\ to \in Places /\ from # to
  BY PlaceNames
<1>4. m \notin Range(buffer)
  BY <1>2, <1>3, PlaceOf DEF ProcessorInv, Apart
<1>5. /\ buffer' \in Seq(Messages) /\ Once(buffer')
      /\ Range(buffer') = Range(buffer) \cup {m} /\ Len(buffer') = Len(buffer) + 1
  BY <1>1, <1>2, <1>4, AppendOnce DEF ProcessorInv, ProcessorTypes, SequencesAreSets
<1>6. /\ worker'[w] = IF shouldFlush(buffer') THEN At("flush") ELSE Waiting
      /\ \A v \in Workers \ {w} : worker'[v] = worker[v]
  BY <1>1 DEF ProcessorInv, ProcessorTypes
<1>7. HeldBy(worker'[w]) = {}
  BY <1>6 DEF HeldBy, BatchOf, At, Waiting
<1>8. /\ {m} \subseteq Where(from)
      /\ Where(to)' \subseteq Where(to) \cup {m}
      /\ Where(from)' \subseteq Where(from) \ {m}
  BY <1>2, <1>5, <1>7, PlaceOf DEF Where, HeldBy, BatchOf
<1>9. \A p \in Places \ {from, to} : Where(p)' \subseteq Where(p)
  <2>1. \A v \in Workers : <<"worker", v>> \in {from, to} \/ worker'[v] = worker[v]
    BY <1>6
  <2>2. QED
    BY <1>1, <1>3, <2>1, OthersUnchanged
<1>10. Apart'
  BY <1>3, <1>8, <1>9, Moved DEF ProcessorInv
<1>11. BufferIsBounded'
  <2>1. Len(buffer) \in Nat /\ BatchSize \in Nat \ {0}
    BY BatchProcessorAssumption DEF ProcessorInv, ProcessorTypes, BatchProcessorAssumption
  <2>2. CASE shouldFlush(buffer')
    <3>1. worker'[w].at = "flush" /\ w \notin Flushing
      BY <1>1, <1>6, <2>2 DEF At, Flushing
    <3>2. Flushing' = Flushing \cup {w}
      BY <1>6, <3>1 DEF Flushing
    <3>3. Cardinality(Flushing') = Cardinality(Flushing) + 1
      BY <3>1, <3>2, FlushingCounts, FS_AddElement
    <3>4. QED
      BY <1>5, <2>1, <3>3, FlushingCounts DEF ProcessorInv, BufferIsBounded
  <2>3. CASE ~shouldFlush(buffer')
    <3>1. worker'[w].at # "flush" /\ w \notin Flushing
      BY <1>1, <1>6, <2>3 DEF Waiting, Flushing
    <3>2. Flushing' = Flushing
      BY <1>6, <3>1 DEF Flushing
    <3>3. Len(buffer') < BatchSize
      BY <1>5, <2>1, <2>3 DEF shouldFlush
    <3>4. Len(buffer') <= BatchSize - 1 + Cardinality(Flushing)
      BY <1>5, <2>1, <3>3, FlushingCounts
    <3>5. QED
      BY <3>2, <3>4 DEF BufferIsBounded
  <2>4. QED
    BY <2>2, <2>3
<1>12. ProcessorTypes'
  BY <1>1, <1>5 DEF ProcessorInv, ProcessorTypes
<1>13. QED
  BY <1>1, <1>5, <1>10, <1>11, <1>12 DEF ProcessorInv, SequencesAreSets

----------------------------------------------------------------------------
(* The buffer taken out is a batch that fits.                              *)
LEMMA BufferFits == ProcessorInv /\ buffer # << >> => buffer \in Fit
<1> SUFFICES ASSUME ProcessorInv, buffer # << >> PROVE buffer \in Fit
  OBVIOUS
<1>1. Len(buffer) \in Nat /\ BatchSize \in Nat \ {0}
  BY BatchProcessorAssumption DEF ProcessorInv, ProcessorTypes, BatchProcessorAssumption
<1>2. Len(buffer) <= BatchSize - 1 + Cardinality(Workers)
  BY <1>1, FlushingCounts DEF ProcessorInv, BufferIsBounded
<1>3. QED
  BY <1>2 DEF Fit, ProcessorInv, ProcessorTypes, SequencesAreSets

LEMMA EmptyBuffer ==
  buffer' = << >> =>
    /\ buffer' \in Seq(Messages) /\ Once(buffer') /\ Range(buffer') = {}
    /\ Len(buffer') = 0
BY DEF Once, Range

LEMMA EmptyIsBounded ==
  ASSUME buffer' = << >>
  PROVE  BufferIsBounded'
<1>1. Len(buffer') = 0 /\ BatchSize \in Nat \ {0}
  BY EmptyBuffer, BatchProcessorAssumption DEF BatchProcessorAssumption
<1>2. IsFiniteSet(Flushing')
  <2>1. Flushing' \in SUBSET Workers /\ IsFiniteSet(Workers)
    BY BatchProcessorAssumption DEF Flushing, BatchProcessorAssumption
  <2>2. QED
    BY <2>1, FS_Subset
<1>3. Cardinality(Flushing') \in Nat
  BY <1>2, FS_CardinalityType
<1>4. QED
  BY <1>1, <1>3 DEF BufferIsBounded

LEMMA FlushByWorkerKeeps ==
  ASSUME ProcessorInv, NEW w \in Workers, FlushByWorker(w)
  PROVE  ProcessorInv'
<1> DEFINE from == <<"buffer", 0>>
<1> DEFINE to == <<"worker", w>>
<1>1. /\ worker[w].at = "flush" /\ worker' = [worker EXCEPT ![w] = Taken] /\ buffer' = << >>
      /\ UNCHANGED <<delayed, ready, channel, loop, stopper, processed>>
  BY DEF FlushByWorker, Emptied
<1>2. from \in Places /\ to \in Places /\ from # to
  BY PlaceNames
<1>3. /\ worker'[w] = Taken
      /\ \A v \in Workers \ {w} : worker'[v] = worker[v]
  BY <1>1 DEF ProcessorInv, ProcessorTypes
<1>4. HeldBy(Taken) \subseteq Range(buffer) /\ Taken \in {Waiting} \cup {InFlight(b) : b \in Fit}
  BY BufferFits, StepsHold DEF Taken
<1>5. /\ Range(buffer) \subseteq Where(from)
      /\ Where(to)' \subseteq Where(to) \cup Range(buffer)
      /\ Where(from)' \subseteq Where(from) \ Range(buffer)
  <2>1. Where(to)' = HeldBy(Taken)
    BY <1>3 DEF Where, HeldBy, BatchOf
  <2>2. Where(from)' = {}
    BY <1>1, EmptyBuffer DEF Where
  <2>3. QED
    BY <1>4, <2>1, <2>2, PlaceOf
<1>6. \A p \in Places \ {from, to} : Where(p)' \subseteq Where(p)
  <2>1. \A v \in Workers : <<"worker", v>> \in {from, to} \/ worker'[v] = worker[v]
    BY <1>3
  <2>2. QED
    BY <1>1, <1>2, <2>1, OthersUnchanged
<1>7. Apart'
  BY <1>2, <1>5, <1>6, Moved DEF ProcessorInv
<1>8. ProcessorTypes'
  <2>1. worker' \in [Workers -> {Waiting, At("flush")} \cup [at : {"handling"}, message : Messages]
                                  \cup {InFlight(b) : b \in Fit}]
    BY <1>1, <1>4 DEF ProcessorInv, ProcessorTypes
  <2>2. QED
    BY <1>1, <2>1, EmptyBuffer DEF ProcessorInv, ProcessorTypes
<1>9. QED
  BY <1>1, <1>7, <1>8, EmptyBuffer, EmptyIsBounded DEF ProcessorInv, SequencesAreSets

LEMMA FlushByLoopKeeps ==
  ASSUME ProcessorInv, FlushByLoop
  PROVE  ProcessorInv'
<1> DEFINE from == <<"buffer", 0>>
<1> DEFINE to == <<"loop", 0>>
<1>1. /\ loop' = Taken /\ buffer' = << >>
      /\ UNCHANGED <<delayed, ready, channel, worker, stopper, processed>>
  BY DEF FlushByLoop, Emptied
<1>2. from \in Places /\ to \in Places /\ from # to
  BY PlaceNames
<1>3. BatchOf(Taken) \subseteq Range(buffer) /\ Taken \in {Waiting} \cup {InFlight(b) : b \in Fit}
  BY BufferFits, StepsHold DEF Taken
<1>4. /\ Range(buffer) \subseteq Where(from)
      /\ Where(to)' \subseteq Where(to) \cup Range(buffer)
      /\ Where(from)' \subseteq Where(from) \ Range(buffer)
  <2>1. Where(to)' = BatchOf(Taken)
    BY <1>1 DEF Where, BatchOf
  <2>2. Where(from)' = {}
    BY <1>1, EmptyBuffer DEF Where
  <2>3. QED
    BY <1>3, <2>1, <2>2, PlaceOf
<1>5. \A p \in Places \ {from, to} : Where(p)' \subseteq Where(p)
  BY <1>1, <1>2, OthersUnchanged
<1>6. Apart'
  BY <1>2, <1>4, <1>5, Moved DEF ProcessorInv
<1>7. ProcessorTypes'
  BY <1>1, <1>3, EmptyBuffer DEF ProcessorInv, ProcessorTypes
<1>8. QED
  BY <1>1, <1>6, <1>7, EmptyBuffer, EmptyIsBounded DEF ProcessorInv, SequencesAreSets

LEMMA FlushByStopKeeps ==
  ASSUME ProcessorInv, FlushByStop
  PROVE  ProcessorInv'
<1> DEFINE from == <<"buffer", 0>>
<1> DEFINE to == <<"stopper", 0>>
<1>1. /\ stopper' = IF buffer = << >> THEN At("done") ELSE InFlight(buffer)
      /\ buffer' = << >>
      /\ UNCHANGED <<delayed, ready, channel, worker, loop, processed>>
  BY DEF FlushByStop, Emptied
<1>2. from \in Places /\ to \in Places /\ from # to
  BY PlaceNames
<1>3. BatchOf(stopper') \subseteq Range(buffer) /\ stopper' \in {At("done")} \cup {InFlight(b) : b \in Fit}
  BY <1>1, BufferFits, StepsHold
<1>4. /\ Range(buffer) \subseteq Where(from)
      /\ Where(to)' \subseteq Where(to) \cup Range(buffer)
      /\ Where(from)' \subseteq Where(from) \ Range(buffer)
  <2>1. Where(to)' = BatchOf(stopper')
    BY DEF Where, BatchOf
  <2>2. Where(from)' = {}
    BY <1>1, EmptyBuffer DEF Where
  <2>3. QED
    BY <1>3, <2>1, <2>2, PlaceOf
<1>5. \A p \in Places \ {from, to} : Where(p)' \subseteq Where(p)
  BY <1>1, <1>2, OthersUnchanged
<1>6. Apart'
  BY <1>2, <1>4, <1>5, Moved DEF ProcessorInv
<1>7. ProcessorTypes'
  BY <1>1, <1>3, EmptyBuffer DEF ProcessorInv, ProcessorTypes
<1>8. QED
  BY <1>1, <1>6, <1>7, EmptyBuffer, EmptyIsBounded DEF ProcessorInv, SequencesAreSets

----------------------------------------------------------------------------
(* A batch in flight ends as processed, or lost.                           *)

LEMMA ProcessByWorkerKeeps ==
  ASSUME ProcessorInv, NEW w \in Workers, ProcessByWorker(w)
  PROVE  ProcessorInv'
<1> PICK b : b = worker[w].batch
  OBVIOUS
<1> DEFINE from == <<"worker", w>>
<1> DEFINE to == <<"processed", b>>
<1>1. /\ worker[w].at = "processing" /\ worker' = [worker EXCEPT ![w] = Waiting]
      /\ processed' \in {processed, processed \cup {b}}
      /\ UNCHANGED <<delayed, ready, channel, loop, stopper, buffer>>
  BY DEF ProcessByWorker, Settle
<1>2. b \in Fit /\ HeldBy(worker[w]) = Range(b)
  BY <1>1 DEF ProcessorInv, ProcessorTypes, HeldBy, BatchOf, Waiting, At, InFlight
<1>3. from \in Places /\ to \in Places /\ from # to
  BY <1>2, PlaceNames
<1>4. /\ worker'[w] = Waiting
      /\ \A v \in Workers \ {w} : worker'[v] = worker[v]
  BY <1>1 DEF ProcessorInv, ProcessorTypes
<1>5. /\ Range(b) \subseteq Where(from)
      /\ Where(to)' \subseteq Where(to) \cup Range(b)
      /\ Where(from)' \subseteq Where(from) \ Range(b)
  <2>1. Where(from)' = {}
    BY <1>4 DEF Where, HeldBy, BatchOf, Waiting
  <2>2. Where(to)' \subseteq Range(b)
    BY DEF Where
  <2>3. QED
    BY <1>2, <2>1, <2>2, PlaceOf
<1>6. \A p \in Places \ {from, to} : Where(p)' \subseteq Where(p)
  <2>1. \A v \in Workers : <<"worker", v>> \in {from, to} \/ worker'[v] = worker[v]
    BY <1>4
  <2>2. \A c \in Fit : <<"processed", c>> \in {from, to} \/ (c \in processed' <=> c \in processed)
    BY <1>1
  <2>3. QED
    BY <1>1, <1>3, <2>1, <2>2, OthersUnchanged
<1>7. Apart'
  BY <1>3, <1>5, <1>6, Moved DEF ProcessorInv
<1>8. Flushing' = Flushing
  BY <1>1, <1>4 DEF Flushing, Waiting
<1>9. ProcessorTypes'
  BY <1>1, <1>2 DEF ProcessorInv, ProcessorTypes
<1>10. QED
  BY <1>1, <1>7, <1>8, <1>9 DEF ProcessorInv, SequencesAreSets, BufferIsBounded

LEMMA ProcessByLoopKeeps ==
  ASSUME ProcessorInv, ProcessByLoop
  PROVE  ProcessorInv'
<1> PICK b : b = loop.batch
  OBVIOUS
<1> DEFINE from == <<"loop", 0>>
<1> DEFINE to == <<"processed", b>>
<1>1. /\ loop.at = "processing" /\ loop' = Waiting
      /\ processed' \in {processed, processed \cup {b}}
      /\ UNCHANGED <<delayed, ready, channel, worker, stopper, buffer>>
  BY DEF ProcessByLoop, Settle
<1>2. b \in Fit /\ BatchOf(loop) = Range(b)
  BY <1>1 DEF ProcessorInv, ProcessorTypes, BatchOf, Waiting, At, InFlight
<1>3. from \in Places /\ to \in Places /\ from # to
  BY <1>2, PlaceNames
<1>4. /\ Range(b) \subseteq Where(from)
      /\ Where(to)' \subseteq Where(to) \cup Range(b)
      /\ Where(from)' \subseteq Where(from) \ Range(b)
  <2>1. Where(from)' = {}
    BY <1>1 DEF Where, BatchOf, Waiting
  <2>2. Where(to)' \subseteq Range(b)
    BY DEF Where
  <2>3. QED
    BY <1>2, <2>1, <2>2, PlaceOf
<1>5. \A p \in Places \ {from, to} : Where(p)' \subseteq Where(p)
  <2>1. \A c \in Fit : <<"processed", c>> \in {from, to} \/ (c \in processed' <=> c \in processed)
    BY <1>1
  <2>2. QED
    BY <1>1, <1>3, <2>1, OthersUnchanged
<1>6. Apart'
  BY <1>3, <1>4, <1>5, Moved DEF ProcessorInv
<1>7. ProcessorTypes'
  BY <1>1, <1>2 DEF ProcessorInv, ProcessorTypes
<1>8. QED
  BY <1>1, <1>6, <1>7 DEF ProcessorInv, SequencesAreSets, BufferIsBounded, Flushing

LEMMA ProcessByStopKeeps ==
  ASSUME ProcessorInv, ProcessByStop
  PROVE  ProcessorInv'
<1> PICK b : b = stopper.batch
  OBVIOUS
<1> DEFINE from == <<"stopper", 0>>
<1> DEFINE to == <<"processed", b>>
<1>1. /\ stopper.at = "processing" /\ stopper' = At("done")
      /\ processed' \in {processed, processed \cup {b}}
      /\ UNCHANGED <<delayed, ready, channel, worker, loop, buffer>>
  BY DEF ProcessByStop, Settle
<1>2. b \in Fit /\ BatchOf(stopper) = Range(b)
  BY <1>1 DEF ProcessorInv, ProcessorTypes, BatchOf, At, InFlight
<1>3. from \in Places /\ to \in Places /\ from # to
  BY <1>2, PlaceNames
<1>4. /\ Range(b) \subseteq Where(from)
      /\ Where(to)' \subseteq Where(to) \cup Range(b)
      /\ Where(from)' \subseteq Where(from) \ Range(b)
  <2>1. Where(from)' = {}
    BY <1>1 DEF Where, BatchOf, At
  <2>2. Where(to)' \subseteq Range(b)
    BY DEF Where
  <2>3. QED
    BY <1>2, <2>1, <2>2, PlaceOf
<1>5. \A p \in Places \ {from, to} : Where(p)' \subseteq Where(p)
  <2>1. \A c \in Fit : <<"processed", c>> \in {from, to} \/ (c \in processed' <=> c \in processed)
    BY <1>1
  <2>2. QED
    BY <1>1, <1>3, <2>1, OthersUnchanged
<1>6. Apart'
  BY <1>3, <1>4, <1>5, Moved DEF ProcessorInv
<1>7. ProcessorTypes'
  BY <1>1, <1>2 DEF ProcessorInv, ProcessorTypes
<1>8. QED
  BY <1>1, <1>6, <1>7 DEF ProcessorInv, SequencesAreSets, BufferIsBounded, Flushing

(* Cancelling and ending move no message.                                  *)
LEMMA EndsKeep ==
  ASSUME ProcessorInv, CancelDelayed \/ EndDelayed \/ EndLoop \/ Stop \/ UNCHANGED processorVars
  PROVE  ProcessorInv'
<1>1. UNCHANGED <<delayed, ready, channel, worker, buffer, processed>>
  BY DEF CancelDelayed, EndDelayed, EndLoop, Stop, processorVars
<1>2. /\ loop' \in {Waiting, At("ended")} \cup {InFlight(b) : b \in Fit}
      /\ stopper' \in {At("idle"), At("cancelled"), At("done")} \cup {InFlight(b) : b \in Fit}
      /\ BatchOf(loop') \subseteq BatchOf(loop) /\ BatchOf(stopper') \subseteq BatchOf(stopper)
  BY StepsHold DEF CancelDelayed, EndDelayed, EndLoop, Stop, processorVars, ProcessorInv, ProcessorTypes
<1>3. \A p \in Places : Where(p)' \subseteq Where(p)
  <2>1. /\ Where(<<"loop", 0>>)' = BatchOf(loop') /\ Where(<<"stopper", 0>>)' = BatchOf(stopper')
    BY DEF Where, BatchOf
  <2>2. \A p \in Places \ {<<"loop", 0>>, <<"stopper", 0>>} : Where(p)' \subseteq Where(p)
    BY <1>1, PlaceNames, OthersUnchanged
  <2>3. QED
    BY <1>2, <2>1, <2>2, PlaceOf
<1>4. Apart'
  BY <1>3, Unmoved DEF ProcessorInv
<1>5. QED
  BY <1>1, <1>2, <1>4 DEF ProcessorInv, ProcessorTypes, SequencesAreSets, BufferIsBounded, Flushing

----------------------------------------------------------------------------
LEMMA ProcessorInvInit == ProcessorInit => ProcessorInv
<1> SUFFICES ASSUME ProcessorInit PROVE ProcessorInv
  OBVIOUS
<1>1. ProcessorTypes /\ SequencesAreSets
  BY DEF ProcessorInit, ProcessorTypes, SequencesAreSets, Once
<1>2. BufferIsBounded
  <2>1. Len(buffer) = 0 /\ BatchSize \in Nat \ {0}
    BY BatchProcessorAssumption DEF ProcessorInit, BatchProcessorAssumption
  <2>2. QED
    BY <2>1, FlushingCounts DEF BufferIsBounded
<1>3. \A p \in Places : Where(p) = {}
  <2>1. Range(<< >>) = {}
    BY DEF Range
  <2>2. HeldBy(Waiting) = {} /\ BatchOf(Waiting) = {} /\ BatchOf(At("idle")) = {}
    BY StepsHold
  <2>3. QED
    BY <2>1, <2>2, PlaceOf, PlaceNames DEF ProcessorInit
<1>4. QED
  BY <1>1, <1>2, <1>3 DEF ProcessorInv, Apart

LEMMA ProcessorInvNext == ProcessorInv /\ [ProcessorNext]_processorVars => ProcessorInv'
<1> SUFFICES ASSUME ProcessorInv, [ProcessorNext]_processorVars PROVE ProcessorInv'
  OBVIOUS
<1>1. ASSUME NEW w \in Workers, WorkerStep(w) PROVE ProcessorInv'
  BY <1>1, TakeKeeps, BufferMessageKeeps, FlushByWorkerKeeps, ProcessByWorkerKeeps DEF WorkerStep
<1>2. CASE LoopStep \/ StopStep
  BY <1>2, FlushByLoopKeeps, ProcessByLoopKeeps, FlushByStopKeeps, ProcessByStopKeeps, EndsKeep DEF LoopStep, StopStep
<1>3. CASE DelayStep
  BY <1>3, PublishReadyKeeps, EndsKeep DEF DelayStep
<1>4. CASE CancelDelayed \/ Stop \/ UNCHANGED processorVars
  BY <1>4, EndsKeep
<1>5. QED
  BY <1>1, <1>2, <1>3, <1>4, PublishDelayedKeeps, ProcessDelayedKeeps DEF ProcessorNext

(* Batches in two places share no message, so that one batch is in one.    *)
BatchAt(p) ==
  CASE p[1] = "buffer" -> buffer
    [] p[1] = "loop" -> loop.batch
    [] p[1] = "stopper" -> stopper.batch
    [] p[1] = "worker" -> worker[p[2]].batch
    [] OTHER -> p[2]

LEMMA InvBoundsBatches == ProcessorInv => BatchesBoundedAndDisjoint
<1> SUFFICES ASSUME ProcessorInv PROVE BatchesBoundedAndDisjoint
  OBVIOUS
<1> DEFINE All == Batches \cup processed \cup {buffer}
<1>1. ASSUME NEW b \in All
      PROVE  /\ b \in Seq(Messages) /\ Once(b)
             /\ Len(b) <= BatchSize - 1 + Cardinality(Workers)
             /\ \E p \in Places : BatchAt(p) = b /\ Where(p) = Range(b)
  <2>1. CASE b = buffer
    <3>1. Len(buffer) \in Nat /\ BatchSize \in Nat \ {0}
      BY BatchProcessorAssumption DEF ProcessorInv, ProcessorTypes, BatchProcessorAssumption
    <3>2. Len(b) <= BatchSize - 1 + Cardinality(Workers)
      BY <2>1, <3>1, FlushingCounts DEF ProcessorInv, BufferIsBounded
    <3>3. QED
      BY <2>1, <3>2, PlaceOf, PlaceNames DEF BatchAt, ProcessorInv, ProcessorTypes, SequencesAreSets
  <2>2. CASE b \in processed
    BY <2>2, PlaceOf, PlaceNames DEF BatchAt, ProcessorInv, ProcessorTypes, Fit
  <2>3. ASSUME NEW w \in Workers, worker[w].at = "processing", b = worker[w].batch
        PROVE  b \in Fit /\ \E p \in Places : BatchAt(p) = b /\ Where(p) = Range(b)
    <3>1. b \in Fit /\ HeldBy(worker[w]) = Range(b)
      BY <2>3 DEF ProcessorInv, ProcessorTypes, HeldBy, BatchOf, Waiting, At, InFlight
    <3>2. QED
      BY <2>3, <3>1, PlaceOf, PlaceNames DEF BatchAt
  <2>4. CASE loop.at = "processing" /\ b = loop.batch
    <3>1. b \in Fit /\ BatchOf(loop) = Range(b)
      BY <2>4 DEF ProcessorInv, ProcessorTypes, BatchOf, Waiting, At, InFlight
    <3>2. b \in Fit /\ \E p \in Places : BatchAt(p) = b /\ Where(p) = Range(b)
      BY <2>4, <3>1, PlaceOf, PlaceNames DEF BatchAt
    <3>3. QED
      BY <3>2 DEF Fit
  <2>5. CASE stopper.at = "processing" /\ b = stopper.batch
    <3>1. b \in Fit /\ BatchOf(stopper) = Range(b)
      BY <2>5 DEF ProcessorInv, ProcessorTypes, BatchOf, At, InFlight
    <3>2. b \in Fit /\ \E p \in Places : BatchAt(p) = b /\ Where(p) = Range(b)
      BY <2>5, <3>1, PlaceOf, PlaceNames DEF BatchAt
    <3>3. QED
      BY <3>2 DEF Fit
  <2>6. QED
    BY <2>1, <2>2, <2>3, <2>4, <2>5 DEF Batches, Fit
<1>2. ASSUME NEW b \in All, NEW c \in All, b # c, NEW x, x \in Range(b), x \in Range(c)
      PROVE  FALSE
  <2>1. PICK p \in Places : BatchAt(p) = b /\ Where(p) = Range(b)
    BY <1>1
  <2>2. PICK q \in Places : BatchAt(q) = c /\ Where(q) = Range(c)
    BY <1>1
  <2>3. p # q /\ x \in Where(p) \cap Where(q)
    BY <1>2, <2>1, <2>2
  <2>4. QED
    BY <2>3 DEF ProcessorInv, Apart
<1>3. QED
  BY <1>1, <1>2, OnceCounts DEF BatchesBoundedAndDisjoint

(* The batches that worker.go:249 hands to processFn never exceed          *)
(* BatchSize - 1 plus a message a worker, repeat no message, and share     *)
(* none with one another or with the buffer: whatever the number of        *)
(* messages and workers, and however flush and Stop meet.                  *)
THEOREM ProcessorBatches == ProcessorSpec => []BatchesBoundedAndDisjoint
<1>1. ProcessorSpec => []ProcessorInv
  BY ProcessorInvInit, ProcessorInvNext, PTL DEF ProcessorSpec
<1>2. QED
  BY <1>1, InvBoundsBatches, PTL

----------------------------------------------------------------------------
(***************************************************************************)
(* AutoCert, for any configurations, traces and goroutines.                *)
(*                                                                         *)
(* An evaluation holds the read lock from its first trigger to its         *)
(* verdict: the strategy it goes by is the one in force, and no trigger it *)
(* has passed matches (EvaluationsOfNow). Every strategy that can be       *)
(* configured gives its triggers a level that ParseEvidenceLevel returns   *)
(* (StrategiesGraded).                                                     *)
(***************************************************************************)

Levels == {"internal", "compliance", "legal"}

(* What the proof needs of a strategy: the level that each trigger gives a *)
(* trace is one that ParseEvidenceLevel could have returned.               *)
Graded(s) ==
  /\ s.enabled \in BOOLEAN
  /\ Len(s.triggers) \in Nat /\ DOMAIN s.triggers = 1 .. Len(s.triggers)
  /\ \A i \in 1 .. Len(s.triggers) : Fired(s, s.triggers[i]).level \in Levels

NoneBefore(s, trace, n) == \A i \in 1 .. n - 1 : ~matchesTrigger(trace, s.triggers[i])

(* An evaluation in progress is one of the strategy in force, of which no  *)
(* trigger before the next one matches.                                    *)
EvaluationsOfNow ==
  \A g \in Goroutines :
    evaluating[g] = NotEvaluating \/
    /\ evaluating[g].next \in 1 .. Len(strategy.triggers) + 1
    /\ evaluating[g].under = strategy
    /\ NoneBefore(strategy, evaluating[g].trace, evaluating[g].next)

AutoInv ==
  /\ DOMAIN evaluating = Goroutines /\ DOMAIN verdicts = Goroutines
  /\ Graded(strategy)
  /\ EvaluationsOfNow
  /\ VerdictOfOneStrategy

LEMMA ParsedLevel == \A s : ParseEvidenceLevel(s) \in Levels
BY DEF ParseEvidenceLevel, Levels

LEMMA LevelSurvives == \A l \in Levels : ParseEvidenceLevel(LegacyCode(l)) = l
BY DEF ParseEvidenceLevel, LegacyCode, Levels

(* A trigger of level "" leaves its level to the strategy.                 *)
LEMMA FiredLevel ==
  ASSUME NEW s, NEW t, s.default \in Levels, t.level \in Levels \/ t.level = ""
  PROVE  Fired(s, t).level \in Levels
<1>1. CASE t.level = ""
  BY <1>1, Zenon DEF Fired
<1>2. CASE t.level # ""
  BY <1>2, Zenon DEF Fired
<1>3. QED
  BY <1>1, <1>2, Zenon

LEMMA PairFacts ==
  ASSUME NEW a, NEW b
  PROVE  /\ Len(<<a, b>>) = 2 /\ 2 \in Nat /\ DOMAIN <<a, b>> = 1 .. 2
         /\ \A i \in 1 .. 2 : <<a, b>>[i] = a \/ <<a, b>>[i] = b
OBVIOUS

LEMMA PairGraded ==
  ASSUME NEW s, NEW a, NEW b, s.triggers = <<a, b>>, s.enabled \in BOOLEAN,
         Fired(s, a).level \in Levels, Fired(s, b).level \in Levels
  PROVE  Graded(s)
BY PairFacts DEF Graded

LEMMA TwoGraded ==
  ASSUME NEW a, NEW b, NEW on \in BOOLEAN, NEW d \in Levels,
         a.level \in Levels \/ a.level = "", b.level \in Levels \/ b.level = ""
  PROVE  Graded([enabled |-> on, default |-> d, triggers |-> <<a, b>>])
<1> DEFINE s == [enabled |-> on, default |-> d, triggers |-> <<a, b>>]
<1>1. s.default = d /\ s.triggers = <<a, b>> /\ s.enabled = on
  BY Zenon
<1> HIDE DEF s
<1>2. Fired(s, a).level \in Levels /\ Fired(s, b).level \in Levels
  BY <1>1, FiredLevel, Zenon
<1>3. Graded(s)
  BY <1>1, <1>2, PairGraded, Zenon
<1>4. QED
  BY <1>3 DEF s

LEMMA NoneGraded ==
  ASSUME NEW on \in BOOLEAN, NEW d \in Levels
  PROVE  Graded([enabled |-> on, default |-> d, triggers |-> << >>])
BY DEF Graded

LEMMA StrategiesGraded ==
  /\ \A on \in BOOLEAN : Graded(RouterStrategy(on))
  /\ \A s \in ExampleStrategies \cup {RegulatedStrategy, Disabled} : Graded(s)
<1>1. "internal" \in Levels /\ "compliance" \in Levels /\ "legal" \in Levels
  BY DEF Levels
<1>2. \A type, condition, level : Trigger(type, condition, level).level = level
  BY DEF Trigger
<1>3. Graded(RouterStrategy(FALSE))
  <2>1. RouterStrategy(FALSE) = DefaultStrategy
    BY DEF RouterStrategy
  <2>2. Graded(DefaultStrategy)
    <3> DEFINE a == Trigger("model", <<{"gpt-4"}, {"claude-3-opus"}, {"deepseek-chat"}>>, "compliance")
    <3> DEFINE b == Trigger("token_count", 2000, "internal")
    <3>1. a.level \in Levels /\ b.level \in Levels
      BY <1>1 DEF Trigger
    <3>2. DefaultStrategy = [enabled |-> FALSE, default |-> "internal", triggers |-> <<a, b>>]
      BY Zenon DEF DefaultStrategy
    <3> HIDE DEF a, b
    <3>3. QED
      BY <1>1, <3>1, <3>2, TwoGraded, Zenon
  <2>3. QED
    BY <2>1, <2>2
<1>4. Graded(RouterStrategy(TRUE))
  <2> DEFINE level == ParseEvidenceLevel(ConfiguredLevel)
  <2> DEFINE a == Trigger("model", ConfiguredModels, level)
  <2> DEFINE b == Trigger("token_count", ConfiguredMin, "internal")
  <2>1. level \in Levels /\ a.level \in Levels /\ b.level \in Levels
    <3>1. level \in Levels
      BY ParsedLevel
    <3>2. a.level = level /\ b.level = "internal"
      BY <1>2
    <3>3. QED
      BY <1>1, <3>1, <3>2
  <2>2. RouterStrategy(TRUE) = [enabled |-> TRUE, default |-> level, triggers |-> <<a, b>>]
    BY Zenon DEF RouterStrategy
  <2> HIDE DEF level, a, b
  <2>3. QED
    BY <2>1, <2>2, TwoGraded, Zenon
<1>5. \A s \in ExampleStrategies : Graded(s)
  <2> DEFINE a == Trigger("model", <<{"gpt"}, {"claude"}>>, "compliance")
  <2> DEFINE b == Trigger("token_count", 1000, "compliance")
  <2>1. a.level \in Levels /\ b.level \in Levels
    BY <1>1 DEF Trigger
  <2>2. ExampleStrategies = {[enabled |-> TRUE, default |-> "internal", triggers |-> << >>],
                             [enabled |-> TRUE, default |-> "compliance", triggers |-> <<a, b>>]}
    BY Zenon DEF ExampleStrategies
  <2> HIDE DEF a, b
  <2>3. /\ Graded([enabled |-> TRUE, default |-> "internal", triggers |-> << >>])
        /\ Graded([enabled |-> TRUE, default |-> "compliance", triggers |-> <<a, b>>])
    BY <1>1, <2>1, NoneGraded, TwoGraded, Zenon
  <2>4. QED
    BY <2>2, <2>3, Zenon
<1>6. Graded(RegulatedStrategy)
  <2> DEFINE a == Trigger("industry", {"finance"}, "")
  <2> DEFINE b == Trigger("content_pattern", <<{"contract"}>>, "compliance")
  <2>1. a.level = "" /\ b.level \in Levels
    BY <1>1, <1>2, Zenon
  <2>2. RegulatedStrategy = [enabled |-> TRUE, default |-> "legal", triggers |-> <<a, b>>]
    BY Zenon DEF RegulatedStrategy
  <2> HIDE DEF a, b
  <2>3. QED
    BY <1>1, <2>1, <2>2, TwoGraded, Zenon
<1>7. Graded(Disabled)
  BY <1>1, NoneGraded, Zenon DEF Disabled
<1>8. QED
  BY <1>3, <1>4, <1>5, <1>6, <1>7, Zenon

Selected(s, trace) == SelectInSeq(s.triggers, LAMBDA t : matchesTrigger(trace, t))

LEMMA FirstOfSelected ==
  ASSUME NEW s, NEW trace
  PROVE  FirstFired(s, trace) =
           IF ~s.enabled \/ Selected(s, trace) = 0 THEN NoTrigger
           ELSE Fired(s, s.triggers[Selected(s, trace)])
BY Zenon DEF FirstFired, Selected

(* The first trigger that matches is the one the evaluation stops at.      *)
LEMMA FirstIsSelected ==
  ASSUME NEW s, Graded(s), NEW trace, NEW n \in 1 .. Len(s.triggers) + 1, NoneBefore(s, trace, n)
  PROVE  /\ n <= Len(s.triggers) /\ matchesTrigger(trace, s.triggers[n]) => Selected(s, trace) = n
         /\ n = Len(s.triggers) + 1 => Selected(s, trace) = 0
<1> DEFINE I == {i \in 1 .. Len(s.triggers) : matchesTrigger(trace, s.triggers[i])}
<1>1. Selected(s, trace) = IF I # {} THEN Min(I) ELSE 0
  BY DEF SelectInSeq, Selected
<1>2. ASSUME n <= Len(s.triggers), matchesTrigger(trace, s.triggers[n]) PROVE Selected(s, trace) = n
  <2>1. n \in I /\ I \subseteq Int /\ \A i \in I : n <= i
    BY <1>2 DEF Graded, NoneBefore
  <2> HIDE DEF I
  <2>2. Min(I) \in I /\ \A i \in I : Min(I) <= i
    BY <2>1, Zenon DEF Min
  <2>3. n <= Min(I) /\ Min(I) <= n /\ n \in Int /\ Min(I) \in Int
    BY <2>1, <2>2
  <2>4. Min(I) = n
    BY <2>3
  <2>5. QED
    BY <1>1, <2>1, <2>4
<1>3. ASSUME n = Len(s.triggers) + 1 PROVE Selected(s, trace) = 0
  <2>1. I = {}
    BY <1>3 DEF Graded, NoneBefore
  <2>2. QED
    BY <1>1, <2>1
<1>4. QED
  BY <1>2, <1>3

LEMMA VerdictIsFirst ==
  ASSUME NEW s, Graded(s), NEW trace, NEW n \in 1 .. Len(s.triggers) + 1, NoneBefore(s, trace, n)
  PROVE  /\ ~s.enabled \/ n > Len(s.triggers) => FirstFired(s, trace) = NoTrigger
         /\ s.enabled /\ n <= Len(s.triggers) /\ matchesTrigger(trace, s.triggers[n]) =>
              /\ FirstFired(s, trace) = Fired(s, s.triggers[n])
              /\ Fired(s, s.triggers[n]).level \in Levels
<1>1. n > Len(s.triggers) => n = Len(s.triggers) + 1
  BY DEF Graded
<1>2. ~s.enabled \/ n > Len(s.triggers) => FirstFired(s, trace) = NoTrigger
  BY <1>1, FirstIsSelected, FirstOfSelected
<1>3. ASSUME s.enabled, n <= Len(s.triggers), matchesTrigger(trace, s.triggers[n])
      PROVE  FirstFired(s, trace) = Fired(s, s.triggers[n])
  <2>1. Selected(s, trace) = n /\ n # 0
    BY <1>3, FirstIsSelected
  <2>2. QED
    BY <1>3, <2>1, FirstOfSelected
<1>4. n <= Len(s.triggers) => Fired(s, s.triggers[n]).level \in Levels
  BY DEF Graded
<1>5. QED
  BY <1>2, <1>3, <1>4

LEMMA VerdictKeeps ==
  ASSUME AutoInv, NEW g \in Goroutines, evaluating[g] # NotEvaluating, NEW v, Verdict(g, v),
         v = FirstFired(strategy, evaluating[g].trace), v # NoTrigger => v.level \in Levels
  PROVE  AutoInv'
<1>1. EvaluationsOfNow' /\ DOMAIN evaluating' = Goroutines /\ DOMAIN verdicts' = Goroutines /\ Graded(strategy')
  BY DEF AutoInv, Verdict, EvaluationsOfNow
<1>2. ASSUME NEW h \in Goroutines
      PROVE  verdicts'[h] = NoTrigger \/
             /\ verdicts'[h].result = FirstFired(verdicts'[h].under, verdicts'[h].trace)
             /\ verdicts'[h].result # NoTrigger =>
                  ParseEvidenceLevel(LegacyCode(verdicts'[h].result.level)) = verdicts'[h].result.level
  <2>1. CASE h = g
    <3>1. verdicts'[h] = [trace |-> evaluating[g].trace, result |-> v, under |-> strategy]
      BY <2>1 DEF AutoInv, EvaluationsOfNow, Verdict
    <3>2. QED
      BY <3>1, LevelSurvives
  <2>2. CASE h # g
    BY <2>2 DEF Verdict, AutoInv, VerdictOfOneStrategy
  <2>3. QED
    BY <2>1, <2>2
<1>3. QED
  BY <1>1, <1>2 DEF AutoInv, VerdictOfOneStrategy

LEMMA EvaluateKeeps == ASSUME AutoInv, NEW g \in Goroutines, EvaluateNext(g) PROVE AutoInv'
<1> DEFINE e == evaluating[g]
<1>1. /\ e # NotEvaluating /\ e.next \in 1 .. Len(strategy.triggers) + 1
      /\ e.under = strategy /\ NoneBefore(strategy, e.trace, e.next) /\ Graded(strategy)
  BY DEF AutoInv, EvaluationsOfNow, EvaluateNext
<1>2. CASE ~strategy.enabled \/ e.next > Len(strategy.triggers)
  <2>1. Verdict(g, NoTrigger)
    BY <1>2 DEF EvaluateNext
  <2>2. QED
    BY <1>1, <1>2, <2>1, VerdictIsFirst, VerdictKeeps
<1>3. CASE ~(~strategy.enabled \/ e.next > Len(strategy.triggers)) /\ matchesTrigger(e.trace, strategy.triggers[e.next])
  <2>1. Verdict(g, Fired(strategy, strategy.triggers[e.next]))
    BY <1>3 DEF EvaluateNext
  <2>2. strategy.enabled /\ e.next <= Len(strategy.triggers)
    BY <1>1, <1>3 DEF Graded
  <2>3. /\ FirstFired(strategy, e.trace) = Fired(strategy, strategy.triggers[e.next])
        /\ Fired(strategy, strategy.triggers[e.next]).level \in Levels
    BY <1>1, <1>3, <2>2, VerdictIsFirst
  <2>4. QED
    BY <1>1, <2>1, <2>3, VerdictKeeps
<1>4. CASE ~(~strategy.enabled \/ e.next > Len(strategy.triggers)) /\ ~matchesTrigger(e.trace, strategy.triggers[e.next])
  <2>1. evaluating' = [evaluating EXCEPT ![g].next = @ + 1] /\ UNCHANGED <<strategy, verdicts>>
    BY <1>4 DEF EvaluateNext
  <2>2. e.next \in 1 .. Len(strategy.triggers)
    BY <1>1, <1>4 DEF Graded
  <2>3. evaluating' = [evaluating EXCEPT ![g] = [e EXCEPT !.next = @ + 1]]
    BY <2>1
  <2>4. /\ evaluating'[g].next \in 1 .. Len(strategy.triggers) + 1
        /\ evaluating'[g].under = e.under /\ evaluating'[g].trace = e.trace
        /\ evaluating'[g].next = e.next + 1
    BY <1>1, <2>2, <2>3 DEF AutoInv
  <2>5. NoneBefore(strategy, e.trace, e.next + 1)
    BY <1>1, <1>4, <2>2 DEF NoneBefore
  <2>6. EvaluationsOfNow'
    BY <1>1, <2>1, <2>3, <2>4, <2>5 DEF AutoInv, EvaluationsOfNow, NoneBefore
  <2>7. QED
    BY <2>1, <2>6 DEF AutoInv, VerdictOfOneStrategy
<1>5. QED
  BY <1>2, <1>3, <1>4

(* For any configuration, traces and goroutines: the write lock keeps a    *)
(* strategy in force while a trace is evaluated (auto_strategy.go:147,     *)
(* 222), and every level survives its legacy code.                         *)
THEOREM VerdictIsOfOneStrategy == AutoSpec => []VerdictOfOneStrategy
<1>1. AutoInit => AutoInv
  BY StrategiesGraded DEF AutoInit, AutoInv, EvaluationsOfNow, VerdictOfOneStrategy
<1>2. AutoInv /\ [AutoNext]_autoVars => AutoInv'
  <2> SUFFICES ASSUME AutoInv, [AutoNext]_autoVars PROVE AutoInv'
    OBVIOUS
  <2>1. ASSUME NEW g \in Goroutines, NEW t \in Traces, BeginEvaluate(g, t) PROVE AutoInv'
    <3>1. /\ evaluating' = [evaluating EXCEPT ![g] = [next |-> 1, trace |-> t, under |-> strategy]]
          /\ UNCHANGED <<strategy, verdicts>>
      BY <2>1 DEF BeginEvaluate
    <3>2. 1 \in 1 .. Len(strategy.triggers) + 1 /\ NoneBefore(strategy, t, 1)
      BY DEF AutoInv, Graded, NoneBefore
    <3>3. EvaluationsOfNow'
      BY <3>1, <3>2 DEF AutoInv, EvaluationsOfNow, NoneBefore
    <3>4. QED
      BY <3>1, <3>3 DEF AutoInv, VerdictOfOneStrategy
  <2>2. ASSUME NEW s \in ExampleStrategies \cup {RegulatedStrategy, Disabled}, UpdateStrategy(s) PROVE AutoInv'
    BY <2>2, StrategiesGraded DEF UpdateStrategy, WriteLock, AutoInv, EvaluationsOfNow, VerdictOfOneStrategy
  <2>3. CASE UNCHANGED autoVars
    BY <2>3 DEF autoVars, AutoInv, EvaluationsOfNow, VerdictOfOneStrategy
  <2>4. QED
    BY <2>1, <2>2, <2>3, EvaluateKeeps DEF AutoNext
<1>3. AutoInv => VerdictOfOneStrategy
  BY DEF AutoInv
<1>4. QED
  BY <1>1, <1>2, <1>3, PTL DEF AutoSpec
=============================================================================
