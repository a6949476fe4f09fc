------------------------------ MODULE EventDAG ------------------------------
(***************************************************************************)
(* The causal graph of a trace (dag/dag.go) and its validator              *)
(* (dag/validator.go), used by several goroutines at once.                 *)
(*                                                                         *)
(* Events are numbered in the order in which they were hashed, so that an  *)
(* event names only smaller ones; the hash of event e is e, and compares   *)
(* as e does.  Which events an event names, and the clock that stamped it, *)
(* are chosen at the start.  Events reach the graph in any order, or never.*)
(*                                                                         *)
(* The lock is Go's RWMutex: a writer first announces itself and then      *)
(* waits for the readers inside; once it has announced itself no RLock     *)
(* succeeds, not even one by a goroutine that already holds the lock.      *)
(***************************************************************************)
EXTENDS Integers, Sequences, FiniteSets, SequencesExt, FiniteSetsExt, Functions

CONSTANTS
  NumEvents,   \* events of the trace
  Clocks,      \* the ways the clocks may have stamped the events
  Callers      \* goroutines that use the graph

ASSUME DagAssumption == NumEvents \in Nat \ {0} /\ Clocks \subseteq [1 .. NumEvents -> Int]

VARIABLES
  hashed,        \* the predecessors each event had when its hash was computed
  listed,        \* event -> PrevEventHashes, as it is in memory now
  time,          \* event -> Timestamp
  nodes,         \* the keys of nodes
  predecessors,  \* event -> Node.Predecessors
  successors,    \* event -> Node.Successors
  depth,         \* event -> Node.Depth
  roots, leaves, \* the two lists, as sets: no node is appended twice
  caller,        \* what each goroutine is doing
  arrived        \* history: the events in the order they were added

dagVars == <<hashed, listed, time, nodes, predecessors, successors, depth, roots,
             leaves, caller, arrived>>

Events == 1 .. NumEvents
Idle == [at |-> "idle"]

----------------------------------------------------------------------------
(* The lock.                                                               *)

WriterWaiting == \E c \in Callers : caller[c].at = "announced"
WriterInTurn(c) == \A d \in Callers \ {c} : caller[d].at # "announced"
Inside_VerifyDAGToo == {c \in Callers : caller[c].at \in {"parallel", "sorted"}}
Inside == {c \in Callers : caller[c].at = "parallel"}
CanRLock == ~WriterWaiting

----------------------------------------------------------------------------
(* Reading the graph.                                                      *)

(* An event's hash covers the list of its predecessors in its order.       *)
VerifyEventHash(e) == listed[e] = hashed[e]

OrphanNodes == {e \in nodes : ~(Range(listed[e]) \subseteq nodes)}
InvalidNodes == {e \in nodes : ~VerifyEventHash(e)}

(* Visiting the events of a list, one after the other.                     *)
VisitAll(visit, result, list) ==
  LET upTo[k \in 0 .. Len(list)] ==
        IF k = 0 THEN result ELSE visit[list[k]][upTo[k - 1]]
  IN  upTo[Len(list)]

(* visit takes a node, and what was visited to what is visited then.       *)
Visiting(visit) ==
  [e \in Events |-> [result \in Seq(Events) |->
     IF e \in Range(result) THEN result ELSE Append(VisitAll(visit, result, predecessors[e]), e)]]

(* n limits the calls within calls, which are never more than the events.  *)
Visit[n \in Nat] ==
  IF n = 0 THEN [e \in Events |-> [result \in Seq(Events) |-> result]] ELSE Visiting(Visit[n - 1])

(* The order in which the map gives its nodes is the runtime's choice.     *)
TopologicalSorts == {VisitAll(Visit[NumEvents], << >>, order) : order \in SetToSeqs(nodes)}

(* What a walk from e meets: the smallest set that has what is next to e   *)
(* and to each of its members.                                             *)
Collect(next, e) ==
  {f \in Events : \A S \in SUBSET Events :
     Range(next[e]) \subseteq S /\ (\A g \in S : Range(next[g]) \subseteq S) => f \in S}

GetAncestors(e) == Collect(predecessors, e)
GetDescendants(e) == Collect(successors, e)
HasPath(e, f) == f = e \/ f \in GetDescendants(e)

GetEventsByDepth(d) == {e \in nodes : depth[e] = d}
ParallelGroups == {g \in {GetEventsByDepth(d) : d \in Range(depth)} : Cardinality(g) > 1}

ValidateCausalOrder(s) ==
  \A k \in 1 .. Len(s) : Range(listed[s[k]]) \subseteq Range(SubSeq(s, 1, k - 1))

----------------------------------------------------------------------------
(* AddEvent.                                                               *)

(* A predecessor that has not arrived is skipped.                          *)
Found(e) ==
  LET upTo[k \in 0 .. Len(listed[e])] ==
        IF k = 0 THEN << >>
        ELSE IF listed[e][k] \in nodes THEN Append(upTo[k - 1], listed[e][k]) ELSE upTo[k - 1]
  IN  upTo[Len(listed[e])]

DepthBelow_LastFound(preds) == IF preds = << >> THEN 0 ELSE depth[Last(preds)] + 1
DepthBelow(preds) == Max({0} \cup {depth[p] + 1 : p \in Range(preds)})

(* The walk from e comes back to an event that it is still in.             *)
HasCycleFrom(next, e) == \E f \in {e} \cup Collect(next, e) : f \in Collect(next, f)

(* updateLeaves.                                                           *)
LeavesWith(next, e) == {l \in leaves \cup {e} : next[l] = << >>}

(* Lock: the caller is next in turn and from now on keeps readers out.     *)
AnnounceAdd(c, e) ==
  /\ caller[c] = Idle /\ WriterInTurn(c)
  /\ caller' = [caller EXCEPT ![c] = [at |-> "announced", event |-> e]]
  /\ UNCHANGED <<hashed, listed, time, nodes, predecessors, successors, depth, roots,
                 leaves, arrived>>

(* The body of AddEvent, once the readers have left, and the unlock.  An   *)
(* event that is in the graph is refused.                                  *)
AddEvent(c) ==
  /\ caller[c].at = "announced" /\ Inside = {}
  /\ caller' = [caller EXCEPT ![c] = Idle]
  /\ LET e    == caller[c].event
         next == [p \in Events |-> IF p \in Range(Found(e)) THEN Append(successors[p], e)
                                                           ELSE successors[p]]
     IN  IF e \in nodes
           THEN UNCHANGED <<nodes, predecessors, successors, depth, roots, leaves, arrived>>
           ELSE /\ predecessors' = [predecessors EXCEPT ![e] = Found(e)]
                /\ successors' = next
                /\ depth' = [depth EXCEPT ![e] = DepthBelow(Found(e))]
                /\ roots' = IF listed[e] = << >> THEN roots \cup {e} ELSE roots
                /\ leaves' = LeavesWith(next, e)
                /\ nodes' = IF HasCycleFrom(next, e) THEN nodes ELSE nodes \cup {e}
                /\ arrived' = Append(arrived, e)
  /\ UNCHANGED <<hashed, listed, time>>

----------------------------------------------------------------------------
(* Readers.  One that takes the lock once is a single step.                *)

(* GetParallelEvents takes the lock and calls GetEventsByDepth, which takes*)
(* it again.                                                               *)
EnterParallel(c) ==
  /\ caller[c] = Idle /\ CanRLock
  /\ caller' = [caller EXCEPT ![c] = [at |-> "parallel"]]
  /\ UNCHANGED <<hashed, listed, time, nodes, predecessors, successors, depth, roots,
                 leaves, arrived>>

GetParallelEvents(c) ==
  /\ caller[c].at = "parallel" /\ CanRLock
  /\ caller' = [caller EXCEPT ![c] = Idle]
  /\ UNCHANGED <<hashed, listed, time, nodes, predecessors, successors, depth, roots,
                 leaves, arrived>>

(* VerifyDAG takes the lock once for Size and the sort, and again for each *)
(* node; events may be added in between.                                   *)
VerifyDAGSort(c) ==
  /\ caller[c] = Idle /\ CanRLock
  /\ caller' = [caller EXCEPT ![c] = [at |-> "sorted", events |-> nodes]]
  /\ UNCHANGED <<hashed, listed, time, nodes, predecessors, successors, depth, roots,
                 leaves, arrived>>

InvalidHashes(S) == {e \in S : ~VerifyEventHash(e)}
MissingPredecessors_FirstOnly(S) == {e \in S : listed[e] # << >> /\ Head(listed[e]) \notin S}
MissingPredecessors(S) == {e \in S : ~(Range(listed[e]) \subseteq S)}
TimestampViolations(S) == {e \in S : \E p \in Range(predecessors[e]) : time[e] < time[p]}

VerifyDAGReport(c) ==
  /\ caller[c].at = "sorted" /\ CanRLock
  /\ caller' = [caller EXCEPT ![c] =
       [at |-> "reported", events |-> @.events,
        errors |-> InvalidHashes(@.events) \cup MissingPredecessors(@.events)
                   \cup TimestampViolations(@.events)]]
  /\ UNCHANGED <<hashed, listed, time, nodes, predecessors, successors, depth, roots,
                 leaves, arrived>>

VerifyDAGDone(c) ==
  /\ caller[c].at = "reported"
  /\ caller' = [caller EXCEPT ![c] = Idle]
  /\ UNCHANGED <<hashed, listed, time, nodes, predecessors, successors, depth, roots,
                 leaves, arrived>>

Ordered(s) ==
  CHOOSE t \in SetToSeqs(Range(s)) : \A j, k \in DOMAIN t : j < k => t[j] < t[k]

(* VerifyMergePoint sorts the event's own list, and takes no lock.         *)
VerifyMergePoint(c, e) ==
  /\ caller[c] = Idle /\ e \in nodes /\ Len(listed[e]) > 1
  /\ listed' = [listed EXCEPT ![e] = Ordered(@)]
  /\ UNCHANGED <<hashed, time, nodes, predecessors, successors, depth, roots, leaves,
                 caller, arrived>>

----------------------------------------------------------------------------
(* BuildDAGFromEvents: the orders in which it may add the events; sort.Slice *)
(* keeps no order among equal timestamps.                                  *)
BuildOrders(events) ==
  {s \in SetToSeqs(events) : \A j, k \in DOMAIN s : j < k => time[s[j]] <= time[s[k]]}

BuiltLinks(s) ==
  {link \in Events \X Events :
     \E j, k \in DOMAIN s : j < k /\ link = <<s[j], s[k]>> /\ s[j] \in Range(listed[s[k]])}

----------------------------------------------------------------------------
DagInit ==
  /\ hashed \in {h \in [Events -> UNION {SetToSeqs(S) : S \in SUBSET Events}] :
                   \A e \in Events : Range(h[e]) \subseteq 1 .. e - 1}
  /\ listed = hashed
  /\ time \in Clocks
  /\ nodes = {} /\ roots = {} /\ leaves = {}
  /\ predecessors = [e \in Events |-> << >>]
  /\ successors = [e \in Events |-> << >>]
  /\ depth = [e \in Events |-> 0]
  /\ caller = [c \in Callers |-> Idle]
  /\ arrived = << >>

Continue(c) ==
  \/ AddEvent(c)
  \/ GetParallelEvents(c)
  \/ VerifyDAGReport(c)
  \/ VerifyDAGDone(c)

DagNext ==
  \E c \in Callers :
    \/ \E e \in Events : AnnounceAdd(c, e) \/ VerifyMergePoint(c, e)
    \/ EnterParallel(c)
    \/ VerifyDAGSort(c)
    \/ Continue(c)

(* A call under way goes on when the lock lets it.                         *)
DagFairness == \A c \in Callers : SF_dagVars(Continue(c))

DagSpec == DagInit /\ [][DagNext]_dagVars

----------------------------------------------------------------------------
(* The graph is what the order of arrival makes of it (dag.go:55): an event*)
(* is linked, in both directions, to the predecessors that were there      *)
(* before it and to no other; its depth is the longest chain of links above*)
(* it; the leaves are the nodes nothing has followed.                      *)
ArrivedBefore(p, e) ==
  \E j, k \in DOMAIN arrived : j < k /\ arrived[j] = p /\ arrived[k] = e

GraphFollowsArrival ==
  /\ nodes = Range(arrived)
  /\ leaves = {e \in nodes : \A f \in nodes : ~(ArrivedBefore(e, f) /\ e \in Range(listed[f]))}
  /\ \A e \in nodes :
       /\ Range(predecessors[e]) = {p \in Range(listed[e]) : ArrivedBefore(p, e)}
       /\ \A f \in nodes : f \in GetAncestors(e) <=> e \in GetDescendants(f)
       /\ depth[e] = 0 <=> predecessors[e] = << >>
       /\ \A p \in GetAncestors(e) : depth[p] < depth[e]
       /\ \A d \in 0 .. depth[e] - 1 : \E p \in GetAncestors(e) : depth[p] = d

(* If every event arrived after those it names, any topological sort is a  *)
(* causal order and no event of a parallel group names another, directly or*)
(* not (dag.go:203, dag.go:247); and building from a list makes every link *)
(* when clocks rise along them (validator.go:241).                         *)
InOrder == \A e \in nodes : \A p \in Range(listed[e]) : ArrivedBefore(p, e)

InOrderIsCausal ==
  /\ InOrder => /\ \A s \in TopologicalSorts : ValidateCausalOrder(s)
                /\ \A g \in ParallelGroups : \A e, f \in g : ~(e # f /\ HasPath(e, f))
  /\ (\A e \in nodes : \A p \in Range(listed[e]) : time[p] < time[e]) =>
       \A s \in BuildOrders(nodes) :
         BuiltLinks(s) = {link \in nodes \X nodes : link[1] \in Range(listed[link[2]])}

(* The two together: what the order of arrival decides, and what it must   *)
(* not (dag.go:80, 203).                                                   *)
ArrivalIsKept == GraphFollowsArrival /\ InOrderIsCausal

(* A report without errors stays true of its events whatever is added      *)
(* later, unless VerifyMergePoint reorders the list an event was hashed    *)
(* with, which makes Verify call the event invalid from then on            *)
(* (validator.go:151).                                                     *)
CleanReportLasts ==
  \A c \in Callers : caller[c].at = "reported" /\ caller[c].errors = {} =>
    \A e \in caller[c].events :
      /\ e \notin OrphanNodes
      /\ e \in InvalidNodes => (Len(hashed[e]) > 1 /\ hashed[e] # Ordered(hashed[e]))

Jammed == WriterWaiting /\ \E c \in Callers : caller[c].at = "parallel"

(* Every call returns, unless it meets a GetParallelEvents between its two *)
(* RLocks with a writer waiting (dag.go:247): those two, and all who come  *)
(* after them, wait for ever.                                              *)
CallsReturn ==
  \A c \in Callers : caller[c] # Idle ~> (caller[c] = Idle \/ Jammed)
=============================================================================
