--------------------------- MODULE TraceProcessor ---------------------------
(***************************************************************************)
(* The trace processor (integration/example.go): an event goes into an     *)
(* incremental Merkle tree and then to the queue, a certificate takes the  *)
(* root and waits for its anchoring; and the batch event processor, which  *)
(* fills the tree by batches.                                              *)
(*                                                                         *)
(* IncrementalTree, MemoryQueue and BatchAnchor model the three parts; here*)
(* a tree is the sequence of its leaves and a root is how many it covers,  *)
(* the queue is what it holds, and the anchorer is what AnchorPromise      *)
(* says of it.                                                             *)
(*                                                                         *)
(* BatchEventProcessor has no mutex (example.go:303), so its AddEvent and  *)
(* Flush are modelled for the one caller it can have, one call at a time.  *)
(***************************************************************************)
EXTENDS Integers, Sequences, FiniteSets

CONSTANTS
  JsonEvents,    \* event data that is JSON
  HashEvents,    \* event data that is not, as the bare hash of the example
  BatchEvents,   \* what the batch event processor is given
  Commitments,         \* certificates to commit
  TreeCapacity,  \* 1 << MerkleMaxDepth
  QueueSlots,    \* the queue's buffer
  EventBatch,    \* BatchEventProcessor.batchSize
  MaxTries       \* bound on the calls of ProcessEvent for an event

\* an event has an id of its own, whichever of the two processors is given it
ASSUME TraceAssumption ==
  /\ IsFiniteSet(JsonEvents)
  /\ BatchEvents \cap (JsonEvents \cup HashEvents) = {}
  /\ TreeCapacity \in Nat /\ QueueSlots \in Nat /\ EventBatch \in Nat /\ MaxTries \in Nat

VARIABLES
  leaves,        \* the leaves of merkleTree
  eventCalls,    \* event -> "idle", "appended" or the answer of its last call
  tries,         \* event -> calls of ProcessEvent
  messages,      \* messages in the queue, one for each publication
  handled,       \* how many messages handleEventStore has logged
  commits,       \* cert -> its CommitCertificate
  batched,       \* BatchEventProcessor.events
  status         \* "running", "stopping" and "stopped" as Stop gets on, or "crashed"

traceVars == <<leaves, eventCalls, tries, messages, handled, commits, batched, status>>

SingleEvents == JsonEvents \cup HashEvents
NotCommitted == [state |-> "none"]
InTree == {leaves[i] : i \in DOMAIN leaves}
Acknowledged == {e \in SingleEvents : eventCalls[e] = "ok"}

TraceInit ==
  /\ leaves = << >> /\ messages = << >> /\ handled = 0 /\ batched = << >>
  /\ eventCalls = [e \in SingleEvents |-> "idle"]
  /\ tries = [e \in SingleEvents |-> 0]
  /\ commits = [c \in Commitments |-> NotCommitted]
  /\ status = "running"

----------------------------------------------------------------------------
(* Append and AppendBatch, as IncrementalTree has it: the capacity is      *)
(* checked, but past half of it the new leaf panics.                       *)
Appending(n) ==
  IF Len(leaves) + n > TreeCapacity THEN "refused"
  ELSE IF 2 * (Len(leaves) + n) > TreeCapacity THEN "panic" ELSE "appended"

\* nothing recovers a panic of the processor: the program ends
Panic ==
  /\ status' = "crashed"
  /\ UNCHANGED <<leaves, eventCalls, tries, messages, handled, commits, batched>>

(* ProcessEvent: the leaf, then the message.                               *)
AppendLeaf(e) ==
  /\ status # "crashed" /\ eventCalls[e] # "appended" /\ tries[e] < MaxTries
  /\ IF Appending(1) = "panic" THEN Panic
     ELSE /\ tries' = [tries EXCEPT ![e] = @ + 1]
          /\ IF Appending(1) = "appended"
             THEN leaves' = Append(leaves, e) /\ eventCalls' = [eventCalls EXCEPT ![e] = "appended"]
             ELSE eventCalls' = [eventCalls EXCEPT ![e] = "error"] /\ UNCHANGED leaves
          /\ UNCHANGED <<messages, handled, commits, batched, status>>

(* Publish takes what the queue has room for, marshals only JSON, as the   *)
(* field is a json.RawMessage, and refuses once the workers are stopped.   *)
Publishes(e) == status = "running" /\ e \in JsonEvents /\ Len(messages) < QueueSlots

PublishEvent(e) ==
  /\ status # "crashed" /\ eventCalls[e] = "appended"
  /\ IF Publishes(e)
     THEN messages' = Append(messages, e) /\ eventCalls' = [eventCalls EXCEPT ![e] = "ok"]
     ELSE eventCalls' = [eventCalls EXCEPT ![e] = "error"] /\ UNCHANGED messages
  /\ UNCHANGED <<leaves, tries, handled, commits, batched, status>>

\* stores nothing
handleEventStore ==
  /\ status = "running" /\ messages # << >>
  /\ handled' = handled + 1 /\ messages' = Tail(messages)
  /\ UNCHANGED <<leaves, eventCalls, tries, commits, batched, status>>

----------------------------------------------------------------------------
RootNow_Exclusive == Len(leaves) - 1

RootNow == Len(leaves)

(* CommitCertificate: the root first, an error for an empty tree; then     *)
(* SubmitAndWait, which the anchorer refuses once it is stopped itself.    *)
BeginCommit(c) ==
  /\ status # "crashed" /\ commits[c] = NotCommitted
  /\ commits' = [commits EXCEPT ![c] =
       [state |-> IF leaves # << >> /\ status # "stopped" THEN "waiting" ELSE "error",
        root |-> RootNow, acknowledged |-> Acknowledged]]
  /\ UNCHANGED <<leaves, eventCalls, tries, messages, handled, batched, status>>

\* the anchorer's answer, a failure of the chain, or the end of the context or of the wait
EndCommit(c, answer) ==
  /\ status # "crashed" /\ commits[c].state = "waiting"
  /\ commits' = [commits EXCEPT ![c].state = answer]
  /\ UNCHANGED <<leaves, eventCalls, tries, messages, handled, batched, status>>

----------------------------------------------------------------------------
(* Flush: the whole batch or none of it; a batch that does not fit stays   *)
(* and grows.                                                              *)
Flushed(events) == IF Appending(Len(events)) = "appended" THEN << >> ELSE events

FlushBatch(events) ==
  IF Appending(Len(events)) = "panic" THEN Panic
  ELSE /\ batched' = Flushed(events)
       /\ leaves' = IF Appending(Len(events)) = "appended" THEN leaves \o events ELSE leaves
       /\ UNCHANGED <<eventCalls, tries, messages, handled, commits, status>>

\* AddEvent, which flushes a full batch
AddToBatch(e) ==
  /\ status # "crashed" /\ e \notin InTree /\ \A i \in DOMAIN batched : batched[i] # e
  /\ LET events == Append(batched, e) IN
       IF Len(events) >= EventBatch THEN FlushBatch(events)
       ELSE batched' = events /\ UNCHANGED <<leaves, eventCalls, tries, messages, handled, commits, status>>

\* flushInterval is kept and never used: Flush is up to the caller
Flush == status # "crashed" /\ batched # << >> /\ FlushBatch(batched)

(* Stop: the worker pool, whose queue drops what the workers do not take   *)
(* before they see the end of their context, and then the anchorer.        *)
StopWorkers ==
  /\ status = "running" /\ status' = "stopping"
  /\ \E k \in 0..Len(messages) : handled' = handled + k
  /\ messages' = << >>
  /\ UNCHANGED <<leaves, eventCalls, tries, commits, batched>>

StopAnchorer ==
  /\ status = "stopping" /\ status' = "stopped"
  /\ UNCHANGED <<leaves, eventCalls, tries, messages, handled, commits, batched>>

TraceNext ==
  \/ \E e \in SingleEvents : AppendLeaf(e) \/ PublishEvent(e)
  \/ \E c \in Commitments : BeginCommit(c) \/ \E a \in {"success", "failure", "gone"} : EndCommit(c, a)
  \/ \E e \in BatchEvents : AddToBatch(e)
  \/ handleEventStore \/ Flush \/ StopWorkers \/ StopAnchorer

TraceSpec == TraceInit /\ [][TraceNext]_traceVars

----------------------------------------------------------------------------
(* Events and certificates of several callers (example.go:112, 133): the   *)
(* root of a certificate covers each event that was acknowledged before    *)
(* its commit began; a message is never in the queue without its leaf, one *)
(* for each; an event of the batch processor is in its batch or in the     *)
(* tree, and once.                                                         *)
CommittedRootCovers ==
  /\ \A c \in Commitments : commits[c].state = "success" =>
       commits[c].acknowledged \subseteq {leaves[i] : i \in 1..commits[c].root}
  /\ \A i \in DOMAIN messages : messages[i] \in InTree
  /\ Cardinality({i \in DOMAIN leaves : leaves[i] \in JsonEvents}) >= Len(messages) + handled
  /\ \A e \in BatchEvents :
       Cardinality({i \in DOMAIN leaves : leaves[i] = e}) + Cardinality({i \in DOMAIN batched : batched[i] = e}) <= 1
=============================================================================
