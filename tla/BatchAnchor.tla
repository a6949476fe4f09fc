----------------------------- MODULE BatchAnchor -----------------------------
(***************************************************************************)
(* anchor/batch.go: certificate roots are collected, anchored together as  *)
(* one Merkle root, and each caller is told how the anchoring went.        *)
(*                                                                         *)
(* flush() runs in three places: the ticker of flushLoop, a goroutine      *)
(* that a Submit starts when it finds the batch full, and Stop.  Each      *)
(* takes the whole of pendingItems under itemsMu, then anchors it outside  *)
(* the mutex.  Every mutex section is one action.                          *)
(*                                                                         *)
(* The order of the items within a batch only decides their proof index    *)
(* and is left out; MerkleTree has the tree of a batch.  The Anchorer is   *)
(* external: it honours its context, and an error may hide a transaction   *)
(* that went through (anchor/ethereum.go waits for the receipt after       *)
(* sending).                                                               *)
(***************************************************************************)
EXTENDS Naturals, Sequences, FiniteSets

CONSTANTS
  Items,         (* calls of SubmitAndWait, an AnchorItem each             *)
  MaxBatchSize,  (* config.MaxBatchSize                                    *)
  RetryCount     (* config.RetryCount                                      *)

ASSUME BatchAssumption ==
  /\ IsFiniteSet(Items)
  /\ MaxBatchSize \in Nat \ {0}
  /\ RetryCount \in Nat

VARIABLES
  client,     (* where each SubmitAndWait is                               *)
  pending,    (* pendingItems                                              *)
  spawned,    (* goroutines of Submit that have not run flush() yet        *)
  batches,    (* batches in the order of creation                          *)
  result,     (* what each ResultChan was sent                             *)
  cancelled,  (* ba.ctx is done                                            *)
  looping,    (* flushLoop has not returned                                *)
  stop,       (* where Stop is                                             *)
  stats       (* TotalItems, SuccessfulItems, FailedItems                  *)

vars == <<client, pending, spawned, batches, result, cancelled, looping, stop, stats>>

closed == stop # "running"

Accepted == {i \in Items : client[i] \notin {"idle", "refused"}}

Batch == [items : SUBSET Items, by : {"spawned", "loop", "stop"},
          pc : {"calling", "sent", "count", "done"},
          status : {"anchoring", "anchored", "failed"},
          attempt : 0 .. RetryCount, landed : BOOLEAN]

Done(b) == batches[b].pc = "done"
Busy(agent) == \E b \in DOMAIN batches : batches[b].by = agent /\ ~Done(b)

Init ==
  /\ client = [i \in Items |-> "idle"]
  /\ pending = {}
  /\ spawned = 0
  /\ batches = << >>
  /\ result = [i \in Items |-> "none"]
  /\ cancelled = FALSE
  /\ looping = TRUE
  /\ stop = "running"
  /\ stats = [total |-> 0, successful |-> 0, failed |-> 0]

----------------------------------------------------------------------------
(* Submit and SubmitAndWait.  A caller that waits takes its result, or      *)
(* leaves at the end of its context or after AnchorTimeout; either way it  *)
(* touches nothing that others see, and its channel keeps a late result.   *)

IsFull(S) == Cardinality(S) >= MaxBatchSize

Accepts == ~closed

Submit(i) ==
  /\ client[i] = "idle"
  /\ Accepts
  /\ pending' = pending \union {i}
  /\ client' = [client EXCEPT ![i] = IF IsFull(pending') THEN "full" ELSE "submitted"]
  /\ UNCHANGED <<spawned, batches, result, cancelled, looping, stop, stats>>

SubmitRefused(i) ==
  /\ client[i] = "idle"
  /\ ~Accepts
  /\ client' = [client EXCEPT ![i] = "refused"]
  /\ UNCHANGED <<pending, spawned, batches, result, cancelled, looping, stop, stats>>

(* The rest of Submit, after itemsMu is unlocked.                          *)
CountItem(i) ==
  /\ client[i] \in {"submitted", "full"}
  /\ client' = [client EXCEPT ![i] = "waiting"]
  /\ stats' = [stats EXCEPT !.total = @ + 1]
  /\ spawned' = IF client[i] = "full" THEN spawned + 1 ELSE spawned
  /\ UNCHANGED <<pending, batches, result, cancelled, looping, stop>>

----------------------------------------------------------------------------
(* flush and createBatch: nothing to do, or all pending items in a batch.  *)

NewBatch(S, agent) ==
  [items |-> S, by |-> agent, pc |-> "calling", status |-> "anchoring",
   attempt |-> 0, landed |-> FALSE]

StillPending_All(S) == S

StillPending(S) == {}

Flush(agent) ==
  /\ batches' = IF pending = {} THEN batches ELSE Append(batches, NewBatch(pending, agent))
  /\ pending' = StillPending(pending)

SpawnedFlush ==
  /\ spawned > 0
  /\ spawned' = spawned - 1
  /\ Flush("spawned")
  /\ UNCHANGED <<client, result, cancelled, looping, stop, stats>>

(* The select of flushLoop may still choose the ticker when ba.ctx is      *)
(* done.                                                                   *)
Tick ==
  /\ looping
  /\ ~Busy("loop")
  /\ pending # {}
  /\ Flush("loop")
  /\ UNCHANGED <<client, spawned, result, cancelled, looping, stop, stats>>

LoopReturns ==
  /\ looping
  /\ ~Busy("loop")
  /\ cancelled
  /\ looping' = FALSE
  /\ UNCHANGED <<client, pending, spawned, batches, result, cancelled, stop, stats>>

----------------------------------------------------------------------------
(* anchorBatch.                                                            *)

SendTransaction(b) ==
  /\ batches[b].pc = "calling"
  /\ ~cancelled
  /\ batches' = [batches EXCEPT ![b].pc = "sent", ![b].landed = TRUE]
  /\ UNCHANGED <<client, pending, spawned, result, cancelled, looping, stop, stats>>

(* notifyResults: a ResultChan has room for one result and is sent one.    *)
Notify(b, answer) ==
  result' = [i \in Items |-> IF i \in batches[b].items THEN answer ELSE result[i]]

AnchorSucceeds(b) ==
  /\ batches[b].pc = "sent"
  /\ ~cancelled
  /\ batches' = [batches EXCEPT ![b].pc = "count", ![b].status = "anchored"]
  /\ Notify(b, "success")
  /\ UNCHANGED <<client, pending, spawned, cancelled, looping, stop, stats>>

Retries(b) == batches[b].attempt < RetryCount

(* An error of any kind is retried with the same context, whether or not   *)
(* the transaction was sent.                                               *)
AttemptFails(b) ==
  /\ batches[b].pc \in {"calling", "sent"}
  /\ Retries(b)
  /\ batches' = [batches EXCEPT ![b].pc = "calling", ![b].attempt = @ + 1]
  /\ UNCHANGED <<client, pending, spawned, result, cancelled, looping, stop, stats>>

LastAnswer_IgnoresError(b) == IF batches[b].landed THEN "failure" ELSE "success"

(* lastErr decides, even if a transaction of a failed attempt landed.      *)
LastAnswer(b) == "failure"

AnchorFails(b) ==
  /\ batches[b].pc \in {"calling", "sent"}
  /\ ~Retries(b)
  /\ batches' = [batches EXCEPT ![b].pc = "count", ![b].status = "failed"]
  /\ Notify(b, LastAnswer(b))
  /\ UNCHANGED <<client, pending, spawned, cancelled, looping, stop, stats>>

Outcomes(b) == Cardinality(batches[b].items)

UpdateStats(b) ==
  /\ batches[b].pc = "count"
  /\ stats' = IF batches[b].status = "anchored"
                THEN [stats EXCEPT !.successful = @ + Outcomes(b)]
                ELSE [stats EXCEPT !.failed = @ + Outcomes(b)]
  /\ batches' = [batches EXCEPT ![b].pc = "done"]
  /\ UNCHANGED <<client, pending, spawned, result, cancelled, looping, stop>>

----------------------------------------------------------------------------
(* Stop, and the end of the context that was given to Start.               *)

Close ==
  /\ stop = "running"
  /\ stop' = "closed"
  /\ UNCHANGED <<client, pending, spawned, batches, result, cancelled, looping, stats>>

Cancel ==
  /\ stop = "closed"
  /\ stop' = "cancelled"
  /\ cancelled' = TRUE
  /\ UNCHANGED <<client, pending, spawned, batches, result, looping, stats>>

StopFlush_Skipped ==
  /\ stop = "cancelled"
  /\ stop' = "flushed"
  /\ UNCHANGED <<client, pending, spawned, batches, result, cancelled, looping, stats>>

StopFlush ==
  /\ stop = "cancelled"
  /\ stop' = "flushed"
  /\ Flush("stop")
  /\ UNCHANGED <<client, spawned, result, cancelled, looping, stats>>

(* wg.Wait waits for flushLoop only.                                       *)
StopReturns ==
  /\ stop = "flushed"
  /\ ~Busy("stop")
  /\ ~looping
  /\ stop' = "stopped"
  /\ UNCHANGED <<client, pending, spawned, batches, result, cancelled, looping, stats>>

ParentCancelled ==
  /\ ~cancelled
  /\ cancelled' = TRUE
  /\ UNCHANGED <<client, pending, spawned, batches, result, looping, stop, stats>>

----------------------------------------------------------------------------
ClientStep(i) == Submit(i) \/ SubmitRefused(i) \/ CountItem(i)
AnchorStep(b) == SendTransaction(b) \/ AnchorSucceeds(b) \/ AttemptFails(b) \/ AnchorFails(b)
BatchStep(b) == AnchorStep(b) \/ UpdateStats(b)
LoopStep == Tick \/ LoopReturns
StopStep == Cancel \/ StopFlush \/ StopReturns

Next ==
  \/ \E i \in Items : ClientStep(i)
  \/ \E b \in DOMAIN batches : BatchStep(b)
  \/ SpawnedFlush
  \/ LoopStep
  \/ Close
  \/ StopStep
  \/ ParentCancelled

Spec == Init /\ [][Next]_vars

(* Goroutines run, the ticker fires, and Anchor returns: its context ends  *)
(* after AnchorTimeout.  Nobody has to submit or to call Stop.             *)
FairSpec ==
  /\ Spec
  /\ \A i \in Items : WF_vars(CountItem(i))
  /\ \A b \in 1 .. Cardinality(Items) : WF_vars(b \in DOMAIN batches /\ BatchStep(b))
  /\ WF_vars(SpawnedFlush)
  /\ WF_vars(LoopStep)
  /\ WF_vars(StopStep)

----------------------------------------------------------------------------
TypeOK ==
  /\ client \in [Items -> {"idle", "refused", "submitted", "full", "waiting"}]
  /\ pending \subseteq Items
  /\ spawned \in Nat
  /\ batches \in Seq(Batch)
  /\ result \in [Items -> {"none", "success", "failure"}]
  /\ cancelled \in BOOLEAN
  /\ looping \in BOOLEAN
  /\ stop \in {"running", "closed", "cancelled", "flushed", "stopped"}
  /\ stats \in [total : Nat, successful : Nat, failed : Nat]

(* Whoever flushes, an accepted item is in pendingItems or in exactly one  *)
(* batch: none is lost and none anchored with two batches (batch.go:240).  *)
ItemsInOnePlace ==
  /\ pending \union UNION {batches[b].items : b \in DOMAIN batches} = Accepted
  /\ \A b \in DOMAIN batches : pending \intersect batches[b].items = {}
  /\ \A b, c \in DOMAIN batches : b # c => batches[b].items \intersect batches[c].items = {}

(* A full batch does not wait for the ticker: as long as pendingItems is   *)
(* full, a flush is on its way (batch.go:185).                             *)
FullIsFlushed ==
  Cardinality(pending) >= MaxBatchSize => spawned > 0 \/ \E i \in Items : client[i] = "full"

(* Once Stop has flushed, no item is left in pendingItems and none can be  *)
(* added, although submitters raced with it (batch.go:158).                *)
StoppedIsDrained == stop \in {"flushed", "stopped"} => pending = {}

(* TotalItems is counted after the item can be flushed and the outcome     *)
(* after the answers, so Stats can be ahead or behind; when no call is     *)
(* under way it adds up (batch.go:189, 387).                               *)
StatsAddUp ==
  (\A i \in Items : client[i] \notin {"submitted", "full"}) /\ (\A b \in DOMAIN batches : Done(b)) =>
    stats.total = stats.successful + stats.failed + Cardinality(pending)

(* Whoever flushes, and whenever Stop comes, every accepted item can be    *)
(* found in one place, on its way out when it has to be, and in the        *)
(* statistics (batch.go:156, 185, 240, 387).                               *)
ItemsAreAccountedFor == TypeOK /\ ItemsInOnePlace /\ FullIsFlushed /\ StoppedIsDrained /\ StatsAddUp

(* Every accepted item is sent a result, by the ticker, by the full batch  *)
(* or by Stop; unless the context given to Start has ended and nobody has  *)
(* called Stop, when flushLoop is gone and pendingItems stays (batch.go:   *)
(* 224).                                                                   *)
AcceptedIsAnswered ==
  \A i \in Items :
    (i \in Accepted) ~> (result[i] # "none" \/ (cancelled /\ ~closed))

----------------------------------------------------------------------------
(* The promise to callers: items are answered once, and with success only  *)
(* when their batch root is on the chain (batch.go:362).                   *)
Promise == INSTANCE AnchorPromise WITH
  accepted <- Accepted,
  anchored <- UNION {batches[b].items : b \in {c \in DOMAIN batches : batches[c].landed}},
  answer <- result

ImplementsPromise == Promise!Spec
=============================================================================
