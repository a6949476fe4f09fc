-------------------------- MODULE BatchAnchorProofs --------------------------
(***************************************************************************)
(* Proofs about BatchAnchor, for any number of callers, any batch size and *)
(* any number of retries.                                                  *)
(*                                                                         *)
(* Every step does one of three things to the items: a caller adds one to  *)
(* pending, a flush moves all of pending to a new batch, or a batch makes  *)
(* progress with the items it has.  The inductive invariant says that the  *)
(* items are split between pending and the batches (ItemsInOnePlace), that *)
(* only a batch that is past its anchoring has answered (AnsweredByBatch)  *)
(* and that a transaction was sent before it succeeds (SentHasLanded).     *)
(***************************************************************************)
EXTENDS BatchAnchor, FiniteSetTheorems, TLAPS

USE BatchAssumption DEF BatchAssumption

Agents == {"spawned", "loop", "stop"}
Past == {"count", "done"}

AnsweredByBatch ==
  \A i \in Items : result[i] # "none" =>
    \E b \in DOMAIN batches : i \in batches[b].items /\ batches[b].pc \in Past

SentHasLanded == \A b \in DOMAIN batches : batches[b].pc = "sent" => batches[b].landed

IInv ==
  /\ TypeOK
  /\ ItemsInOnePlace
  /\ FullIsFlushed
  /\ StoppedIsDrained
  /\ AnsweredByBatch
  /\ SentHasLanded

----------------------------------------------------------------------------
(* The two ways in which batches changes: one is updated, or one is added. *)

Updated(b, rec) ==
  /\ batches' \in Seq(Batch)
  /\ DOMAIN batches' = DOMAIN batches
  /\ batches'[b] = rec
  /\ \A c \in DOMAIN batches : c # b => batches'[c] = batches[c]

LEMMA UpdateFacts ==
  ASSUME TypeOK, NEW b \in DOMAIN batches, NEW rec \in Batch,
         batches' = [batches EXCEPT ![b] = rec]
  PROVE  Updated(b, rec)
BY DEF TypeOK, Updated

Added(rec) ==
  LET n == Len(batches) + 1 IN
  /\ batches' \in Seq(Batch)
  /\ DOMAIN batches' = DOMAIN batches \union {n}
  /\ n \notin DOMAIN batches
  /\ batches'[n] = rec
  /\ \A c \in DOMAIN batches : batches'[c] = batches[c]

LEMMA AppendFacts ==
  ASSUME TypeOK, NEW rec \in Batch, batches' = Append(batches, rec)
  PROVE  Added(rec)
BY DEF TypeOK, Added

LEMMA FlushFacts ==
  ASSUME TypeOK, NEW agent \in Agents, Flush(agent)
  PROVE  /\ pending' = {}
         /\ batches' \in Seq(Batch)
         /\ \/ pending = {} /\ batches' = batches
            \/ Added(NewBatch(pending, agent))
<1>1. NewBatch(pending, agent) \in Batch
  BY DEF TypeOK, NewBatch, Batch, Agents
<1>2. CASE pending = {}
  BY <1>2 DEF Flush, StillPending, TypeOK
<1>3. CASE pending # {}
  <2>1. batches' = Append(batches, NewBatch(pending, agent))
    BY <1>3 DEF Flush
  <2>2. Added(NewBatch(pending, agent))
    BY <1>1, <2>1, AppendFacts
  <2>3. QED
    BY <2>2 DEF Flush, StillPending, Added
<1>4. QED
  BY <1>2, <1>3

(* What a step of a batch does to it: it keeps its items.                  *)
Progress(b) ==
  \E rec \in Batch :
    /\ Updated(b, rec)
    /\ rec.items = batches[b].items
    /\ rec.by = batches[b].by
    /\ batches[b].landed => rec.landed
    /\ rec.pc = "sent" => rec.landed
    /\ batches[b].pc \in Past => rec.pc \in Past

LEMMA BatchIsBatch ==
  ASSUME TypeOK, NEW b \in DOMAIN batches
  PROVE  batches[b] \in Batch
BY DEF TypeOK

LEMMA SendFacts ==
  ASSUME TypeOK, NEW b \in DOMAIN batches, SendTransaction(b)
  PROVE  Updated(b, [batches[b] EXCEPT !.pc = "sent", !.landed = TRUE])
<1> DEFINE rec == [batches[b] EXCEPT !.pc = "sent", !.landed = TRUE]
<1>1. rec \in Batch
  BY BatchIsBatch DEF Batch
<1>2. batches' = [batches EXCEPT ![b] = rec]
  BY DEF SendTransaction, TypeOK
<1>3. QED
  BY <1>1, <1>2, UpdateFacts

LEMMA SucceedFacts ==
  ASSUME TypeOK, NEW b \in DOMAIN batches, AnchorSucceeds(b)
  PROVE  Updated(b, [batches[b] EXCEPT !.pc = "count", !.status = "anchored"])
<1> DEFINE rec == [batches[b] EXCEPT !.pc = "count", !.status = "anchored"]
<1>1. rec \in Batch
  BY BatchIsBatch DEF Batch
<1>2. batches' = [batches EXCEPT ![b] = rec]
  BY DEF AnchorSucceeds, TypeOK
<1>3. QED
  BY <1>1, <1>2, UpdateFacts

LEMMA AttemptFacts ==
  ASSUME TypeOK, NEW b \in DOMAIN batches, AttemptFails(b)
  PROVE  Updated(b, [batches[b] EXCEPT !.pc = "calling", !.attempt = batches[b].attempt + 1])
<1> DEFINE rec == [batches[b] EXCEPT !.pc = "calling", !.attempt = batches[b].attempt + 1]
<1>1. rec \in Batch
  BY BatchIsBatch DEF Batch, AttemptFails, Retries
<1>2. batches' = [batches EXCEPT ![b] = rec]
  BY DEF AttemptFails, TypeOK
<1>3. QED
  BY <1>1, <1>2, UpdateFacts

LEMMA FailFacts ==
  ASSUME TypeOK, NEW b \in DOMAIN batches, AnchorFails(b)
  PROVE  Updated(b, [batches[b] EXCEPT !.pc = "count", !.status = "failed"])
<1> DEFINE rec == [batches[b] EXCEPT !.pc = "count", !.status = "failed"]
<1>1. rec \in Batch
  BY BatchIsBatch DEF Batch
<1>2. batches' = [batches EXCEPT ![b] = rec]
  BY DEF AnchorFails, TypeOK
<1>3. QED
  BY <1>1, <1>2, UpdateFacts

LEMMA CountFacts ==
  ASSUME TypeOK, NEW b \in DOMAIN batches, UpdateStats(b)
  PROVE  Updated(b, [batches[b] EXCEPT !.pc = "done"])
<1> DEFINE rec == [batches[b] EXCEPT !.pc = "done"]
<1>1. rec \in Batch
  BY BatchIsBatch DEF Batch
<1>2. batches' = [batches EXCEPT ![b] = rec]
  BY DEF UpdateStats, TypeOK
<1>3. QED
  BY <1>1, <1>2, UpdateFacts

LEMMA StepIsProgress ==
  ASSUME TypeOK, SentHasLanded, NEW b \in DOMAIN batches, BatchStep(b)
  PROVE  Progress(b)
<1> USE BatchIsBatch
<1>1. CASE SendTransaction(b)
  <2> DEFINE rec == [batches[b] EXCEPT !.pc = "sent", !.landed = TRUE]
  <2>1. /\ rec \in Batch
        /\ rec.items = batches[b].items /\ rec.by = batches[b].by /\ rec.landed = TRUE
        /\ rec.pc = "sent"
    BY DEF Batch
  <2>2. batches[b].pc = "calling"
    BY <1>1 DEF SendTransaction
  <2>3. QED
    BY <1>1, <2>1, <2>2, SendFacts DEF Progress, Past
<1>2. CASE AnchorSucceeds(b)
  <2> DEFINE rec == [batches[b] EXCEPT !.pc = "count", !.status = "anchored"]
  <2>1. /\ rec \in Batch
        /\ rec.items = batches[b].items /\ rec.by = batches[b].by
        /\ rec.landed = batches[b].landed /\ rec.pc = "count"
    BY DEF Batch
  <2>2. QED
    BY <1>2, <2>1, SucceedFacts DEF Progress, Past
<1>3. CASE AttemptFails(b)
  <2> DEFINE rec == [batches[b] EXCEPT !.pc = "calling", !.attempt = batches[b].attempt + 1]
  <2>1. /\ rec \in Batch
        /\ rec.items = batches[b].items /\ rec.by = batches[b].by
        /\ rec.landed = batches[b].landed /\ rec.pc = "calling"
    BY <1>3 DEF Batch, AttemptFails, Retries
  <2>2. batches[b].pc \in {"calling", "sent"}
    BY <1>3 DEF AttemptFails
  <2>3. QED
    BY <1>3, <2>1, <2>2, AttemptFacts DEF Progress, Past
<1>4. CASE AnchorFails(b)
  <2> DEFINE rec == [batches[b] EXCEPT !.pc = "count", !.status = "failed"]
  <2>1. /\ rec \in Batch
        /\ rec.items = batches[b].items /\ rec.by = batches[b].by
        /\ rec.landed = batches[b].landed /\ rec.pc = "count"
    BY DEF Batch
  <2>2. QED
    BY <1>4, <2>1, FailFacts DEF Progress, Past
<1>5. CASE UpdateStats(b)
  <2> DEFINE rec == [batches[b] EXCEPT !.pc = "done"]
  <2>1. /\ rec \in Batch
        /\ rec.items = batches[b].items /\ rec.by = batches[b].by
        /\ rec.landed = batches[b].landed /\ rec.pc = "done"
    BY DEF Batch
  <2>2. QED
    BY <1>5, <2>1, CountFacts DEF Progress, Past
<1>6. QED
  BY <1>1, <1>2, <1>3, <1>4, <1>5 DEF BatchStep, AnchorStep

(* The rest of the state in a step of a batch.                             *)
LEMMA StepOfBatch ==
  ASSUME TypeOK, NEW b \in DOMAIN batches, BatchStep(b)
  PROVE  /\ UNCHANGED <<client, pending, spawned, cancelled, looping, stop>>
         /\ stats' \in [total : Nat, successful : Nat, failed : Nat]
         /\ \/ result' = result
            \/ \E a \in {"success", "failure"} :
                 /\ batches[b].pc \in {"calling", "sent"}
                 /\ batches'[b].pc = "count"
                 /\ a = "success" => batches[b].pc = "sent"
                 /\ result' = [i \in Items |-> IF i \in batches[b].items THEN a ELSE result[i]]
<1> USE BatchIsBatch
<1>1. Outcomes(b) \in Nat
  <2>1. batches[b].items \subseteq Items
    BY DEF Batch
  <2>2. IsFiniteSet(batches[b].items)
    BY <2>1, FS_Subset
  <2>3. QED
    BY <2>2, FS_CardinalityType DEF Outcomes
<1>2. CASE SendTransaction(b) \/ AttemptFails(b)
  BY <1>2 DEF SendTransaction, AttemptFails, TypeOK
<1>3. CASE AnchorSucceeds(b)
  BY <1>3, SucceedFacts DEF AnchorSucceeds, Notify, TypeOK, Updated, Batch
<1>4. CASE AnchorFails(b)
  BY <1>4, FailFacts DEF AnchorFails, Notify, LastAnswer, TypeOK, Updated, Batch
<1>5. CASE UpdateStats(b)
  BY <1>1, <1>5 DEF UpdateStats, TypeOK
<1>6. QED
  BY <1>2, <1>3, <1>4, <1>5 DEF BatchStep, AnchorStep

(* The steps that add a batch, and those that leave pending and batches    *)
(* alone.                                                                  *)
Flushes == SpawnedFlush \/ Tick \/ StopFlush

CallerSteps == \E i \in Items : SubmitRefused(i) \/ CountItem(i)

StopsAndEnds == LoopReturns \/ Close \/ Cancel \/ StopReturns \/ ParentCancelled

LEMMA NextCases ==
  ASSUME [Next]_vars
  PROVE  \/ \E i \in Items : Submit(i)
         \/ CallerSteps
         \/ Flushes
         \/ \E b \in DOMAIN batches : BatchStep(b)
         \/ StopsAndEnds
         \/ UNCHANGED vars
BY DEF Next, ClientStep, LoopStep, StopStep, CallerSteps, Flushes, StopsAndEnds

LEMMA FlushesFacts ==
  ASSUME TypeOK, Flushes
  PROVE  /\ \E agent \in Agents : Flush(agent)
         /\ UNCHANGED <<client, result, cancelled, looping, stats>>
         /\ spawned' \in Nat
         /\ stop' \in {"running", "closed", "cancelled", "flushed", "stopped"}
         /\ stop' \in {"flushed", "stopped"} => stop' = "flushed" \/ stop = stop'
<1>1. CASE SpawnedFlush
  BY <1>1 DEF SpawnedFlush, TypeOK, Agents
<1>2. CASE Tick
  BY <1>2 DEF Tick, TypeOK, Agents
<1>3. CASE StopFlush
  BY <1>3 DEF StopFlush, TypeOK, Agents
<1>4. QED
  BY <1>1, <1>2, <1>3 DEF Flushes

LEMMA TypeNext ==
  ASSUME TypeOK, SentHasLanded, [Next]_vars
  PROVE  TypeOK'
<1>1. ASSUME NEW i \in Items, Submit(i)
      PROVE  TypeOK'
  BY <1>1 DEF Submit, TypeOK
<1>2. CASE CallerSteps
  BY <1>2 DEF CallerSteps, SubmitRefused, CountItem, TypeOK
<1>3. CASE Flushes
  <2>1. pending' = {} /\ batches' \in Seq(Batch)
    BY <1>3, FlushesFacts, FlushFacts
  <2>2. QED
    BY <1>3, <2>1, FlushesFacts DEF TypeOK
<1>4. ASSUME NEW b \in DOMAIN batches, BatchStep(b)
      PROVE  TypeOK'
  <2>1. batches' \in Seq(Batch)
    BY <1>4, StepIsProgress DEF Progress, Updated
  <2>2. result' \in [Items -> {"none", "success", "failure"}]
    BY <1>4, StepOfBatch DEF TypeOK
  <2>3. QED
    BY <1>4, <2>1, <2>2, StepOfBatch DEF TypeOK
<1>5. CASE StopsAndEnds
  BY <1>5 DEF StopsAndEnds, LoopReturns, Close, Cancel, StopReturns, ParentCancelled, TypeOK
<1>6. CASE UNCHANGED vars
  BY <1>6 DEF vars, TypeOK
<1>7. QED
  BY <1>1, <1>2, <1>3, <1>4, <1>5, <1>6, NextCases

----------------------------------------------------------------------------
(* ItemsInOnePlace: the three things that happen to items.                 *)

LEMMA PlacesAfterSubmit ==
  ASSUME TypeOK, ItemsInOnePlace, NEW i \in Items, Submit(i)
  PROVE  ItemsInOnePlace'
<1>1. i \notin Accepted /\ Accepted' = Accepted \union {i}
  BY DEF Submit, Accepted, TypeOK
<1>2. \A b \in DOMAIN batches : i \notin batches[b].items
  BY <1>1 DEF ItemsInOnePlace
<1>3. pending' = pending \union {i} /\ batches' = batches
  BY DEF Submit
<1>4. QED
  BY <1>1, <1>2, <1>3 DEF ItemsInOnePlace

LEMMA PlacesAfterFlush ==
  ASSUME TypeOK, ItemsInOnePlace, NEW agent \in Agents, Flush(agent), UNCHANGED client
  PROVE  ItemsInOnePlace'
<1>1. Accepted' = Accepted
  BY DEF Accepted
<1>2. CASE pending = {} /\ batches' = batches
  BY <1>1, <1>2, FlushFacts DEF ItemsInOnePlace
<1>3. CASE Added(NewBatch(pending, agent))
  <2> DEFINE n == Len(batches) + 1
  <2>1. batches'[n].items = pending /\ \A c \in DOMAIN batches : batches'[c].items = batches[c].items
    BY <1>3 DEF Added, NewBatch
  <2>2. DOMAIN batches' = DOMAIN batches \union {n} /\ n \notin DOMAIN batches
    BY <1>3 DEF Added
  <2> HIDE DEF n
  <2>3. UNION {batches'[b].items : b \in DOMAIN batches'}
          = pending \union UNION {batches[b].items : b \in DOMAIN batches}
    BY <2>1, <2>2
  <2>4. \A b, c \in DOMAIN batches' : b # c => batches'[b].items \intersect batches'[c].items = {}
    BY <2>1, <2>2 DEF ItemsInOnePlace
  <2>5. pending' = {}
    BY FlushFacts
  <2>6. QED
    BY <1>1, <2>3, <2>4, <2>5 DEF ItemsInOnePlace
<1>4. QED
  BY <1>2, <1>3, FlushFacts

SameItems ==
  /\ DOMAIN batches' = DOMAIN batches
  /\ \A c \in DOMAIN batches : batches'[c].items = batches[c].items

LEMMA PlacesKept ==
  ASSUME ItemsInOnePlace, SameItems, pending' = pending, Accepted' = Accepted
  PROVE  ItemsInOnePlace'
<1>1. UNION {batches'[b].items : b \in DOMAIN batches'} = UNION {batches[b].items : b \in DOMAIN batches}
  BY DEF SameItems
<1>2. QED
  BY <1>1 DEF ItemsInOnePlace, SameItems

LEMMA OthersKeepPlaces ==
  ASSUME TypeOK, SentHasLanded, [Next]_vars
  PROVE  \/ \E i \in Items : Submit(i)
         \/ Flushes
         \/ SameItems /\ pending' = pending /\ Accepted' = Accepted
<1>1. CASE CallerSteps
  <2>1. batches' = batches /\ pending' = pending
    BY <1>1 DEF CallerSteps, SubmitRefused, CountItem
  <2>2. Accepted' = Accepted
    BY <1>1 DEF CallerSteps, SubmitRefused, CountItem, Accepted, TypeOK
  <2>3. QED
    BY <2>1, <2>2 DEF SameItems
<1>2. ASSUME NEW b \in DOMAIN batches, BatchStep(b)
      PROVE  SameItems /\ pending' = pending /\ Accepted' = Accepted
  <2>1. SameItems
    BY <1>2, StepIsProgress DEF Progress, Updated, SameItems
  <2>2. QED
    BY <1>2, <2>1, StepOfBatch DEF Accepted
<1>3. CASE StopsAndEnds \/ UNCHANGED vars
  BY <1>3 DEF StopsAndEnds, LoopReturns, Close, Cancel, StopReturns, ParentCancelled, vars, SameItems, Accepted
<1>4. QED
  BY <1>1, <1>2, <1>3, NextCases

LEMMA PlacesNext ==
  ASSUME TypeOK, SentHasLanded, ItemsInOnePlace, [Next]_vars
  PROVE  ItemsInOnePlace'
<1>1. CASE \E i \in Items : Submit(i)
  BY <1>1, PlacesAfterSubmit
<1>2. CASE Flushes
  BY <1>2, FlushesFacts, PlacesAfterFlush
<1>3. CASE SameItems /\ pending' = pending /\ Accepted' = Accepted
  BY <1>3, PlacesKept
<1>4. QED
  BY <1>1, <1>2, <1>3, OthersKeepPlaces

----------------------------------------------------------------------------
(* The other parts of the invariant.                                       *)

LEMMA FullNext ==
  ASSUME TypeOK, SentHasLanded, FullIsFlushed, [Next]_vars
  PROVE  FullIsFlushed'
<1>1. ASSUME NEW i \in Items, Submit(i)
      PROVE  FullIsFlushed'
  BY <1>1 DEF Submit, IsFull, FullIsFlushed, TypeOK
<1>2. CASE CallerSteps
  <2>1. PICK j \in Items : SubmitRefused(j) \/ CountItem(j)
    BY <1>2 DEF CallerSteps
  <2>2. pending' = pending
    BY <2>1 DEF SubmitRefused, CountItem
  <2>3. \/ spawned' > 0
        \/ spawned' = spawned /\ \A i \in Items : client[i] = "full" => client'[i] = "full"
    BY <2>1 DEF SubmitRefused, CountItem, TypeOK
  <2>4. QED
    BY <2>2, <2>3 DEF FullIsFlushed
<1>3. CASE Flushes
  <2>1. Cardinality(pending') = 0
    BY <1>3, FlushesFacts, FlushFacts, FS_EmptySet
  <2>2. QED
    BY <2>1 DEF FullIsFlushed
<1>4. ASSUME NEW b \in DOMAIN batches, BatchStep(b)
      PROVE  FullIsFlushed'
  BY <1>4, StepOfBatch DEF FullIsFlushed
<1>5. CASE StopsAndEnds \/ UNCHANGED vars
  BY <1>5 DEF StopsAndEnds, LoopReturns, Close, Cancel, StopReturns, ParentCancelled, vars, FullIsFlushed
<1>6. QED
  BY <1>1, <1>2, <1>3, <1>4, <1>5, NextCases

LEMMA DrainedNext ==
  ASSUME TypeOK, StoppedIsDrained, [Next]_vars
  PROVE  StoppedIsDrained'
<1>1. ASSUME NEW i \in Items, Submit(i)
      PROVE  StoppedIsDrained'
  BY <1>1 DEF Submit, Accepts, closed, StoppedIsDrained
<1>2. CASE CallerSteps
  BY <1>2 DEF CallerSteps, SubmitRefused, CountItem, StoppedIsDrained
<1>3. CASE Flushes
  BY <1>3, FlushesFacts, FlushFacts DEF StoppedIsDrained
<1>4. ASSUME NEW b \in DOMAIN batches, BatchStep(b)
      PROVE  StoppedIsDrained'
  BY <1>4, StepOfBatch DEF StoppedIsDrained
<1>5. CASE StopsAndEnds \/ UNCHANGED vars
  BY <1>5 DEF StopsAndEnds, LoopReturns, Close, Cancel, StopReturns, ParentCancelled, vars, StoppedIsDrained
<1>6. QED
  BY <1>1, <1>2, <1>3, <1>4, <1>5, NextCases

LEMMA AnsweredNext ==
  ASSUME TypeOK, SentHasLanded, AnsweredByBatch, [Next]_vars
  PROVE  AnsweredByBatch'
<1>1. CASE (\E i \in Items : Submit(i)) \/ CallerSteps \/ StopsAndEnds \/ UNCHANGED vars
  <2>1. UNCHANGED <<result, batches>>
    BY <1>1 DEF Submit, CallerSteps, SubmitRefused, CountItem, StopsAndEnds, LoopReturns, Close, Cancel,
       StopReturns, ParentCancelled, vars
  <2>2. QED
    BY <2>1 DEF AnsweredByBatch
<1>2. CASE Flushes
  <2>1. result' = result
    BY <1>2, FlushesFacts
  <2>2. \A b \in DOMAIN batches : b \in DOMAIN batches' /\ batches'[b] = batches[b]
    BY <1>2, FlushesFacts, FlushFacts DEF Added
  <2>3. QED
    BY <2>1, <2>2 DEF AnsweredByBatch
<1>3. ASSUME NEW b \in DOMAIN batches, BatchStep(b)
      PROVE  AnsweredByBatch'
  <2>1. /\ DOMAIN batches' = DOMAIN batches
        /\ \A c \in DOMAIN batches : batches'[c].items = batches[c].items
        /\ \A c \in DOMAIN batches : batches[c].pc \in Past => batches'[c].pc \in Past
    BY <1>3, StepIsProgress DEF Progress, Updated
  <2>2. SUFFICES ASSUME NEW i \in Items, result'[i] # "none"
                 PROVE  \E c \in DOMAIN batches' : i \in batches'[c].items /\ batches'[c].pc \in Past
    BY DEF AnsweredByBatch
  <2>3. CASE result[i] # "none"
    BY <2>1, <2>3 DEF AnsweredByBatch
  <2>4. CASE result[i] = "none"
    <3>1. i \in batches[b].items /\ batches'[b].pc = "count"
      BY <1>3, <2>2, <2>4, StepOfBatch DEF TypeOK
    <3>2. QED
      BY <2>1, <3>1 DEF Past
  <2>5. QED
    BY <2>3, <2>4
<1>4. QED
  BY <1>1, <1>2, <1>3, NextCases

LEMMA LandedNext ==
  ASSUME TypeOK, SentHasLanded, [Next]_vars
  PROVE  SentHasLanded'
<1>1. CASE (\E i \in Items : Submit(i)) \/ CallerSteps \/ StopsAndEnds \/ UNCHANGED vars
  <2>1. UNCHANGED batches
    BY <1>1 DEF Submit, CallerSteps, SubmitRefused, CountItem, StopsAndEnds, LoopReturns, Close, Cancel,
       StopReturns, ParentCancelled, vars
  <2>2. QED
    BY <2>1 DEF SentHasLanded
<1>2. CASE Flushes
  <2>1. PICK agent \in Agents : Flush(agent)
    BY <1>2, FlushesFacts
  <2>2. CASE pending = {} /\ batches' = batches
    BY <2>2 DEF SentHasLanded
  <2>3. CASE Added(NewBatch(pending, agent))
    <3>1. NewBatch(pending, agent).pc # "sent"
      BY DEF NewBatch
    <3>2. QED
      BY <2>3, <3>1 DEF Added, SentHasLanded
  <2>4. QED
    BY <2>1, <2>2, <2>3, FlushFacts
<1>3. ASSUME NEW b \in DOMAIN batches, BatchStep(b)
      PROVE  SentHasLanded'
  BY <1>3, StepIsProgress DEF Progress, Updated, SentHasLanded
<1>4. QED
  BY <1>1, <1>2, <1>3, NextCases

LEMMA InitInv == Init => IInv
<1> SUFFICES ASSUME Init PROVE IInv
  OBVIOUS
<1>1. TypeOK
  <2>1. << >> \in Seq(Batch)
    OBVIOUS
  <2>2. stats \in [total : Nat, successful : Nat, failed : Nat]
    BY DEF Init
  <2>3. client \in [Items -> {"idle"}] /\ result \in [Items -> {"none"}]
    BY DEF Init
  <2>4. QED
    BY <2>1, <2>2, <2>3 DEF Init, TypeOK
<1>2. Accepted = {} /\ DOMAIN batches = {}
  BY DEF Init, Accepted
<1>3. ItemsInOnePlace
  BY <1>2 DEF Init, ItemsInOnePlace
<1>4. FullIsFlushed
  BY FS_EmptySet DEF Init, FullIsFlushed
<1>5. StoppedIsDrained /\ AnsweredByBatch /\ SentHasLanded
  BY DEF Init, StoppedIsDrained, AnsweredByBatch, SentHasLanded
<1>6. QED
  BY <1>1, <1>3, <1>4, <1>5 DEF IInv

(* The invariant holds in every reachable state.                           *)
THEOREM InductiveInvariant == Spec => []IInv
<1>1. IInv /\ [Next]_vars => IInv'
  BY TypeNext, PlacesNext, FullNext, DrainedNext, AnsweredNext, LandedNext DEF IInv
<1>2. QED
  BY <1>1, InitInv, PTL DEF Spec

(* Every variable keeps its type; no batch is attempted more than          *)
(* RetryCount + 1 times (batch.go:304).                                    *)
THEOREM TypeCorrect == Spec => []TypeOK
<1>1. IInv => TypeOK
  BY DEF IInv
<1>2. QED
  BY <1>1, InductiveInvariant, PTL

----------------------------------------------------------------------------
(* The statistics.  Each counter is the size of a set of items: those      *)
(* whose Submit has returned, and those of the batches that were counted.  *)

Waiting == {i \in Items : client[i] = "waiting"}

CountedAs(status, i) ==
  \E b \in DOMAIN batches : i \in batches[b].items /\ batches[b].pc = "done" /\ batches[b].status = status

Counted(status) == {i \in Items : CountedAs(status, i)}

PastIsDecided ==
  \A b \in DOMAIN batches : batches[b].pc \in Past => batches[b].status \in {"anchored", "failed"}

StatsInv ==
  /\ stats.total = Cardinality(Waiting)
  /\ stats.successful = Cardinality(Counted("anchored"))
  /\ stats.failed = Cardinality(Counted("failed"))
  /\ PastIsDecided

LEMMA ItemSetsFinite ==
  /\ IsFiniteSet(Waiting)
  /\ \A status : IsFiniteSet(Counted(status))
  /\ TypeOK => \A b \in DOMAIN batches : IsFiniteSet(batches[b].items)
<1>1. Waiting \subseteq Items /\ \A status : Counted(status) \subseteq Items
  BY DEF Waiting, Counted
<1>2. TypeOK => \A b \in DOMAIN batches : batches[b].items \subseteq Items
  BY BatchIsBatch DEF Batch
<1>3. QED
  BY <1>1, <1>2, FS_Subset

(* Steps that count nothing: no batch is done that was not.                *)
CountsNothing ==
  /\ \A b \in DOMAIN batches :
       b \in DOMAIN batches' /\ (batches[b].pc = "done" => batches'[b] = batches[b])
  /\ \A b \in DOMAIN batches' : batches'[b].pc = "done" => b \in DOMAIN batches /\ batches[b].pc = "done"

LEMMA CountedKept ==
  ASSUME CountsNothing, NEW status
  PROVE  Counted(status)' = Counted(status)
<1>1. \A i \in Items : CountedAs(status, i)' <=> CountedAs(status, i)
  BY DEF CountsNothing, CountedAs
<1>2. QED
  BY <1>1 DEF Counted

LEMMA StatsKept ==
  ASSUME StatsInv, CountsNothing, PastIsDecided', stats' = stats, Waiting' = Waiting
  PROVE  StatsInv'
BY CountedKept DEF StatsInv

LEMMA StatsAfterCaller ==
  ASSUME TypeOK, StatsInv, CallerSteps
  PROVE  StatsInv'
<1>1. batches' = batches
  BY DEF CallerSteps, SubmitRefused, CountItem
<1>2. CountsNothing /\ PastIsDecided'
  BY <1>1 DEF CountsNothing, StatsInv, PastIsDecided
<1>3. ASSUME NEW i \in Items, SubmitRefused(i)
      PROVE  StatsInv'
  <2>1. Waiting' = Waiting /\ stats' = stats
    BY <1>3 DEF SubmitRefused, Waiting, TypeOK
  <2>2. QED
    BY <1>2, <2>1, StatsKept
<1>4. ASSUME NEW i \in Items, CountItem(i)
      PROVE  StatsInv'
  <2>1. i \notin Waiting /\ Waiting' = Waiting \union {i}
    BY <1>4 DEF CountItem, Waiting, TypeOK
  <2>2. Cardinality(Waiting') = Cardinality(Waiting) + 1
    BY <2>1, ItemSetsFinite, FS_AddElement
  <2>3. /\ stats'.total = stats.total + 1
        /\ stats'.successful = stats.successful
        /\ stats'.failed = stats.failed
    BY <1>4 DEF CountItem, TypeOK
  <2>4. QED
    BY <1>2, <2>2, <2>3, CountedKept DEF StatsInv
<1>5. QED
  BY <1>3, <1>4 DEF CallerSteps

LEMMA StatsAfterFlush ==
  ASSUME TypeOK, StatsInv, Flushes
  PROVE  StatsInv'
<1>1. PICK agent \in Agents : Flush(agent)
  BY FlushesFacts
<1>2. Waiting' = Waiting /\ stats' = stats
  BY FlushesFacts DEF Waiting
<1>3. CountsNothing /\ PastIsDecided'
  <2>1. CASE batches' = batches
    BY <2>1 DEF CountsNothing, StatsInv, PastIsDecided
  <2>2. CASE Added(NewBatch(pending, agent))
    <3>1. NewBatch(pending, agent).pc = "calling"
      BY DEF NewBatch
    <3>2. QED
      BY <2>2, <3>1 DEF Added, CountsNothing, StatsInv, PastIsDecided, Past
  <2>3. QED
    BY <1>1, <2>1, <2>2, FlushFacts
<1>4. QED
  BY <1>2, <1>3, StatsKept

(* UpdateStats counts the items of one batch, which no other batch has.    *)
LEMMA StatsAfterCount ==
  ASSUME TypeOK, ItemsInOnePlace, StatsInv, NEW b \in DOMAIN batches, UpdateStats(b)
  PROVE  StatsInv'
<1>0. PICK mine \in {"anchored", "failed"} : mine = batches[b].status
  BY DEF UpdateStats, StatsInv, PastIsDecided, Past
<1> DEFINE new == batches[b].items
<1>1. /\ DOMAIN batches' = DOMAIN batches
      /\ batches'[b].pc = "done" /\ batches'[b].items = new /\ batches'[b].status = mine
      /\ \A c \in DOMAIN batches : c # b => batches'[c] = batches[c]
  BY <1>0, CountFacts, BatchIsBatch DEF Updated, Batch
<1>2. batches[b].pc = "count"
  BY DEF UpdateStats
<1>3. new \subseteq Items
  BY BatchIsBatch DEF Batch
<1>4. PastIsDecided'
  BY <1>1 DEF StatsInv, PastIsDecided
<1>5. \A i \in Items : CountedAs(mine, i)' <=> CountedAs(mine, i) \/ i \in new
  BY <1>0, <1>1, <1>2 DEF CountedAs
<1>6. Counted(mine)' = Counted(mine) \union new
  BY <1>3, <1>5 DEF Counted
<1>7. Counted(mine) \intersect new = {}
  BY <1>2 DEF Counted, CountedAs, ItemsInOnePlace
<1>8. Cardinality(Counted(mine)') = Cardinality(Counted(mine)) + Cardinality(new)
  <2>1. IsFiniteSet(new) /\ IsFiniteSet(Counted(mine))
    BY ItemSetsFinite
  <2>2. Cardinality(Counted(mine)) \in Nat /\ Cardinality(new) \in Nat
    BY <2>1, FS_CardinalityType
  <2>3. Cardinality(Counted(mine) \union new)
          = Cardinality(Counted(mine)) + Cardinality(new) - Cardinality(Counted(mine) \intersect new)
    BY <2>1, FS_Union
  <2>4. Cardinality(Counted(mine) \intersect new) = 0
    BY <1>7, FS_EmptySet
  <2>5. QED
    BY <1>6, <2>2, <2>3, <2>4
<1>9. ASSUME NEW other \in {"anchored", "failed"}, other # mine
      PROVE  Counted(other)' = Counted(other)
  <2>1. \A i \in Items : CountedAs(other, i)' <=> CountedAs(other, i)
    BY <1>0, <1>1, <1>2, <1>9 DEF CountedAs
  <2>2. QED
    BY <2>1 DEF Counted
<1>10. Waiting' = Waiting
  BY DEF UpdateStats, Waiting
<1>11. /\ stats'.total = stats.total
       /\ stats'.successful = IF mine = "anchored" THEN stats.successful + Cardinality(new) ELSE stats.successful
       /\ stats'.failed = IF mine = "anchored" THEN stats.failed ELSE stats.failed + Cardinality(new)
  BY <1>0 DEF UpdateStats, Outcomes, TypeOK
<1>12. CASE mine = "anchored"
  BY <1>4, <1>8, <1>9, <1>10, <1>11, <1>12 DEF StatsInv
<1>13. CASE mine = "failed"
  BY <1>4, <1>8, <1>9, <1>10, <1>11, <1>13 DEF StatsInv
<1>14. QED
  BY <1>12, <1>13

LEMMA StatsAfterAnchorStep ==
  ASSUME TypeOK, StatsInv, NEW b \in DOMAIN batches, AnchorStep(b)
  PROVE  StatsInv'
<1>1. /\ DOMAIN batches' = DOMAIN batches
      /\ \A c \in DOMAIN batches : c # b => batches'[c] = batches[c]
      /\ batches'[b].pc # "done"
      /\ batches'[b].pc = "count" => batches'[b].status \in {"anchored", "failed"}
  <2>1. CASE SendTransaction(b)
    BY <2>1, SendFacts, BatchIsBatch DEF Updated, Batch
  <2>2. CASE AnchorSucceeds(b)
    BY <2>2, SucceedFacts, BatchIsBatch DEF Updated, Batch
  <2>3. CASE AttemptFails(b)
    BY <2>3, AttemptFacts, BatchIsBatch DEF Updated, Batch
  <2>4. CASE AnchorFails(b)
    BY <2>4, FailFacts, BatchIsBatch DEF Updated, Batch
  <2>5. QED
    BY <2>1, <2>2, <2>3, <2>4 DEF AnchorStep
<1>2. batches[b].pc # "done" /\ stats' = stats /\ client' = client
  BY DEF AnchorStep, SendTransaction, AnchorSucceeds, AttemptFails, AnchorFails
<1>3. CountsNothing
  BY <1>1, <1>2 DEF CountsNothing
<1>4. PastIsDecided'
  BY <1>1 DEF StatsInv, PastIsDecided, Past
<1>5. QED
  BY <1>2, <1>3, <1>4, StatsKept DEF Waiting

LEMMA StatsNext ==
  ASSUME IInv, StatsInv, [Next]_vars
  PROVE  StatsInv'
<1> USE DEF IInv
<1>1. ASSUME NEW i \in Items, Submit(i)
      PROVE  StatsInv'
  <2>1. Waiting' = Waiting
    BY <1>1 DEF Submit, Waiting, TypeOK
  <2>2. CountsNothing /\ PastIsDecided' /\ stats' = stats
    BY <1>1 DEF Submit, CountsNothing, StatsInv, PastIsDecided
  <2>3. QED
    BY <2>1, <2>2, StatsKept
<1>2. CASE StopsAndEnds \/ UNCHANGED vars
  <2>1. UNCHANGED <<client, batches, stats>>
    BY <1>2 DEF StopsAndEnds, LoopReturns, Close, Cancel, StopReturns, ParentCancelled, vars
  <2>2. Waiting' = Waiting /\ CountsNothing /\ PastIsDecided'
    BY <2>1 DEF Waiting, CountsNothing, StatsInv, PastIsDecided
  <2>3. QED
    BY <2>1, <2>2, StatsKept
<1>3. ASSUME NEW b \in DOMAIN batches, BatchStep(b)
      PROVE  StatsInv'
  BY <1>3, StatsAfterCount, StatsAfterAnchorStep DEF BatchStep
<1>4. QED
  BY <1>1, <1>2, <1>3, StatsAfterCaller, StatsAfterFlush, NextCases

LEMMA StatsAddUpFromInv ==
  ASSUME IInv, StatsInv
  PROVE  StatsAddUp
<1> USE DEF IInv
<1> SUFFICES ASSUME \A i \in Items : client[i] \notin {"submitted", "full"},
                    \A b \in DOMAIN batches : Done(b)
             PROVE  stats.total = stats.successful + stats.failed + Cardinality(pending)
  BY DEF StatsAddUp
<1> DEFINE good == Counted("anchored")
           bad  == Counted("failed")
<1>1. Waiting = Accepted
  BY DEF Waiting, Accepted, TypeOK
<1>2. \A b \in DOMAIN batches : batches[b].pc = "done" /\ batches[b].status \in {"anchored", "failed"}
  BY DEF Done, StatsInv, PastIsDecided, Past
<1>3. Accepted = pending \union (good \union bad)
  <2>1. \A b \in DOMAIN batches : batches[b].items \subseteq Items
    BY BatchIsBatch DEF Batch
  <2>2. UNION {batches[b].items : b \in DOMAIN batches} = good \union bad
    BY <1>2, <2>1 DEF Counted, CountedAs
  <2>3. QED
    BY <2>2 DEF ItemsInOnePlace
<1>4. pending \intersect (good \union bad) = {}
  BY DEF Counted, CountedAs, ItemsInOnePlace
<1>5. good \intersect bad = {}
  BY DEF Counted, CountedAs, ItemsInOnePlace
<1>6. IsFiniteSet(pending) /\ IsFiniteSet(good) /\ IsFiniteSet(bad)
  BY ItemSetsFinite, FS_Subset DEF TypeOK
<1> HIDE DEF good, bad
<1>7. Cardinality(good \union bad) = Cardinality(good) + Cardinality(bad)
  <2>1. Cardinality(good) \in Nat /\ Cardinality(bad) \in Nat
    BY <1>6, FS_CardinalityType
  <2>2. Cardinality(good \union bad)
          = Cardinality(good) + Cardinality(bad) - Cardinality(good \intersect bad)
    BY <1>6, FS_Union
  <2>3. Cardinality(good \intersect bad) = 0
    BY <1>5, FS_EmptySet
  <2>4. QED
    BY <2>1, <2>2, <2>3
<1>8. IsFiniteSet(good \union bad)
  BY <1>6, FS_Union
<1>9. Cardinality(Accepted) = Cardinality(pending) + Cardinality(good \union bad)
  <2>1. Cardinality(pending) \in Nat /\ Cardinality(good \union bad) \in Nat
    BY <1>6, <1>8, FS_CardinalityType
  <2>2. Cardinality(pending \union (good \union bad))
          = Cardinality(pending) + Cardinality(good \union bad) - Cardinality(pending \intersect (good \union bad))
    BY <1>6, <1>8, FS_Union
  <2>3. Cardinality(pending \intersect (good \union bad)) = 0
    BY <1>4, FS_EmptySet
  <2>4. QED
    BY <1>3, <2>1, <2>2, <2>3
<1>10. QED
  BY <1>1, <1>6, <1>7, <1>9, FS_CardinalityType DEF StatsInv, good, bad

(* However many goroutines submit, flush and stop, an accepted item is     *)
(* pending or in exactly one batch, a full batch has a flush on its way,   *)
(* nothing is left behind Stop's flush, and the counters add up whenever   *)
(* no call is under way (batch.go:156, 193, 240, 387).                     *)
THEOREM EveryItemIsAccountedFor == Spec => []ItemsAreAccountedFor
<1>1. Init => StatsInv
  <2> SUFFICES ASSUME Init PROVE StatsInv
    OBVIOUS
  <2>1. Waiting = {} /\ \A status : Counted(status) = {}
    BY DEF Init, Waiting, Counted, CountedAs
  <2>2. PastIsDecided
    BY DEF Init, PastIsDecided
  <2>3. stats.total = 0 /\ stats.successful = 0 /\ stats.failed = 0
    BY DEF Init
  <2>4. QED
    BY <2>1, <2>2, <2>3, FS_EmptySet DEF StatsInv
<1>2. IInv /\ StatsInv /\ [Next]_vars => StatsInv'
  BY StatsNext
<1>3. IInv /\ StatsInv => ItemsAreAccountedFor
  BY StatsAddUpFromInv DEF IInv, ItemsAreAccountedFor
<1>4. QED
  BY <1>1, <1>2, <1>3, InductiveInvariant, PTL DEF Spec

----------------------------------------------------------------------------
(* Refinement of AnchorPromise.                                            *)

Anchored == UNION {batches[b].items : b \in {c \in DOMAIN batches : batches[c].landed}}

OpenItems == {i \in Accepted : result[i] = "none"}

LEMMA UnfinishedIsOpen ==
  ASSUME IInv, NEW b \in DOMAIN batches, batches[b].pc \in {"calling", "sent"}
  PROVE  batches[b].items \in SUBSET OpenItems
<1>1. batches[b].items \subseteq Accepted
  BY DEF IInv, ItemsInOnePlace
<1>2. \A i \in batches[b].items : result[i] = "none"
  <2> SUFFICES ASSUME NEW i \in batches[b].items, result[i] # "none"
               PROVE  FALSE
    OBVIOUS
  <2>1. i \in Items
    BY <1>1 DEF Accepted
  <2>2. PICK c \in DOMAIN batches : i \in batches[c].items /\ batches[c].pc \in Past
    BY <2>1 DEF IInv, AnsweredByBatch
  <2>3. c = b
    BY <2>2 DEF IInv, ItemsInOnePlace
  <2>4. QED
    BY <2>2, <2>3 DEF Past
<1>3. QED
  BY <1>1, <1>2 DEF OpenItems

(* What can happen to the three state functions of the mapping.            *)
AcceptStep == \E i \in Items \ Accepted :
  Accepted' = Accepted \union {i} /\ Anchored' = Anchored /\ result' = result

AnchoredStep == \E S \in SUBSET OpenItems :
  Accepted' = Accepted /\ Anchored' = Anchored \union S /\ result' = result

AnswerStep == \E S \in SUBSET OpenItems : \E a \in {"success", "failure"} :
  /\ Accepted' = Accepted
  /\ Anchored' = Anchored
  /\ a = "success" => S \subseteq Anchored
  /\ result' = [i \in Items |-> IF i \in S THEN a ELSE result[i]]

StutterStep == Accepted' = Accepted /\ Anchored' = Anchored /\ result' = result

SameLanded ==
  /\ DOMAIN batches' = DOMAIN batches
  /\ \A c \in DOMAIN batches : batches'[c].items = batches[c].items /\ batches'[c].landed = batches[c].landed

LEMMA AnchoredKept ==
  ASSUME SameLanded
  PROVE  Anchored' = Anchored
<1>1. {c \in DOMAIN batches' : batches'[c].landed} = {c \in DOMAIN batches : batches[c].landed}
  BY DEF SameLanded
<1>2. QED
  BY <1>1 DEF Anchored, SameLanded

LEMMA FlushStutters ==
  ASSUME TypeOK, Flushes
  PROVE  StutterStep
<1>1. PICK agent \in Agents : Flush(agent)
  BY FlushesFacts
<1>2. Accepted' = Accepted /\ result' = result
  BY FlushesFacts DEF Accepted
<1>3. CASE batches' = batches
  BY <1>2, <1>3 DEF StutterStep, Anchored
<1>4. CASE Added(NewBatch(pending, agent))
  <2>1. \A c \in DOMAIN batches' :
          batches'[c].landed => c \in DOMAIN batches /\ batches[c].landed
    BY <1>4 DEF Added, NewBatch
  <2>2. \A c \in DOMAIN batches : c \in DOMAIN batches' /\ batches'[c] = batches[c]
    BY <1>4 DEF Added
  <2>3. {c \in DOMAIN batches' : batches'[c].landed} = {c \in DOMAIN batches : batches[c].landed}
    BY <2>1, <2>2
  <2>4. Anchored' = Anchored
    BY <2>2, <2>3 DEF Anchored
  <2>5. QED
    BY <1>2, <2>4 DEF StutterStep
<1>5. QED
  BY <1>1, <1>3, <1>4, FlushFacts

\* an update that leaves the items of the batch and the fate of its transaction alone
LEMMA UpdatedKeepsLanded ==
  ASSUME TypeOK, NEW b \in DOMAIN batches, NEW rec, Updated(b, rec),
         rec.items = batches[b].items, rec.landed = batches[b].landed
  PROVE  SameLanded
BY DEF Updated, SameLanded

LEMMA BatchStepMaps ==
  ASSUME IInv, NEW b \in DOMAIN batches, BatchStep(b)
  PROVE  StutterStep \/ AnchoredStep \/ AnswerStep
<1> USE DEF IInv
<1>1. Accepted' = Accepted
  BY StepOfBatch DEF Accepted
<1>2. CASE SendTransaction(b)
  <2>1. /\ DOMAIN batches' = DOMAIN batches
        /\ \A c \in DOMAIN batches : batches'[c].items = batches[c].items
        /\ \A c \in DOMAIN batches : batches'[c].landed = (c = b \/ batches[c].landed)
    BY <1>2, SendFacts, BatchIsBatch DEF Updated, Batch
  <2>2. {c \in DOMAIN batches' : batches'[c].landed} = {c \in DOMAIN batches : batches[c].landed} \union {b}
    BY <2>1
  <2>3. Anchored' = Anchored \union batches[b].items
    BY <2>1, <2>2 DEF Anchored
  <2>4. batches[b].items \in SUBSET OpenItems
    BY <1>2, UnfinishedIsOpen DEF SendTransaction
  <2>5. result' = result
    BY <1>2 DEF SendTransaction
  <2>6. QED
    BY <1>1, <2>3, <2>4, <2>5 DEF AnchoredStep
<1>3. CASE AttemptFails(b)
  <2> DEFINE rec == [batches[b] EXCEPT !.pc = "calling", !.attempt = batches[b].attempt + 1]
  <2>0. rec.items = batches[b].items /\ rec.landed = batches[b].landed
    BY BatchIsBatch DEF Batch
  <2>1. SameLanded
    <3>1. Updated(b, rec)
      BY <1>3, AttemptFacts
    <3>2. QED
      BY <2>0, <3>1, UpdatedKeepsLanded
  <2>2. QED
    BY <1>1, <1>3, <2>1, AnchoredKept DEF StutterStep, AttemptFails
<1>4. CASE UpdateStats(b)
  <2> DEFINE rec == [batches[b] EXCEPT !.pc = "done"]
  <2>0. rec.items = batches[b].items /\ rec.landed = batches[b].landed
    BY BatchIsBatch DEF Batch
  <2>1. SameLanded
    <3>1. Updated(b, rec)
      BY <1>4, CountFacts
    <3>2. QED
      BY <2>0, <3>1, UpdatedKeepsLanded
  <2>2. QED
    BY <1>1, <1>4, <2>1, AnchoredKept DEF StutterStep, UpdateStats
<1>5. CASE AnchorSucceeds(b)
  <2> DEFINE rec == [batches[b] EXCEPT !.pc = "count", !.status = "anchored"]
  <2>0. rec.items = batches[b].items /\ rec.landed = batches[b].landed
    BY BatchIsBatch DEF Batch
  <2>1. SameLanded
    <3>1. Updated(b, rec)
      BY <1>5, SucceedFacts
    <3>2. QED
      BY <2>0, <3>1, UpdatedKeepsLanded
  <2>2. batches[b].items \in SUBSET OpenItems
    BY <1>5, UnfinishedIsOpen DEF AnchorSucceeds
  <2>3. batches[b].items \subseteq Anchored
    BY <1>5 DEF AnchorSucceeds, SentHasLanded, Anchored
  <2>4. QED
    BY <1>1, <1>5, <2>1, <2>2, <2>3, AnchoredKept DEF AnswerStep, AnchorSucceeds, Notify
<1>6. CASE AnchorFails(b)
  <2> DEFINE rec == [batches[b] EXCEPT !.pc = "count", !.status = "failed"]
  <2>0. rec.items = batches[b].items /\ rec.landed = batches[b].landed
    BY BatchIsBatch DEF Batch
  <2>1. SameLanded
    <3>1. Updated(b, rec)
      BY <1>6, FailFacts
    <3>2. QED
      BY <2>0, <3>1, UpdatedKeepsLanded
  <2>2. batches[b].items \in SUBSET OpenItems
    BY <1>6, UnfinishedIsOpen DEF AnchorFails
  <2>3. QED
    BY <1>1, <1>6, <2>1, <2>2, AnchoredKept DEF AnswerStep, AnchorFails, Notify, LastAnswer
<1>7. QED
  BY <1>2, <1>3, <1>4, <1>5, <1>6 DEF BatchStep, AnchorStep

LEMMA StepMaps ==
  ASSUME IInv, [Next]_vars
  PROVE  AcceptStep \/ AnchoredStep \/ AnswerStep \/ StutterStep
<1>1. ASSUME NEW i \in Items, Submit(i)
      PROVE  AcceptStep
  <2>1. i \in Items \ Accepted /\ Accepted' = Accepted \union {i}
    BY <1>1 DEF Submit, Accepted, IInv, TypeOK
  <2>2. QED
    BY <1>1, <2>1 DEF AcceptStep, Submit, Anchored
<1>2. CASE CallerSteps
  <2>1. Accepted' = Accepted
    BY <1>2 DEF CallerSteps, SubmitRefused, CountItem, Accepted, IInv, TypeOK
  <2>2. QED
    BY <1>2, <2>1 DEF CallerSteps, SubmitRefused, CountItem, StutterStep, Anchored
<1>3. CASE StopsAndEnds \/ UNCHANGED vars
  BY <1>3 DEF StopsAndEnds, LoopReturns, Close, Cancel, StopReturns, ParentCancelled, vars,
     StutterStep, Accepted, Anchored
<1>4. QED
  BY <1>1, <1>2, <1>3, FlushStutters, BatchStepMaps, NextCases DEF IInv

(* The batcher keeps its promise: every item is answered at most once, and *)
(* success is reported only for roots that are on the chain, whatever      *)
(* submitters, flushes, retries and Stop do (batch.go:297, 362).           *)
THEOREM BatchImplementsPromise == Spec => ImplementsPromise
<1>1. Init => Promise!Init
  BY DEF Init, Accepted, Promise!Init
<1>2. IInv /\ [Next]_vars => [Promise!Next]_(Promise!vars)
  <2> SUFFICES ASSUME IInv, [Next]_vars
               PROVE  [Promise!Next]_(Promise!vars)
    OBVIOUS
  <2>1. CASE AcceptStep
    BY <2>1 DEF AcceptStep, Anchored, Promise!Next, Promise!Accept
  <2>2. CASE AnchoredStep
    BY <2>2 DEF AnchoredStep, OpenItems, Anchored, Accepted, Promise!Next, Promise!Anchor, Promise!Open
  <2>3. CASE AnswerStep
    BY <2>3 DEF AnswerStep, OpenItems, Anchored, Accepted, Promise!Next, Promise!Answer, Promise!Open, Promise!Answers
  <2>4. CASE StutterStep
    BY <2>4 DEF StutterStep, Anchored, Promise!vars
  <2>5. QED
    BY <2>1, <2>2, <2>3, <2>4, StepMaps
<1>3. QED
  BY <1>1, <1>2, InductiveInvariant, PTL DEF Spec, ImplementsPromise, Promise!Spec
=============================================================================
