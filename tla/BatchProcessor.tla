--------------------------- MODULE BatchProcessor ---------------------------
(***************************************************************************)
(* The delayed queue and the batch processor (queue/worker.go) on either   *)
(* side of a queue: a delayed message is published when it is due, and a   *)
(* worker of the queue hands it to handleMessage, which gathers messages   *)
(* into batches.                                                           *)
(*                                                                         *)
(* Of the queue (queue/queue.go, module MemoryQueue) only this is modelled:*)
(* Publish is refused when the channel is full, and a message whose        *)
(* handler has returned nil is settled.                                    *)
(***************************************************************************)
EXTENDS Naturals, Sequences, FiniteSets, SequencesExt, Functions

CONSTANTS
  Messages,    \* messages that PublishDelayed is given, each once
  QueueRoom,   \* room in the channel of the topic
  Workers,     \* workers of the queue
  BatchSize    \* BatchProcessorConfig.BatchSize

ASSUME BatchProcessorAssumption ==
  /\ QueueRoom \in Nat \ {0} /\ BatchSize \in Nat \ {0}
  /\ IsFiniteSet(Messages) /\ IsFiniteSet(Workers)

VARIABLES
  delayed,     \* DelayedQueue.messages
  ready,       \* processDelayed: messages that are due and not yet published
  delaying,    \* the delayed queue: "running", "cancelled" or "stopped"
  channel,     \* the queue's channel
  worker,      \* worker -> where it is in handleMessage and flush
  loop,        \* flushLoop: "waiting", "flush", its batch in flight, or "ended"
  stopper,     \* Stop: "idle", "cancelled", "flush", its batch in flight, or "done"
  buffer,      \* BatchProcessor.buffer
  processed,   \* history: the batches that processFn succeeded on
  lost         \* history: message -> why it was dropped

processorVars ==
  <<delayed, ready, delaying, channel, worker, loop, stopper, buffer, processed, lost>>

Waiting == [at |-> "waiting"]
At(step) == [at |-> step]
InFlight(b) == [at |-> "processing", batch |-> b]
BatchOf(step) == IF step.at = "processing" THEN Range(step.batch) ELSE {}

ProcessorInit ==
  /\ delayed = {} /\ ready = << >> /\ delaying = "running"
  /\ channel = << >>
  /\ worker = [w \in Workers |-> Waiting]
  /\ loop = Waiting /\ stopper = At("idle")
  /\ buffer = << >>
  /\ processed = {}
  /\ lost = << >>

Lose(M, why) == lost' = lost @@ [m \in M |-> why]

----------------------------------------------------------------------------
(* DelayedQueue.                                                           *)

Given == delayed \cup Range(ready) \cup Range(channel) \cup Range(buffer)
         \cup (UNION {BatchOf(worker[w]) : w \in Workers}) \cup BatchOf(loop) \cup BatchOf(stopper)
         \cup {worker[w].message : w \in {v \in Workers : worker[v].at = "handling"}}
         \cup (UNION {Range(b) : b \in processed}) \cup DOMAIN lost

(* PublishDelayed succeeds whether the queue runs or not.                  *)
PublishDelayed(m) ==
  /\ m \notin Given
  /\ delayed' = delayed \cup {m}
  /\ UNCHANGED <<ready, delaying, channel, worker, loop, stopper, buffer, processed, lost>>

(* A tick of processLoop: any of the messages may be due, and are taken in *)
(* the order of the list.                                                  *)
processDelayed ==
  /\ delaying # "stopped" /\ ready = << >>
  /\ \E due \in (SUBSET delayed) \ {{}} :
       /\ delayed' = delayed \ due
       /\ \E s \in SetToSeqs(due) : ready' = s
  /\ UNCHANGED <<delaying, channel, worker, loop, stopper, buffer, processed, lost>>

(* The error of Publish is ignored: the channel is full, or the select     *)
(* prefers the cancelled context.                                          *)
PublishReady ==
  /\ ready # << >>
  /\ ready' = Tail(ready)
  /\ \/ /\ Len(channel) < QueueRoom
        /\ channel' = Append(channel, Head(ready))
        /\ UNCHANGED lost
     \/ /\ Len(channel) = QueueRoom \/ delaying = "cancelled"
        /\ Lose({Head(ready)}, "not published")
        /\ UNCHANGED channel
  /\ UNCHANGED <<delayed, delaying, worker, loop, stopper, buffer, processed>>

CancelDelayed ==
  /\ delaying = "running"
  /\ delaying' = "cancelled"
  /\ UNCHANGED <<delayed, ready, channel, worker, loop, stopper, buffer, processed, lost>>

(* The loop ends once the batch in hand is published; Stop returns.        *)
EndDelayed ==
  /\ delaying = "cancelled" /\ ready = << >>
  /\ delaying' = "stopped"
  /\ UNCHANGED <<delayed, ready, channel, worker, loop, stopper, buffer, processed, lost>>

----------------------------------------------------------------------------
(* BatchProcessor.handleMessage, by a worker of the queue.                 *)

Take(w) ==
  /\ worker[w] = Waiting /\ channel # << >>
  /\ worker' = [worker EXCEPT ![w] = [at |-> "handling", message |-> Head(channel)]]
  /\ channel' = Tail(channel)
  /\ UNCHANGED <<delayed, ready, delaying, loop, stopper, buffer, processed, lost>>

shouldFlush(b) == Len(b) >= BatchSize

(* From here on the queue will count the message as processed.             *)
BufferMessage(w) ==
  /\ worker[w].at = "handling"
  /\ buffer' = Append(buffer, worker[w].message)
  /\ worker' = [worker EXCEPT ![w] = IF shouldFlush(buffer') THEN At("flush") ELSE Waiting]
  /\ UNCHANGED <<delayed, ready, delaying, channel, loop, stopper, processed, lost>>

----------------------------------------------------------------------------
(* flush, by a worker, the loop or Stop: take the buffer, then process it. *)

Cancelled == stopper.at # "idle"

Taken == IF buffer = << >> THEN Waiting ELSE InFlight(buffer)
Emptied_Late == buffer' = buffer
Emptied == buffer' = << >>

FlushByWorker(w) ==
  /\ worker[w].at = "flush"
  /\ worker' = [worker EXCEPT ![w] = Taken] /\ Emptied
  /\ UNCHANGED <<delayed, ready, delaying, channel, loop, stopper, processed, lost>>

FlushByLoop_WhenFull ==
  /\ loop = Waiting /\ Len(buffer) >= BatchSize
  /\ loop' = Taken /\ Emptied
  /\ UNCHANGED <<delayed, ready, delaying, channel, worker, stopper, processed, lost>>

(* The select takes a tick or, once cancelled, either.                     *)
FlushByLoop ==
  /\ loop = Waiting /\ buffer # << >>
  /\ loop' = Taken /\ Emptied
  /\ UNCHANGED <<delayed, ready, delaying, channel, worker, stopper, processed, lost>>

EndLoop ==
  /\ loop = Waiting /\ Cancelled
  /\ loop' = At("ended")
  /\ UNCHANGED <<delayed, ready, delaying, channel, worker, stopper, buffer, processed, lost>>

Stop ==
  /\ stopper.at = "idle"
  /\ stopper' = At("cancelled")
  /\ UNCHANGED <<delayed, ready, delaying, channel, worker, loop, buffer, processed, lost>>

(* wg.Wait covers the loop only, not the workers.                          *)
FlushByStop ==
  /\ stopper.at = "cancelled" /\ loop.at = "ended"
  /\ stopper' = IF buffer = << >> THEN At("done") ELSE InFlight(buffer)
  /\ Emptied
  /\ UNCHANGED <<delayed, ready, delaying, channel, worker, loop, processed, lost>>

(* processFn succeeds, or fails and the batch is dropped with a log line.  *)
Settle(batch) ==
  \/ processed' = processed \cup {batch} /\ UNCHANGED lost
  \/ Lose(Range(batch), IF Cancelled THEN "stopped" ELSE "failed") /\ UNCHANGED processed

ProcessByWorker(w) ==
  /\ worker[w].at = "processing"
  /\ Settle(worker[w].batch)
  /\ worker' = [worker EXCEPT ![w] = Waiting]
  /\ UNCHANGED <<delayed, ready, delaying, channel, loop, stopper, buffer>>

ProcessByLoop ==
  /\ loop.at = "processing"
  /\ Settle(loop.batch)
  /\ loop' = Waiting
  /\ UNCHANGED <<delayed, ready, delaying, channel, worker, stopper, buffer>>

ProcessByStop ==
  /\ stopper.at = "processing"
  /\ Settle(stopper.batch)
  /\ stopper' = At("done")
  /\ UNCHANGED <<delayed, ready, delaying, channel, worker, loop, buffer>>

----------------------------------------------------------------------------
WorkerStep(w) == Take(w) \/ BufferMessage(w) \/ FlushByWorker(w) \/ ProcessByWorker(w)
LoopStep == FlushByLoop \/ ProcessByLoop \/ EndLoop
StopStep == FlushByStop \/ ProcessByStop
DelayStep == PublishReady \/ EndDelayed

ProcessorNext ==
  \/ \E m \in Messages : PublishDelayed(m)
  \/ processDelayed
  \/ CancelDelayed
  \/ Stop
  \/ \E w \in Workers : WorkerStep(w)
  \/ LoopStep
  \/ StopStep
  \/ DelayStep

ProcessorSpec == ProcessorInit /\ [][ProcessorNext]_processorVars

(* Goroutines run, the tickers tick, and what is delayed comes due.        *)
ProcessorFairness ==
  /\ \A w \in Workers : WF_processorVars(WorkerStep(w))
  /\ WF_processorVars(LoopStep) /\ WF_processorVars(StopStep)
  /\ WF_processorVars(DelayStep) /\ WF_processorVars(processDelayed)

----------------------------------------------------------------------------
Batches == {worker[w].batch : w \in {v \in Workers : worker[v].at = "processing"}}
           \cup {s.batch : s \in {t \in {loop, stopper} : t.at = "processing"}}

(* A batch holds at most the messages that fill it and one for each worker *)
(* that has added to the full buffer and not yet come to flush it, whoever *)
(* flushes (worker.go:249); and a message is handed to processFn once.     *)
BatchesBoundedAndDisjoint ==
  /\ \A b \in Batches \cup processed \cup {buffer} :
       /\ Len(b) <= BatchSize - 1 + Cardinality(Workers)
       /\ Cardinality(Range(b)) = Len(b)
  /\ \A b, c \in Batches \cup processed \cup {buffer} : b # c => Range(b) \cap Range(c) = {}

(* A message given to PublishDelayed is processed, or was dropped where an *)
(* error is ignored or only logged, or sits in a part that has been stopped*)
(* (worker.go:248, 293, 416).                                              *)
DelayedIsSettled ==
  \A m \in Messages :
    m \in Given ~> \/ m \in DOMAIN lost
                   \/ \E b \in processed : m \in Range(b)
                   \/ delaying = "stopped" /\ m \in delayed
                   \/ stopper.at = "done" /\ m \in Range(buffer)
=============================================================================
