----------------------------- MODULE MemoryQueue -----------------------------
(***************************************************************************)
(* queue/queue.go: a message queue on a buffered channel, with workers     *)
(* that retry failed messages by putting them back at the end, and the     *)
(* WorkerPool that starts and stops it (queue/worker.go).                  *)
(*                                                                         *)
(* One topic is modelled: topics share the channel and the workers, but a  *)
(* message concerns only the handler of its own.  A message is named for   *)
(* the call of Publish that creates it.                                    *)
(***************************************************************************)
EXTENDS Naturals, Sequences, FiniteSets

CONSTANTS
  Messages,    (* calls of Publish                                         *)
  Workers,     (* goroutines, config.WorkerCount of them                   *)
  BufferSize,  (* config.BufferSize                                        *)
  MaxRetries   (* config.MaxRetries                                        *)

ASSUME QueueAssumption ==
  /\ IsFiniteSet(Messages) /\ "none" \notin Messages
  /\ IsFiniteSet(Workers)
  /\ BufferSize \in Nat \ {0}
  /\ MaxRetries \in Nat

VARIABLES
  publish,     (* where each Publish is                                    *)
  messages,    (* the channel                                              *)
  subscribed,  (* the topic has a handler                                  *)
  worker,      (* where each worker is, and the message it holds           *)
  retries,     (* msg.Retries                                              *)
  runs,        (* history: how often a message's handler was called        *)
  fate,        (* history: how the queue was done with a message           *)
  stats,       (* Published, Processed, Failed                             *)
  cancelled,   (* q.ctx is done                                            *)
  stop         (* where Stop is                                            *)

control == <<cancelled, stop>>
vars == <<publish, messages, subscribed, worker, retries, runs, fate, stats, control>>

closed == stop # "running"

NoMessage == "none"
Idle == [pc |-> "select", msg |-> NoMessage]
Exited == [pc |-> "exited", msg |-> NoMessage]

HasRoom == Len(messages) < BufferSize
InChannel(m) == \E k \in DOMAIN messages : messages[k] = m
HeldBy(m) == {w \in Workers : worker[w].msg = m}
Sent(m) == publish[m] \in {"sent", "published"}

Init ==
  /\ publish = [m \in Messages |-> "idle"]
  /\ messages = << >>
  /\ subscribed = TRUE
  /\ worker = [w \in Workers |-> Idle]
  /\ retries = [m \in Messages |-> 0]
  /\ runs = [m \in Messages |-> 0]
  /\ fate = [m \in Messages |-> "none"]
  /\ stats = [published |-> 0, processed |-> 0, failed |-> 0]
  /\ cancelled = FALSE
  /\ stop = "running"

----------------------------------------------------------------------------
(* Publish: closed is read under the mutex, the message is sent after it   *)
(* was released.                                                           *)

PublishChecks(m) ==
  /\ publish[m] = "idle"
  /\ publish' = [publish EXCEPT ![m] = IF closed THEN "refused" ELSE "checked"]
  /\ UNCHANGED <<messages, subscribed, worker, retries, runs, fate, stats, control>>

PublishSends(m) ==
  /\ publish[m] = "checked"
  /\ HasRoom
  /\ messages' = Append(messages, m)
  /\ publish' = [publish EXCEPT ![m] = "sent"]
  /\ UNCHANGED <<subscribed, worker, retries, runs, fate, stats, control>>

(* The channel is full, or the publisher's context is done.                *)
PublishRefused(m) ==
  /\ publish[m] = "checked"
  /\ publish' = [publish EXCEPT ![m] = "refused"]
  /\ UNCHANGED <<messages, subscribed, worker, retries, runs, fate, stats, control>>

IncrementPublished(m) ==
  /\ publish[m] = "sent"
  /\ publish' = [publish EXCEPT ![m] = "published"]
  /\ stats' = [stats EXCEPT !.published = @ + 1]
  /\ UNCHANGED <<messages, subscribed, worker, retries, runs, fate, control>>

Subscribe ==
  /\ subscribed' = ~subscribed
  /\ UNCHANGED <<publish, messages, worker, retries, runs, fate, stats, control>>

----------------------------------------------------------------------------
(* worker and processMessage.                                              *)

Remaining_All(s) == s

Remaining(s) == Tail(s)

(* The select may choose a message although q.ctx is done.                 *)
Receive(w) ==
  /\ worker[w].pc = "select"
  /\ messages # << >>
  /\ worker' = [worker EXCEPT ![w] = [pc |-> "received", msg |-> Head(messages)]]
  /\ messages' = Remaining(messages)
  /\ UNCHANGED <<publish, subscribed, retries, runs, fate, stats, control>>

Exit(w) ==
  /\ worker[w].pc = "select"
  /\ cancelled
  /\ worker' = [worker EXCEPT ![w] = Exited]
  /\ UNCHANGED <<publish, messages, subscribed, retries, runs, fate, stats, control>>

CallHandler(w) ==
  /\ worker[w].pc = "received"
  /\ subscribed
  /\ worker' = [worker EXCEPT ![w].pc = "handling"]
  /\ runs' = [runs EXCEPT ![worker[w].msg] = @ + 1]
  /\ UNCHANGED <<publish, messages, subscribed, retries, fate, stats, control>>

(* The worker is done with its message and selects again.                  *)
Finish(w, f) ==
  /\ fate' = [fate EXCEPT ![worker[w].msg] = f]
  /\ worker' = [worker EXCEPT ![w] = Idle]

Discard(w) ==
  /\ worker[w].pc = "received"
  /\ ~subscribed
  /\ Finish(w, "discarded")
  /\ UNCHANGED <<publish, messages, subscribed, retries, runs, stats, control>>

HandlerSucceeds(w) ==
  /\ worker[w].pc = "handling"
  /\ Finish(w, "processed")
  /\ stats' = [stats EXCEPT !.processed = @ + 1]
  /\ UNCHANGED <<publish, messages, subscribed, retries, runs, control>>

(* handleFailure: the failed message sleeps with its worker and is put     *)
(* back, or is given up after MaxRetries retries.                          *)
MayRetry(m) == retries[m] + 1 <= MaxRetries

HandlerFails(w) ==
  /\ worker[w].pc = "handling"
  /\ MayRetry(worker[w].msg)
  /\ retries' = [retries EXCEPT ![worker[w].msg] = @ + 1]
  /\ worker' = [worker EXCEPT ![w].pc = "backoff"]
  /\ UNCHANGED <<publish, messages, subscribed, runs, fate, stats, control>>

FailedBy == [stats EXCEPT !.failed = @ + 1]

GiveUp(w) ==
  /\ worker[w].pc = "handling"
  /\ ~MayRetry(worker[w].msg)
  /\ retries' = [retries EXCEPT ![worker[w].msg] = @ + 1]
  /\ Finish(w, "failed")
  /\ stats' = FailedBy
  /\ UNCHANGED <<publish, messages, subscribed, runs, control>>

PutBack(w) ==
  /\ worker[w].pc = "backoff"
  /\ HasRoom
  /\ messages' = Append(messages, worker[w].msg)
  /\ worker' = [worker EXCEPT ![w] = Idle]
  /\ UNCHANGED <<publish, subscribed, retries, runs, fate, stats, control>>

DropRetry_SendBlocks(w) == FALSE

(* Publishers have filled the channel in the meantime: the retry is lost.  *)
DropRetry(w) ==
  /\ worker[w].pc = "backoff"
  /\ ~HasRoom
  /\ Finish(w, "failed")
  /\ stats' = FailedBy
  /\ UNCHANGED <<publish, messages, subscribed, retries, runs, control>>

----------------------------------------------------------------------------
(* WorkerPool.Stop cancels the context of the workers, then calls Stop,    *)
(* which closes the queue and waits for the workers, but not for ever.     *)

AllExited_OneIsEnough == \E w \in Workers : worker[w] = Exited

AllExited == \A w \in Workers : worker[w] = Exited

Cancel ==
  /\ ~cancelled
  /\ cancelled' = TRUE
  /\ UNCHANGED <<publish, messages, subscribed, worker, retries, runs, fate, stats, stop>>

Close ==
  /\ stop = "running"
  /\ stop' = "closed"
  /\ UNCHANGED <<publish, messages, subscribed, worker, retries, runs, fate, stats, cancelled>>

Wait ==
  /\ stop = "closed"
  /\ cancelled
  /\ stop' = "waiting"
  /\ UNCHANGED <<publish, messages, subscribed, worker, retries, runs, fate, stats, cancelled>>

StopReturns ==
  /\ stop = "waiting"
  /\ AllExited
  /\ stop' = "stopped"
  /\ UNCHANGED <<publish, messages, subscribed, worker, retries, runs, fate, stats, cancelled>>

(* After ten seconds.                                                      *)
StopTimesOut ==
  /\ stop = "waiting"
  /\ ~AllExited
  /\ stop' = "timedOut"
  /\ UNCHANGED <<publish, messages, subscribed, worker, retries, runs, fate, stats, cancelled>>

----------------------------------------------------------------------------
PublishStep(m) == PublishChecks(m) \/ PublishSends(m) \/ PublishRefused(m) \/ IncrementPublished(m)
HandlerStep(w) == HandlerSucceeds(w) \/ HandlerFails(w) \/ GiveUp(w)
WorkerStep(w) ==
  Receive(w) \/ Exit(w) \/ CallHandler(w) \/ Discard(w) \/ HandlerStep(w) \/ PutBack(w) \/ DropRetry(w)
StopStep == Cancel \/ Close \/ Wait \/ StopReturns \/ StopTimesOut

Next ==
  \/ \E m \in Messages : PublishStep(m)
  \/ \E w \in Workers : WorkerStep(w)
  \/ Subscribe
  \/ StopStep

Spec == Init /\ [][Next]_vars

(* Workers run and handlers return, which have a context of thirty         *)
(* seconds.                                                                *)
FairSpec == Spec /\ \A w \in Workers : WF_vars(WorkerStep(w))

----------------------------------------------------------------------------
TypeOK ==
  /\ publish \in [Messages -> {"idle", "checked", "sent", "published", "refused"}]
  /\ messages \in Seq(Messages)
  /\ Len(messages) <= BufferSize
  /\ subscribed \in BOOLEAN
  /\ worker \in [Workers -> [pc : {"select", "received", "handling", "backoff", "exited"},
                             msg : Messages \union {NoMessage}]]
  /\ retries \in [Messages -> 0 .. MaxRetries + 1]
  /\ runs \in [Messages -> Nat]
  /\ fate \in [Messages -> {"none", "processed", "failed", "discarded"}]
  /\ stats \in [published : Nat, processed : Nat, failed : Nat]
  /\ cancelled \in BOOLEAN
  /\ stop \in {"running", "closed", "waiting", "stopped", "timedOut"}

(* A message that was sent is at one place of the channel, or with one     *)
(* worker, or done with, however often it was retried (queue.go:263): the  *)
(* handler never runs twice at a time for it, and it is not lost.          *)
MessageInOnePlace ==
  \A m \in Messages :
    LET places == Cardinality({k \in DOMAIN messages : messages[k] = m}) + Cardinality(HeldBy(m)) IN
    places = IF Sent(m) /\ fate[m] = "none" THEN 1 ELSE 0

(* A handler is called at most once more than there are retries, and a     *)
(* message that was processed is not handled again (queue.go:257).         *)
RunsBounded ==
  \A m \in Messages : runs[m] <= MaxRetries + 1 /\ (fate[m] = "processed" => runs[m] = retries[m] + 1)

Having(f) == Cardinality({m \in Messages : fate[m] = f})
Busy == {w \in Workers : worker[w].msg # NoMessage}

(* Published is counted after the message can be processed, so Stats can   *)
(* show more processed than published; when no Publish is between the two, *)
(* the counters account for every message but the discarded (queue.go:140).*)
StatsAddUp ==
  (\A m \in Messages : publish[m] # "sent") =>
    stats.published = stats.processed + stats.failed + Having("discarded") + Len(messages) + Cardinality(Busy)

(* However publishers, workers and a stop interleave, a message is in one  *)
(* place, is handled a bounded number of times and is counted once         *)
(* (queue.go:137, 224, 257).                                               *)
MessagesAreAccountedFor == TypeOK /\ MessageInOnePlace /\ RunsBounded /\ StatsAddUp

(* When Stop has returned without an error no handler runs any more, and   *)
(* what is left in the channel stays there (queue.go:187).                 *)
StopEndsProcessing ==
  [][stop = "stopped" => UNCHANGED <<worker, fate, runs, retries>>]_vars

(* Every message that was sent is processed, discarded or given up, unless *)
(* the context of the workers ends.                                        *)
SentIsSettled ==
  \A m \in Messages : Sent(m) ~> (fate[m] # "none" \/ cancelled)
=============================================================================
