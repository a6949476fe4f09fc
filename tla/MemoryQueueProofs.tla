-------------------------- MODULE MemoryQueueProofs -------------------------
(***************************************************************************)
(* Proofs about MemoryQueue, for any number of publishers and workers, any *)
(* buffer and any number of retries.                                       *)
(*                                                                         *)
(* The inductive invariant says of the channel that it holds no message    *)
(* twice (Distinct), of the workers that no two hold the same message and  *)
(* none holds one that is in the channel (Holds), that a message is there  *)
(* exactly when it was sent and is not done with (Placed), and how often   *)
(* the handler ran for it at each place (Ran).  The counters are sizes of  *)
(* sets of messages (Counted), which partition those that were published.  *)
(***************************************************************************)
EXTENDS MemoryQueue, FiniteSetTheorems, TLAPS

USE QueueAssumption DEF QueueAssumption

Held(m) == \E w \in Workers : worker[w].msg = m

Distinct == \A i, j \in 1 .. Len(messages) : messages[i] = messages[j] => i = j

Holds ==
  /\ \A w \in Workers : worker[w].msg = NoMessage <=> worker[w].pc \in {"select", "exited"}
  /\ \A v, w \in Workers : worker[v].msg # NoMessage /\ worker[v].msg = worker[w].msg => v = w
  /\ \A w \in Workers : worker[w].msg # NoMessage => ~InChannel(worker[w].msg)

Placed ==
  \A m \in Messages :
    /\ Sent(m) /\ fate[m] = "none" <=> InChannel(m) \/ Held(m)
    /\ ~Sent(m) => fate[m] = "none" /\ runs[m] = 0 /\ retries[m] = 0

RanAt(m, pc) ==
  /\ retries[m] <= MaxRetries
  /\ pc = "handling" => runs[m] = retries[m] + 1
  /\ pc # "handling" => runs[m] = retries[m]

Ran ==
  /\ \A m \in Messages :
       /\ runs[m] <= MaxRetries + 1
       /\ InChannel(m) => RanAt(m, "channel")
       /\ fate[m] = "processed" => runs[m] = retries[m] + 1
  /\ \A w \in Workers : worker[w].msg # NoMessage => RanAt(worker[w].msg, worker[w].pc)

PlaceInv == TypeOK /\ Distinct /\ Holds /\ Placed /\ Ran

----------------------------------------------------------------------------
(* The channel.                                                            *)

LEMMA ChannelElements ==
  ASSUME TypeOK
  PROVE  /\ Len(messages) \in Nat /\ DOMAIN messages = 1 .. Len(messages)
         /\ \A m : InChannel(m) <=> \E k \in 1 .. Len(messages) : messages[k] = m
         /\ \A m : InChannel(m) => m \in Messages
BY DEF TypeOK, InChannel

LEMMA ChannelAfterAppend ==
  ASSUME TypeOK, Distinct, NEW m \in Messages, ~InChannel(m), messages' = Append(messages, m), HasRoom
  PROVE  /\ Distinct'
         /\ messages' \in Seq(Messages) /\ Len(messages') <= BufferSize
         /\ \A x : InChannel(x)' <=> InChannel(x) \/ x = m
<1>1. Len(messages) \in Nat /\ messages \in Seq(Messages)
  BY DEF TypeOK
<1>2. /\ messages' \in Seq(Messages) /\ Len(messages') = Len(messages) + 1
      /\ DOMAIN messages' = 1 .. Len(messages) + 1
      /\ messages'[Len(messages) + 1] = m
      /\ \A k \in 1 .. Len(messages) : messages'[k] = messages[k]
  BY <1>1
<1>3. \A k \in 1 .. Len(messages) : messages[k] # m
  BY ChannelElements
<1>4. Distinct'
  BY <1>1, <1>2, <1>3 DEF Distinct
<1>5. ASSUME NEW x
      PROVE  InChannel(x)' <=> InChannel(x) \/ x = m
  <2>1. InChannel(x)' <=> \E k \in 1 .. Len(messages) + 1 : messages'[k] = x
    BY <1>2 DEF InChannel
  <2>2. (\E k \in 1 .. Len(messages) + 1 : messages'[k] = x) <=> (\E k \in 1 .. Len(messages) : messages[k] = x) \/ x = m
    BY <1>1, <1>2
  <2>3. QED
    BY <2>1, <2>2, ChannelElements
<1>6. QED
  BY <1>1, <1>2, <1>4, <1>5 DEF HasRoom

LEMMA ChannelAfterTail ==
  ASSUME TypeOK, Distinct, messages # << >>, messages' = Tail(messages)
  PROVE  /\ Distinct'
         /\ messages' \in Seq(Messages) /\ Len(messages') <= BufferSize
         /\ Head(messages) \in Messages /\ InChannel(Head(messages))
         /\ \A x : InChannel(x)' <=> InChannel(x) /\ x # Head(messages)
<1>1. Len(messages) \in Nat \ {0} /\ messages \in Seq(Messages)
  BY DEF TypeOK
<1>2. /\ messages' \in Seq(Messages) /\ Len(messages') = Len(messages) - 1
      /\ DOMAIN messages' = 1 .. Len(messages) - 1
      /\ \A k \in 1 .. Len(messages) - 1 : messages'[k] = messages[k + 1]
      /\ Head(messages) = messages[1] /\ messages[1] \in Messages
  BY <1>1
<1>3. Distinct'
  BY <1>1, <1>2 DEF Distinct
<1>4. InChannel(Head(messages))
  BY <1>1, <1>2, ChannelElements
<1>5. ASSUME NEW x
      PROVE  InChannel(x)' <=> InChannel(x) /\ x # Head(messages)
  <2>1. InChannel(x)' <=> \E k \in 1 .. Len(messages) - 1 : messages[k + 1] = x
    BY <1>2 DEF InChannel
  <2>2. ASSUME NEW k \in 1 .. Len(messages) - 1, messages[k + 1] = x
        PROVE  InChannel(x) /\ x # Head(messages)
    <3>1. k + 1 \in 1 .. Len(messages) /\ 1 \in 1 .. Len(messages) /\ k + 1 # 1
      BY <1>1
    <3>2. messages[k + 1] # messages[1]
      BY <3>1 DEF Distinct
    <3>3. QED
      BY <1>2, <2>2, <3>1, <3>2, ChannelElements
  <2>3. ASSUME InChannel(x), x # Head(messages)
        PROVE  \E k \in 1 .. Len(messages) - 1 : messages[k + 1] = x
    <3>1. PICK j \in 1 .. Len(messages) : messages[j] = x
      BY <2>3, ChannelElements
    <3>2. j # 1
      BY <1>2, <2>3, <3>1
    <3>3. j - 1 \in 1 .. Len(messages) - 1 /\ (j - 1) + 1 = j
      BY <1>1, <3>2
    <3>4. QED
      BY <3>1, <3>3
  <2>4. QED
    BY <2>1, <2>2, <2>3
<1>6. QED
  BY <1>1, <1>2, <1>3, <1>4, <1>5 DEF TypeOK

----------------------------------------------------------------------------
(* Types.                                                                  *)

LEMMA HolderFacts ==
  ASSUME TypeOK, Holds, NEW w \in Workers
  PROVE  /\ worker[w].pc \in {"select", "received", "handling", "backoff", "exited"}
         /\ worker[w].pc \in {"received", "handling", "backoff"} =>
              worker[w].msg \in Messages /\ worker[w].msg # NoMessage
         /\ worker[w] = [pc |-> worker[w].pc, msg |-> worker[w].msg]
BY DEF TypeOK, Holds

Counters == [published : Nat, processed : Nat, failed : Nat]

LEMMA CountersStayTyped ==
  ASSUME TypeOK,
         \/ stats' = [stats EXCEPT !.published = @ + 1]
         \/ stats' = [stats EXCEPT !.processed = @ + 1]
         \/ stats' = FailedBy
  PROVE  stats' \in [published : Nat, processed : Nat, failed : Nat]
<1>1. stats \in Counters
  BY DEF TypeOK, Counters
<1>2. stats' \in Counters
  BY <1>1 DEF Counters, FailedBy
<1>3. QED
  BY <1>2 DEF Counters

WorkerStates ==
  [pc : {"select", "received", "handling", "backoff", "exited"}, msg : Messages \union {NoMessage}]

(* A worker that keeps its message.                                        *)
LEMMA WorkerMoves ==
  ASSUME TypeOK, NEW w \in Workers, NEW p \in {"handling", "backoff"}, worker' = [worker EXCEPT ![w].pc = p]
  PROVE  /\ worker' \in [Workers -> WorkerStates]
         /\ worker'[w].pc = p /\ worker'[w].msg = worker[w].msg
         /\ \A v \in Workers \ {w} : worker'[v] = worker[v]
<1>1. worker \in [Workers -> WorkerStates]
  BY DEF TypeOK, WorkerStates
<1>2. worker[w] \in WorkerStates
  BY <1>1
<1>3. [worker[w] EXCEPT !.pc = p] = [pc |-> p, msg |-> worker[w].msg]
  BY <1>2 DEF WorkerStates
<1>4. worker' = [worker EXCEPT ![w] = [pc |-> p, msg |-> worker[w].msg]]
  BY <1>1, <1>3
<1>5. QED
  BY <1>1, <1>2, <1>4 DEF WorkerStates

LEMMA TypeNext ==
  ASSUME PlaceInv, [Next]_vars
  PROVE  TypeOK'
<1> USE DEF PlaceInv
<1>1. ASSUME NEW m \in Messages, PublishSends(m) PROVE TypeOK'
  <2>1. ~InChannel(m)
    BY <1>1 DEF PublishSends, Placed, Sent
  <2>2. messages' \in Seq(Messages) /\ Len(messages') <= BufferSize
    BY <1>1, <2>1, ChannelAfterAppend DEF PublishSends
  <2>3. QED
    BY <1>1, <2>2 DEF PublishSends, control, TypeOK
<1>2. ASSUME NEW m \in Messages, PublishChecks(m) \/ PublishRefused(m) PROVE TypeOK'
  BY <1>2 DEF PublishChecks, PublishRefused, control, TypeOK
<1>3. ASSUME NEW m \in Messages, IncrementPublished(m) PROVE TypeOK'
  <2>1. stats' \in [published : Nat, processed : Nat, failed : Nat]
    BY <1>3, CountersStayTyped DEF IncrementPublished
  <2>2. QED
    BY <1>3, <2>1 DEF IncrementPublished, control, TypeOK
<1>4. ASSUME NEW w \in Workers, Receive(w) PROVE TypeOK'
  <2>1. Head(messages) \in Messages /\ messages' \in Seq(Messages) /\ Len(messages') <= BufferSize
    BY <1>4, ChannelAfterTail DEF Receive, Remaining
  <2>2. QED
    BY <1>4, <2>1 DEF Receive, control, TypeOK
<1>5. ASSUME NEW w \in Workers, Exit(w) PROVE TypeOK'
  BY <1>5 DEF Exit, Exited, control, TypeOK
<1>6. ASSUME NEW w \in Workers, CallHandler(w) PROVE TypeOK'
  <2>1. worker[w].msg \in Messages
    BY <1>6, HolderFacts DEF CallHandler
  <2>2. worker' \in [Workers -> WorkerStates]
    BY <1>6, WorkerMoves DEF CallHandler
  <2>3. QED
    BY <1>6, <2>1, <2>2 DEF CallHandler, control, TypeOK, WorkerStates
<1>7. ASSUME NEW w \in Workers, HandlerFails(w) PROVE TypeOK'
  <2>1. worker[w].msg \in Messages /\ retries[worker[w].msg] + 1 \in 0 .. MaxRetries + 1
    BY <1>7, HolderFacts DEF HandlerFails, MayRetry, TypeOK
  <2>2. retries' \in [Messages -> 0 .. MaxRetries + 1]
    BY <1>7, <2>1 DEF HandlerFails, TypeOK
  <2>3. worker' \in [Workers -> WorkerStates]
    BY <1>7, WorkerMoves DEF HandlerFails
  <2>4. QED
    BY <1>7, <2>2, <2>3 DEF HandlerFails, control, TypeOK, WorkerStates
<1>8. ASSUME NEW w \in Workers, Discard(w) PROVE TypeOK'
  BY <1>8 DEF Discard, Finish, Idle, control, TypeOK
<1>9. ASSUME NEW w \in Workers, HandlerSucceeds(w) PROVE TypeOK'
  <2>1. stats' \in [published : Nat, processed : Nat, failed : Nat]
    BY <1>9, CountersStayTyped DEF HandlerSucceeds
  <2>2. QED
    BY <1>9, <2>1 DEF HandlerSucceeds, Finish, Idle, control, TypeOK
<1>10. ASSUME NEW w \in Workers, GiveUp(w) PROVE TypeOK'
  <2>1. worker[w].msg \in Messages /\ retries[worker[w].msg] + 1 \in 0 .. MaxRetries + 1
    BY <1>10, HolderFacts DEF GiveUp, Holds, Ran, RanAt, TypeOK
  <2>2. stats' \in [published : Nat, processed : Nat, failed : Nat]
    BY <1>10, CountersStayTyped DEF GiveUp
  <2>3. QED
    BY <1>10, <2>1, <2>2 DEF GiveUp, Finish, Idle, control, TypeOK
<1>11. ASSUME NEW w \in Workers, PutBack(w) PROVE TypeOK'
  <2>1. worker[w].msg \in Messages /\ ~InChannel(worker[w].msg)
    BY <1>11, HolderFacts DEF PutBack, Holds
  <2>2. messages' \in Seq(Messages) /\ Len(messages') <= BufferSize
    BY <1>11, <2>1, ChannelAfterAppend DEF PutBack
  <2>3. QED
    BY <1>11, <2>2 DEF PutBack, Idle, control, TypeOK
<1>12. ASSUME NEW w \in Workers, DropRetry(w) PROVE TypeOK'
  <2>1. stats' \in [published : Nat, processed : Nat, failed : Nat]
    BY <1>12, CountersStayTyped DEF DropRetry
  <2>2. QED
    BY <1>12, <2>1 DEF DropRetry, Finish, Idle, control, TypeOK
<1>13. CASE Subscribe \/ StopStep \/ UNCHANGED vars
  BY <1>13 DEF Subscribe, StopStep, Cancel, Close, Wait, StopReturns, StopTimesOut, vars, control, TypeOK
<1>14. QED
  BY <1>1, <1>2, <1>3, <1>4, <1>5, <1>6, <1>7, <1>8, <1>9, <1>10, <1>11, <1>12, <1>13
  DEF Next, PublishStep, WorkerStep, HandlerStep

----------------------------------------------------------------------------
(* Where the messages are after a step.                                    *)

LEMMA OtherWorkers ==
  ASSUME TypeOK, NEW w \in Workers, NEW r, worker' = [worker EXCEPT ![w] = r]
  PROVE  worker'[w] = r /\ \A v \in Workers : v # w => worker'[v] = worker[v]
BY DEF TypeOK

LEMMA PublishSendsPlaces ==
  ASSUME PlaceInv, NEW m \in Messages, PublishSends(m)
  PROVE  Distinct' /\ Holds' /\ Placed' /\ Ran'
<1> USE DEF PlaceInv
<1>1. ~Sent(m) /\ ~InChannel(m) /\ ~Held(m) /\ fate[m] = "none" /\ runs[m] = 0 /\ retries[m] = 0
  BY DEF PublishSends, Placed, Sent
<1>2. Distinct' /\ \A x : InChannel(x)' <=> InChannel(x) \/ x = m
  BY <1>1, ChannelAfterAppend DEF PublishSends
<1>3. worker' = worker /\ retries' = retries /\ runs' = runs /\ fate' = fate
  BY DEF PublishSends
<1>4. Sent(m)' /\ \A x \in Messages : x # m => Sent(x)' = Sent(x)
  BY DEF PublishSends, Sent, TypeOK
<1>5. Holds'
  <2>1. ASSUME NEW v \in Workers, worker[v].msg # NoMessage PROVE ~InChannel(worker[v].msg)'
    BY <1>1, <1>2, <1>3, <2>1 DEF Holds, Held
  <2>2. QED
    BY <1>3, <2>1 DEF Holds
<1>6. \A x \in Messages : Held(x)' = Held(x)
  BY <1>3 DEF Held
<1>7. Placed'
  BY <1>1, <1>2, <1>3, <1>4, <1>6 DEF Placed
<1>8. Ran'
  BY <1>1, <1>2, <1>3 DEF Ran, RanAt
<1>9. QED
  BY <1>2, <1>5, <1>7, <1>8

LEMMA ReceivePlaces ==
  ASSUME PlaceInv, NEW w \in Workers, Receive(w)
  PROVE  Distinct' /\ Holds' /\ Placed' /\ Ran'
<1> USE DEF PlaceInv
<1> DEFINE m == Head(messages)
<1>1. /\ Distinct' /\ m \in Messages /\ InChannel(m) /\ m # NoMessage
      /\ \A x : InChannel(x)' <=> InChannel(x) /\ x # m
  BY ChannelAfterTail DEF Receive, Remaining, NoMessage
<1>2. publish' = publish /\ retries' = retries /\ runs' = runs /\ fate' = fate
  BY DEF Receive
<1>3. /\ worker'[w] = [pc |-> "received", msg |-> m]
      /\ \A v \in Workers : v # w => worker'[v] = worker[v]
  BY OtherWorkers DEF Receive
<1>4. worker'[w].pc = "received" /\ worker'[w].msg = m
  BY <1>3
<1>5. worker[w].msg = NoMessage
  BY DEF Receive, Holds
<1>6. \A v \in Workers : worker[v].msg # m
  BY <1>1 DEF Holds
<1>7. Holds'
  BY <1>1, <1>3, <1>4, <1>6 DEF Holds
<1>8. \A x \in Messages : Held(x)' <=> Held(x) \/ x = m
  BY <1>3, <1>4, <1>5 DEF Held, NoMessage
<1>9. Placed'
  BY <1>1, <1>2, <1>8 DEF Placed, Sent
<1>10. Ran'
  BY <1>1, <1>2, <1>3, <1>4 DEF Ran, RanAt
<1>11. QED
  BY <1>1, <1>7, <1>9, <1>10

LEMMA PutBackPlaces ==
  ASSUME PlaceInv, NEW w \in Workers, PutBack(w)
  PROVE  Distinct' /\ Holds' /\ Placed' /\ Ran'
<1> USE DEF PlaceInv
<1> DEFINE m == worker[w].msg
<1>1. m \in Messages /\ m # NoMessage /\ ~InChannel(m) /\ worker[w].pc = "backoff"
  BY HolderFacts DEF PutBack, Holds
<1>2. Distinct' /\ \A x : InChannel(x)' <=> InChannel(x) \/ x = m
  BY <1>1, ChannelAfterAppend DEF PutBack
<1>3. publish' = publish /\ retries' = retries /\ runs' = runs /\ fate' = fate
  BY DEF PutBack
<1>4. worker'[w] = Idle /\ \A v \in Workers : v # w => worker'[v] = worker[v]
  BY OtherWorkers DEF PutBack
<1>5. worker'[w].pc = "select" /\ worker'[w].msg = NoMessage
  BY <1>4 DEF Idle
<1>6. \A v \in Workers : v # w => worker[v].msg # m
  BY <1>1 DEF Holds
<1>7. Holds'
  BY <1>1, <1>2, <1>4, <1>5, <1>6 DEF Holds
<1>8. \A x \in Messages : Held(x)' <=> Held(x) /\ x # m
  BY <1>1, <1>4, <1>5, <1>6 DEF Held, NoMessage
<1>9. Held(m)
  BY DEF Held
<1>10. Placed'
  BY <1>1, <1>2, <1>3, <1>8, <1>9 DEF Placed, Sent
<1>11. Ran'
  BY <1>1, <1>2, <1>3, <1>4, <1>5 DEF Ran, RanAt
<1>12. QED
  BY <1>2, <1>7, <1>10, <1>11

(* A message that is processed, discarded or given up.                     *)
LEMMA FinishPlaces ==
  ASSUME PlaceInv, NEW w \in Workers, worker[w].pc \in {"received", "handling", "backoff"},
         NEW f \in {"processed", "failed", "discarded"}, Finish(w, f),
         f = "processed" => worker[w].pc = "handling",
         publish' = publish, messages' = messages, runs' = runs,
         retries' = retries \/ (f = "failed" /\ retries' = [retries EXCEPT ![worker[w].msg] = @ + 1])
  PROVE  Distinct' /\ Holds' /\ Placed' /\ Ran'
<1> USE DEF PlaceInv
<1> DEFINE m == worker[w].msg
<1>1. m \in Messages /\ m # NoMessage /\ ~InChannel(m) /\ Held(m)
  BY HolderFacts DEF Holds, Held
<1>2. Distinct' /\ \A x : InChannel(x)' = InChannel(x)
  BY DEF Distinct, InChannel
<1>3. worker'[w] = Idle /\ \A v \in Workers : v # w => worker'[v] = worker[v]
  BY OtherWorkers DEF Finish
<1>4. worker'[w].pc = "select" /\ worker'[w].msg = NoMessage
  BY <1>3 DEF Idle
<1>5. \A v \in Workers : v # w => worker[v].msg # m
  BY <1>1 DEF Holds
<1>6. Holds'
  BY <1>1, <1>2, <1>3, <1>4, <1>5 DEF Holds
<1>7. \A x \in Messages : Held(x)' <=> Held(x) /\ x # m
  BY <1>1, <1>3, <1>4, <1>5 DEF Held, NoMessage
<1>8. fate'[m] = f /\ \A x \in Messages : x # m => fate'[x] = fate[x]
  BY <1>1 DEF Finish, TypeOK
<1>9. \A x \in Messages : x # m => retries'[x] = retries[x]
  BY <1>1 DEF TypeOK
<1>10. Sent(m) /\ f # "none" /\ \A x \in Messages : Sent(x)' = Sent(x)
  BY <1>1 DEF Placed, Sent
<1>11. Placed'
  BY <1>1, <1>2, <1>7, <1>8, <1>9, <1>10 DEF Placed
<1>12. Ran'
  <2>1. f = "processed" => runs[m] = retries[m] + 1 /\ retries'[m] = retries[m]
    BY <1>1 DEF Ran, RanAt
  <2>2. \A v \in Workers : worker'[v].msg # NoMessage => v # w
    BY <1>4
  <2>3. \A x \in Messages : fate'[x] = "processed" => runs[x] = retries'[x] + 1
    BY <1>8, <1>9, <2>1 DEF Ran
  <2>4. \A x \in Messages : InChannel(x) => RanAt(x, "channel")'
    BY <1>1, <1>9 DEF Ran, RanAt
  <2>5. ASSUME NEW v \in Workers, worker'[v].msg # NoMessage PROVE RanAt(worker[v].msg, worker[v].pc)'
    <3>1. v # w /\ worker[v].msg \in Messages /\ worker[v].msg # m /\ worker[v] = worker'[v]
      BY <1>3, <1>5, <2>2, <2>5 DEF TypeOK
    <3>2. QED
      BY <1>9, <2>5, <3>1 DEF Ran, RanAt
  <2>6. QED
    BY <1>2, <1>3, <2>2, <2>3, <2>4, <2>5 DEF Ran, RanAt
<1>13. QED
  BY <1>2, <1>6, <1>11, <1>12
LEMMA HandlerPlaces ==
  ASSUME PlaceInv, NEW w \in Workers, CallHandler(w) \/ HandlerFails(w)
  PROVE  Distinct' /\ Holds' /\ Placed' /\ Ran'
<1> USE DEF PlaceInv
<1> DEFINE m == worker[w].msg
<1>1. /\ worker[w].pc \in {"received", "handling"} /\ m \in Messages /\ m # NoMessage
      /\ ~InChannel(m) /\ Sent(m)
  BY HolderFacts DEF CallHandler, HandlerFails, Holds, Placed, Held
<1>2. Distinct' /\ \A x : InChannel(x)' = InChannel(x)
  BY DEF CallHandler, HandlerFails, Distinct, InChannel
<1>3. /\ worker'[w].pc \in {"handling", "backoff"} /\ worker'[w].msg = m
      /\ \A v \in Workers : v # w => worker'[v] = worker[v]
  BY WorkerMoves DEF CallHandler, HandlerFails
<1>4. \A v \in Workers : worker'[v].msg = worker[v].msg
  BY <1>3
<1>5. \A v \in Workers : v # w => worker[v].msg # m
  BY <1>1 DEF Holds
<1>6. Holds'
  BY <1>1, <1>2, <1>3, <1>4 DEF Holds, NoMessage
<1>7. \A x \in Messages : Held(x)' = Held(x)
  BY <1>4 DEF Held
<1>8. publish' = publish /\ fate' = fate /\ fate[m] = "none"
  BY <1>1 DEF CallHandler, HandlerFails, Placed, Held
<1>9. \A x \in Messages : x # m => retries'[x] = retries[x] /\ runs'[x] = runs[x]
  BY <1>1 DEF CallHandler, HandlerFails, TypeOK
<1>10. Placed'
  BY <1>1, <1>2, <1>7, <1>8, <1>9 DEF Placed, Sent
<1>11. /\ RanAt(m, worker[w].pc) /\ retries[m] \in Nat /\ runs[m] \in Nat
  BY <1>1 DEF Ran, TypeOK
<1>12. /\ retries'[m] <= MaxRetries /\ runs'[m] <= MaxRetries + 1
       /\ worker'[w].pc = "handling" => runs'[m] = retries'[m] + 1
       /\ worker'[w].pc = "backoff" => runs'[m] = retries'[m]
  <2>1. CASE CallHandler(w)
    <3>1. worker[w].pc = "received" /\ worker'[w].pc = "handling"
      BY <2>1, WorkerMoves DEF CallHandler
    <3>2. retries' = retries /\ runs'[m] = runs[m] + 1
      BY <1>1, <2>1 DEF CallHandler, TypeOK
    <3>3. QED
      BY <1>11, <3>1, <3>2 DEF RanAt
  <2>2. CASE HandlerFails(w)
    <3>1. worker[w].pc = "handling" /\ worker'[w].pc = "backoff"
      BY <2>2, WorkerMoves DEF HandlerFails
    <3>2. runs' = runs /\ retries'[m] = retries[m] + 1 /\ retries[m] + 1 <= MaxRetries
      BY <1>1, <2>2 DEF HandlerFails, MayRetry, TypeOK
    <3>3. QED
      BY <1>11, <3>1, <3>2 DEF RanAt
  <2>3. QED
    BY <2>1, <2>2
<1>13. \A x \in Messages : /\ runs'[x] <= MaxRetries + 1
                           /\ InChannel(x)' => RanAt(x, "channel")'
                           /\ fate'[x] = "processed" => runs'[x] = retries'[x] + 1
  BY <1>1, <1>2, <1>8, <1>9, <1>12 DEF Ran, RanAt
<1>14. ASSUME NEW v \in Workers, worker'[v].msg # NoMessage PROVE RanAt(worker[v].msg, worker[v].pc)'
  <2>1. CASE v = w
    BY <1>3, <1>12, <2>1 DEF RanAt
  <2>2. CASE v # w
    <3>1. worker[v].msg \in Messages /\ worker[v].msg # m /\ worker'[v] = worker[v]
      BY <1>3, <1>5, <1>14, <2>2 DEF TypeOK
    <3>2. QED
      BY <1>9, <1>14, <3>1 DEF Ran, RanAt
  <2>3. QED
    BY <2>1, <2>2
<1>15. Ran'
  BY <1>13, <1>14 DEF Ran, RanAt
<1>16. QED
  BY <1>2, <1>6, <1>10, <1>15

LEMMA ExitPlaces ==
  ASSUME PlaceInv, NEW w \in Workers, Exit(w)
  PROVE  Distinct' /\ Holds' /\ Placed' /\ Ran'
<1> USE DEF PlaceInv
<1>1. worker'[w] = Exited /\ \A v \in Workers : v # w => worker'[v] = worker[v]
  BY OtherWorkers DEF Exit
<1>2. worker'[w].pc = "exited" /\ worker'[w].msg = NoMessage /\ worker[w].msg = NoMessage
  BY <1>1 DEF Exited, Exit, Holds
<1>3. \A v \in Workers : worker'[v].msg = worker[v].msg
  BY <1>1, <1>2
<1>4. Distinct' /\ \A x : InChannel(x)' = InChannel(x)
  BY DEF Exit, Distinct, InChannel
<1>5. publish' = publish /\ fate' = fate /\ retries' = retries /\ runs' = runs
  BY DEF Exit
<1>6. Holds'
  BY <1>1, <1>2, <1>3, <1>4 DEF Holds
<1>7. \A x \in Messages : Held(x)' = Held(x)
  BY <1>3 DEF Held
<1>8. Placed'
  BY <1>4, <1>5, <1>7 DEF Placed, Sent
<1>9. Ran'
  BY <1>1, <1>2, <1>4, <1>5 DEF Ran, RanAt
<1>10. QED
  BY <1>4, <1>6, <1>8, <1>9

(* The steps that move no message.                                         *)
LEMMA StillPlaces ==
  ASSUME PlaceInv, messages' = messages, worker' = worker, fate' = fate, retries' = retries, runs' = runs,
         \A m \in Messages : Sent(m)' = Sent(m)
  PROVE  Distinct' /\ Holds' /\ Placed' /\ Ran'
<1> USE DEF PlaceInv
<1>1. Distinct' /\ \A x : InChannel(x)' = InChannel(x)
  BY DEF Distinct, InChannel
<1>2. Holds'
  BY <1>1 DEF Holds
<1>3. \A x : Held(x)' = Held(x)
  BY DEF Held
<1>4. Placed'
  BY <1>1, <1>3 DEF Placed
<1>5. Ran'
  BY <1>1 DEF Ran, RanAt
<1>6. QED
  BY <1>1, <1>2, <1>4, <1>5

LEMMA PlaceInit == Init => PlaceInv
<1> SUFFICES ASSUME Init PROVE PlaceInv
  OBVIOUS
<1>1. /\ messages = << >> /\ \A w \in Workers : worker[w] = Idle
      /\ \A m \in Messages : publish[m] = "idle" /\ fate[m] = "none" /\ runs[m] = 0 /\ retries[m] = 0
  BY DEF Init
<1>2. \A w \in Workers : worker[w].pc = "select" /\ worker[w].msg = NoMessage
  BY <1>1 DEF Idle
<1>3. TypeOK
  <2>1. worker \in [Workers -> WorkerStates]
    BY DEF Init, Idle, WorkerStates
  <2>2. stats \in [published : Nat, processed : Nat, failed : Nat]
    BY DEF Init
  <2>3. messages \in Seq(Messages) /\ Len(messages) <= BufferSize
    BY DEF Init
  <2>4. /\ retries \in [Messages -> 0 .. MaxRetries + 1] /\ runs \in [Messages -> Nat]
    BY DEF Init
  <2>5. QED
    BY <2>1, <2>2, <2>3, <2>4 DEF Init, TypeOK, WorkerStates
<1>4. \A x : ~InChannel(x)
  BY <1>1 DEF InChannel
<1>5. \A x \in Messages : ~Held(x)
  BY <1>2 DEF Held, NoMessage
<1>6. QED
  BY <1>1, <1>2, <1>3, <1>4, <1>5 DEF PlaceInv, Distinct, Holds, Placed, Ran, RanAt, Sent

LEMMA PlaceNext == PlaceInv /\ [Next]_vars => PlaceInv'
<1> SUFFICES ASSUME PlaceInv, [Next]_vars PROVE PlaceInv'
  OBVIOUS
<1> USE DEF PlaceInv
<1> DEFINE Goal == Distinct' /\ Holds' /\ Placed' /\ Ran'
<1>1. TypeOK'
  BY TypeNext
<1>2. ASSUME NEW m \in Messages, PublishStep(m) PROVE Goal
  <2>1. CASE PublishSends(m)
    BY <2>1, PublishSendsPlaces
  <2>2. CASE PublishChecks(m) \/ PublishRefused(m) \/ IncrementPublished(m)
    <3>1. \A x \in Messages : Sent(x)' = Sent(x)
      BY <2>2 DEF PublishChecks, PublishRefused, IncrementPublished, Sent, TypeOK
    <3>2. QED
      BY <2>2, <3>1, StillPlaces DEF PublishChecks, PublishRefused, IncrementPublished
  <2>3. QED
    BY <1>2, <2>1, <2>2 DEF PublishStep
<1>3. ASSUME NEW w \in Workers, WorkerStep(w) PROVE Goal
  <2>1. CASE Receive(w)
    BY <2>1, ReceivePlaces
  <2>2. CASE Exit(w)
    BY <2>2, ExitPlaces
  <2>3. CASE CallHandler(w) \/ HandlerFails(w)
    BY <2>3, HandlerPlaces
  <2>4. CASE Discard(w)
    BY <2>4, FinishPlaces DEF Discard
  <2>5. CASE HandlerSucceeds(w)
    BY <2>5, FinishPlaces DEF HandlerSucceeds
  <2>6. CASE GiveUp(w)
    BY <2>6, FinishPlaces DEF GiveUp
  <2>7. CASE DropRetry(w)
    BY <2>7, FinishPlaces DEF DropRetry
  <2>8. CASE PutBack(w)
    BY <2>8, PutBackPlaces
  <2>9. QED
    BY <1>3, <2>1, <2>2, <2>3, <2>4, <2>5, <2>6, <2>7, <2>8 DEF WorkerStep, HandlerStep
<1>4. CASE Subscribe \/ StopStep \/ UNCHANGED vars
  BY <1>1, <1>4, StillPlaces DEF Subscribe, StopStep, Cancel, Close, Wait, StopReturns, StopTimesOut, vars, Sent
<1>5. QED
  BY <1>1, <1>2, <1>3, <1>4 DEF Next
----------------------------------------------------------------------------
(* The counters are sizes of sets of messages.                             *)

Published == {m \in Messages : publish[m] = "published"}
WithFate(f) == {m \in Messages : fate[m] = f}
Queued == {m \in Messages : InChannel(m)}
InHands == {m \in Messages : Held(m)}

Counted ==
  /\ stats.published = Cardinality(Published)
  /\ stats.processed = Cardinality(WithFate("processed"))
  /\ stats.failed = Cardinality(WithFate("failed"))

Inv == PlaceInv /\ Counted

LEMMA Finite ==
  ASSUME NEW S \in SUBSET Messages
  PROVE  IsFiniteSet(S) /\ Cardinality(S) \in Nat
BY FS_Subset, FS_CardinalityType

LEMMA OneMore ==
  ASSUME NEW S \in SUBSET Messages, NEW m \in Messages, m \notin S
  PROVE  Cardinality(S \union {m}) = Cardinality(S) + 1
BY Finite, FS_AddElement

LEMMA PublishCounts ==
  ASSUME Inv, NEW m \in Messages, PublishStep(m)
  PROVE  Counted'
<1> USE DEF Inv, PlaceInv
<1>1. CASE IncrementPublished(m)
  <2>1. Published' = Published \union {m} /\ m \notin Published /\ Published \in SUBSET Messages
    BY <1>1 DEF IncrementPublished, Published, TypeOK
  <2>2. stats \in Counters
    BY DEF TypeOK, Counters
  <2>3. /\ stats'.published = stats.published + 1
        /\ stats'.processed = stats.processed /\ stats'.failed = stats.failed
    BY <1>1, <2>2 DEF IncrementPublished, Counters
  <2>4. WithFate("processed")' = WithFate("processed") /\ WithFate("failed")' = WithFate("failed")
    BY <1>1 DEF IncrementPublished, WithFate
  <2>5. QED
    BY <2>1, <2>3, <2>4, OneMore DEF Counted
<1>2. CASE PublishChecks(m) \/ PublishSends(m) \/ PublishRefused(m)
  <2>1. fate' = fate /\ stats' = stats
    BY <1>2 DEF PublishChecks, PublishSends, PublishRefused
  <2>2. \A x \in Messages : publish'[x] = "published" <=> publish[x] = "published"
    BY <1>2 DEF PublishChecks, PublishSends, PublishRefused, TypeOK
  <2>3. QED
    BY <2>1, <2>2 DEF Counted, Published, WithFate
<1>3. QED
  BY <1>1, <1>2 DEF PublishStep

(* One message more has the fate f.                                        *)
LEMMA FinishCounts ==
  ASSUME Inv, NEW w \in Workers, worker[w].pc \in {"received", "handling", "backoff"},
         NEW f \in {"processed", "failed", "discarded"}, Finish(w, f)
  PROVE  /\ Cardinality(WithFate(f)') = Cardinality(WithFate(f)) + 1
         /\ \A g \in {"processed", "failed", "discarded"} : g # f => WithFate(g)' = WithFate(g)
<1> USE DEF Inv, PlaceInv
<1> DEFINE m == worker[w].msg
<1>1. m \in Messages /\ fate[m] = "none"
  BY HolderFacts DEF Placed, Held
<1>2. fate'[m] = f /\ \A x \in Messages : x # m => fate'[x] = fate[x]
  BY <1>1 DEF Finish, TypeOK
<1>3. WithFate(f)' = WithFate(f) \union {m} /\ m \notin WithFate(f)
  BY <1>1, <1>2 DEF WithFate
<1>4. ASSUME NEW g \in {"processed", "failed", "discarded"}, g # f
      PROVE  WithFate(g)' = WithFate(g)
  BY <1>1, <1>2, <1>4 DEF WithFate
<1>5. WithFate(f) \in SUBSET Messages
  BY DEF WithFate
<1>6. QED
  BY <1>1, <1>3, <1>4, <1>5, OneMore

LEMMA WorkerCounts ==
  ASSUME Inv, NEW w \in Workers, WorkerStep(w)
  PROVE  Counted'
<1> USE DEF Inv, PlaceInv
<1>1. publish' = publish /\ Published' = Published
  BY DEF WorkerStep, HandlerStep, Receive, Exit, CallHandler, Discard, HandlerSucceeds, HandlerFails, GiveUp,
         PutBack, DropRetry, Published
<1>2. stats \in Counters
  BY DEF TypeOK, Counters
<1>3. CASE Receive(w) \/ Exit(w) \/ CallHandler(w) \/ HandlerFails(w) \/ PutBack(w)
  <2>1. fate' = fate /\ stats' = stats
    BY <1>3 DEF Receive, Exit, CallHandler, HandlerFails, PutBack
  <2>2. QED
    BY <1>1, <2>1 DEF Counted, WithFate
<1>4. CASE Discard(w)
  <2>1. stats' = stats /\ Finish(w, "discarded") /\ worker[w].pc = "received"
    BY <1>4 DEF Discard
  <2>2. QED
    BY <1>1, <2>1, FinishCounts DEF Counted
<1>5. CASE HandlerSucceeds(w)
  <2>1. Finish(w, "processed") /\ worker[w].pc = "handling" /\ stats' = [stats EXCEPT !.processed = @ + 1]
    BY <1>5 DEF HandlerSucceeds
  <2>2. /\ stats'.processed = stats.processed + 1
        /\ stats'.published = stats.published /\ stats'.failed = stats.failed
    BY <1>2, <2>1 DEF Counters
  <2>3. /\ Cardinality(WithFate("processed")') = Cardinality(WithFate("processed")) + 1
        /\ WithFate("failed")' = WithFate("failed")
    BY <2>1, FinishCounts
  <2>4. QED
    BY <1>1, <2>2, <2>3 DEF Counted
<1>6. CASE GiveUp(w) \/ DropRetry(w)
  <2>1. Finish(w, "failed") /\ worker[w].pc \in {"handling", "backoff"} /\ stats' = [stats EXCEPT !.failed = @ + 1]
    BY <1>6 DEF GiveUp, DropRetry, FailedBy
  <2>2. /\ stats'.failed = stats.failed + 1
        /\ stats'.published = stats.published /\ stats'.processed = stats.processed
    BY <1>2, <2>1 DEF Counters
  <2>3. /\ Cardinality(WithFate("failed")') = Cardinality(WithFate("failed")) + 1
        /\ WithFate("processed")' = WithFate("processed")
    BY <2>1, FinishCounts
  <2>4. QED
    BY <1>1, <2>2, <2>3 DEF Counted
<1>7. QED
  BY <1>3, <1>4, <1>5, <1>6 DEF WorkerStep, HandlerStep

(* In every reachable state of queue.go each message has its one place and *)
(* the counters are sizes of sets of messages.                             *)
THEOREM QueueInductiveInvariant == Spec => []Inv
<1>1. Init => Inv
  <2> SUFFICES ASSUME Init PROVE Inv
    OBVIOUS
  <2>1. PlaceInv
    BY PlaceInit
  <2>2. Published = {} /\ WithFate("processed") = {} /\ WithFate("failed") = {}
    BY DEF Init, Published, WithFate
  <2>3. stats.published = 0 /\ stats.processed = 0 /\ stats.failed = 0
    BY DEF Init
  <2>4. QED
    BY <2>1, <2>2, <2>3, FS_EmptySet DEF Inv, Counted
<1>2. Inv /\ [Next]_vars => Inv'
  <2> SUFFICES ASSUME Inv, [Next]_vars PROVE Inv'
    OBVIOUS
  <2>1. PlaceInv'
    BY PlaceNext DEF Inv
  <2>2. CASE Subscribe \/ StopStep \/ UNCHANGED vars
    <3>1. publish' = publish /\ fate' = fate /\ stats' = stats
      BY <2>2 DEF Subscribe, StopStep, Cancel, Close, Wait, StopReturns, StopTimesOut, vars
    <3>2. QED
      BY <2>1, <3>1 DEF Inv, Counted, Published, WithFate
  <2>3. QED
    BY <2>1, <2>2, PublishCounts, WorkerCounts DEF Next, Inv
<1>3. QED
  BY <1>1, <1>2, PTL DEF Spec
----------------------------------------------------------------------------
(* What the invariant implies.                                             *)

LEMMA OnePlace ==
  ASSUME PlaceInv
  PROVE  MessageInOnePlace
<1> USE DEF PlaceInv
<1>1. SUFFICES ASSUME NEW m \in Messages
               PROVE  Cardinality({k \in DOMAIN messages : messages[k] = m}) + Cardinality(HeldBy(m))
                        = IF Sent(m) /\ fate[m] = "none" THEN 1 ELSE 0
  BY DEF MessageInOnePlace
<1> DEFINE P == {k \in DOMAIN messages : messages[k] = m}
<1>2. m # NoMessage
  BY DEF NoMessage
<1>3. CASE InChannel(m)
  <2>1. PICK k \in 1 .. Len(messages) : messages[k] = m
    BY <1>3, ChannelElements
  <2>2. P = {k}
    BY <2>1, ChannelElements DEF Distinct
  <2>3. HeldBy(m) = {}
    BY <1>2, <1>3 DEF Holds, HeldBy
  <2>4. Sent(m) /\ fate[m] = "none"
    BY <1>3 DEF Placed
  <2>5. Cardinality(P) = 1 /\ Cardinality(HeldBy(m)) = 0
    BY <2>2, <2>3, FS_Singleton, FS_EmptySet
  <2>6. QED
    BY <2>4, <2>5
<1>4. CASE ~InChannel(m) /\ Held(m)
  <2>1. PICK w \in Workers : worker[w].msg = m
    BY <1>4 DEF Held
  <2>2. HeldBy(m) = {w}
    BY <1>2, <2>1 DEF Holds, HeldBy
  <2>3. P = {}
    BY <1>4 DEF InChannel
  <2>4. Sent(m) /\ fate[m] = "none"
    BY <1>4 DEF Placed
  <2>5. Cardinality(P) = 0 /\ Cardinality(HeldBy(m)) = 1
    BY <2>2, <2>3, FS_Singleton, FS_EmptySet
  <2>6. QED
    BY <2>4, <2>5
<1>5. CASE ~InChannel(m) /\ ~Held(m)
  <2>1. P = {} /\ HeldBy(m) = {}
    BY <1>5 DEF InChannel, HeldBy, Held
  <2>2. ~(Sent(m) /\ fate[m] = "none")
    BY <1>5 DEF Placed
  <2>3. QED
    BY <2>1, <2>2, FS_EmptySet
<1>6. QED
  BY <1>3, <1>4, <1>5

(* The channel and the workers' hands hold as many messages as they have   *)
(* places taken, because no message is at two of them.                     *)
LEMMA PlacesAreMessages ==
  ASSUME PlaceInv
  PROVE  Cardinality(Queued) = Len(messages) /\ Cardinality(InHands) = Cardinality(Busy)
<1> USE DEF PlaceInv
<1>1. Cardinality(Queued) = Len(messages)
  <2>1. Len(messages) \in Nat /\ IsFiniteSet(1 .. Len(messages)) /\ Cardinality(1 .. Len(messages)) = Len(messages)
    <3>1. Len(messages) \in Nat
      BY DEF TypeOK
    <3>2. IsFiniteSet(1 .. Len(messages))
      BY <3>1, FS_Interval
    <3>3. Cardinality(1 .. Len(messages)) = IF 1 > Len(messages) THEN 0 ELSE Len(messages) - 1 + 1
      BY <3>1, FS_Interval
    <3>4. QED
      BY <3>1, <3>2, <3>3
  <2>2. messages \in [1 .. Len(messages) -> Queued]
    <3>1. messages \in Seq(Messages)
      BY DEF TypeOK
    <3>2. \A k \in 1 .. Len(messages) : messages[k] \in Queued
      BY <3>1, ChannelElements DEF Queued
    <3>3. messages \in [1 .. Len(messages) -> Messages]
      BY <3>1
    <3>4. QED
      BY <3>2, <3>3
  <2>3. messages \in Bijection(1 .. Len(messages), Queued)
    BY <2>2, ChannelElements DEF Bijection, Injection, Surjection, IsInjective, Distinct, Queued
  <2>4. QED
    BY <2>1, <2>3, FS_Bijection DEF ExistsBijection
<1>2. Cardinality(InHands) = Cardinality(Busy)
  <2> DEFINE f == [w \in Busy |-> worker[w].msg]
  <2>1. f \in [Busy -> InHands]
    BY DEF TypeOK, Busy, InHands, Held
  <2>2. \A v, w \in Busy : f[v] = f[w] => v = w
    BY DEF Busy, Holds
  <2>3. \A m \in InHands : \E w \in Busy : f[w] = m
    BY DEF InHands, Held, Busy, NoMessage
  <2>4. f \in Bijection(Busy, InHands)
    <3> HIDE DEF f
    <3>1. QED
      BY <2>1, <2>2, <2>3 DEF Bijection, Injection, Surjection, IsInjective
  <2>5. IsFiniteSet(Busy)
    BY FS_Subset DEF Busy
  <2>6. QED
    BY <2>4, <2>5, FS_Bijection DEF ExistsBijection
<1>3. QED
  BY <1>1, <1>2

LEMMA Disjoint ==
  ASSUME NEW S \in SUBSET Messages, NEW T \in SUBSET Messages, S \intersect T = {}
  PROVE  Cardinality(S \union T) = Cardinality(S) + Cardinality(T)
<1>1. /\ IsFiniteSet(S) /\ IsFiniteSet(T) /\ Cardinality(S) \in Nat /\ Cardinality(T) \in Nat
  BY Finite
<1>2. Cardinality(S \union T) = Cardinality(S) + Cardinality(T) - Cardinality(S \intersect T)
  BY <1>1, FS_Union
<1>3. Cardinality(S \intersect T) = 0
  BY FS_EmptySet
<1>4. QED
  BY <1>1, <1>2, <1>3

LEMMA CountersAddUp ==
  ASSUME Inv
  PROVE  StatsAddUp
<1> USE DEF Inv, PlaceInv
<1>1. SUFFICES ASSUME \A m \in Messages : publish[m] # "sent"
               PROVE  stats.published = stats.processed + stats.failed + Having("discarded")
                                          + Len(messages) + Cardinality(Busy)
  BY DEF StatsAddUp
<1> DEFINE A == WithFate("processed")
           B == WithFate("failed")
           C == WithFate("discarded")
<1>2. Published = {m \in Messages : Sent(m)}
  BY <1>1 DEF Published, Sent
<1>3. /\ A \in SUBSET Messages /\ B \in SUBSET Messages /\ C \in SUBSET Messages
      /\ Queued \in SUBSET Messages /\ InHands \in SUBSET Messages
  BY DEF WithFate, Queued, InHands
<1>4. ASSUME NEW m \in Messages
      PROVE  /\ Sent(m) <=> m \in A \/ m \in B \/ m \in C \/ m \in Queued \/ m \in InHands
             /\ m \in Queued \union InHands => fate[m] = "none"
             /\ ~(m \in Queued /\ m \in InHands)
  <2>1. fate[m] \in {"none", "processed", "failed", "discarded"}
    BY DEF TypeOK
  <2>2. m \in A \/ m \in B \/ m \in C <=> fate[m] # "none"
    BY <2>1 DEF WithFate
  <2>3. m \in Queued \/ m \in InHands <=> Sent(m) /\ fate[m] = "none"
    BY DEF Placed, Queued, InHands
  <2>4. fate[m] # "none" => Sent(m)
    BY DEF Placed
  <2>5. ~(InChannel(m) /\ Held(m))
    BY DEF Holds, Held, NoMessage
  <2>6. QED
    BY <2>2, <2>3, <2>4, <2>5 DEF Queued, InHands
<1>5. Published = (((A \union B) \union C) \union Queued) \union InHands
  BY <1>2, <1>3, <1>4
<1>6. A \intersect B = {} /\ (A \union B) \intersect C = {}
  BY DEF WithFate
<1>7. ((A \union B) \union C) \intersect Queued = {}
  BY <1>3, <1>4 DEF WithFate
<1>8. (((A \union B) \union C) \union Queued) \intersect InHands = {}
  BY <1>3, <1>4 DEF WithFate
<1>9. Cardinality(A \union B) = Cardinality(A) + Cardinality(B)
  BY <1>3, <1>6, Disjoint
<1>10. Cardinality((A \union B) \union C) = Cardinality(A \union B) + Cardinality(C)
  <2>1. A \union B \in SUBSET Messages
    BY <1>3
  <2>2. QED
    BY <1>3, <1>6, <2>1, Disjoint
<1>11. Cardinality(((A \union B) \union C) \union Queued) = Cardinality((A \union B) \union C) + Cardinality(Queued)
  <2>1. (A \union B) \union C \in SUBSET Messages
    BY <1>3
  <2>2. QED
    BY <1>3, <1>7, <2>1, Disjoint
<1>12. Cardinality(Published) = Cardinality(((A \union B) \union C) \union Queued) + Cardinality(InHands)
  <2>1. ((A \union B) \union C) \union Queued \in SUBSET Messages
    BY <1>3
  <2>2. QED
    BY <1>3, <1>5, <1>8, <2>1, Disjoint
<1>13. /\ stats.published = Cardinality(Published) /\ stats.processed = Cardinality(A)
       /\ stats.failed = Cardinality(B) /\ Having("discarded") = Cardinality(C)
  BY DEF Counted, Having, WithFate
<1>14. Cardinality(Queued) = Len(messages) /\ Cardinality(InHands) = Cardinality(Busy)
  BY PlacesAreMessages
<1>15. QED
  BY <1>9, <1>10, <1>11, <1>12, <1>13, <1>14

(* A message that was sent is in one place of the channel, with one worker *)
(* or done with; its handler runs at most MaxRetries + 1 times; and the    *)
(* counters of GetStats add up whenever no Publish is between its send and *)
(* its count (queue.go:137, 224, 257), for any number of publishers and    *)
(* workers, any buffer and any number of retries.                          *)
THEOREM EveryMessageIsAccountedFor == Spec => []MessagesAreAccountedFor
<1>1. Inv => MessagesAreAccountedFor
  <2> SUFFICES ASSUME Inv PROVE MessagesAreAccountedFor
    OBVIOUS
  <2>1. TypeOK /\ MessageInOnePlace /\ StatsAddUp
    BY OnePlace, CountersAddUp DEF Inv, PlaceInv
  <2>2. RunsBounded
    BY DEF Inv, PlaceInv, Ran, RunsBounded
  <2>3. QED
    BY <2>1, <2>2 DEF MessagesAreAccountedFor
<1>2. QED
  BY <1>1, QueueInductiveInvariant, PTL

----------------------------------------------------------------------------
(* Stopping.                                                               *)

StoppedIsQuiet == stop = "stopped" => AllExited

LEMMA ExitedIsIdle ==
  ASSUME AllExited, NEW w \in Workers
  PROVE  ~WorkerStep(w)
<1>1. worker[w].pc = "exited"
  BY DEF AllExited, Exited
<1>2. QED
  BY <1>1 DEF WorkerStep, HandlerStep, Receive, Exit, CallHandler, Discard, HandlerSucceeds,
              HandlerFails, GiveUp, PutBack, DropRetry

LEMMA OthersLeaveWorkers ==
  ASSUME [Next]_vars, \A w \in Workers : ~WorkerStep(w)
  PROVE  UNCHANGED <<worker, fate, runs, retries>>
<1>1. ASSUME NEW m \in Messages, PublishStep(m)
      PROVE  UNCHANGED <<worker, fate, runs, retries>>
  BY <1>1 DEF PublishStep, PublishChecks, PublishSends, PublishRefused, IncrementPublished
<1>2. CASE Subscribe
  BY <1>2 DEF Subscribe
<1>3. CASE StopStep
  BY <1>3 DEF StopStep, Cancel, Close, Wait, StopReturns, StopTimesOut
<1>4. CASE UNCHANGED vars
  BY <1>4 DEF vars
<1>5. QED
  BY <1>1, <1>2, <1>3, <1>4 DEF Next

LEMMA QuietIsKept ==
  ASSUME StoppedIsQuiet, [Next]_vars
  PROVE  StoppedIsQuiet'
<1>1. CASE stop = "stopped"
  <2>1. UNCHANGED worker
    BY <1>1, ExitedIsIdle, OthersLeaveWorkers DEF StoppedIsQuiet
  <2>2. QED
    BY <1>1, <2>1 DEF StoppedIsQuiet, AllExited
<1>2. CASE stop # "stopped"
  <2>1. CASE StopReturns
    BY <2>1 DEF StopReturns, StoppedIsQuiet, AllExited
  <2>2. CASE Cancel \/ Close \/ Wait \/ StopTimesOut
    BY <1>2, <2>2 DEF Cancel, Close, Wait, StopTimesOut, StoppedIsQuiet
  <2>3. ASSUME stop' = stop
        PROVE  StoppedIsQuiet'
    BY <1>2, <2>3 DEF StoppedIsQuiet
  <2>4. ASSUME NEW m \in Messages, PublishStep(m)
        PROVE  stop' = stop
    BY <2>4 DEF PublishStep, PublishChecks, PublishSends, PublishRefused, IncrementPublished, control
  <2>5. ASSUME NEW w \in Workers, WorkerStep(w)
        PROVE  stop' = stop
    BY <2>5 DEF WorkerStep, HandlerStep, Receive, Exit, CallHandler, Discard, HandlerSucceeds,
                HandlerFails, GiveUp, PutBack, DropRetry, control
  <2>6. ASSUME Subscribe \/ UNCHANGED vars
        PROVE  stop' = stop
    BY <2>6 DEF Subscribe, vars, control
  <2>7. QED
    BY <2>1, <2>2, <2>3, <2>4, <2>5, <2>6 DEF Next, StopStep
<1>3. QED
  BY <1>1, <1>2

(* When Stop has returned without an error no handler runs any more and    *)
(* no message changes its fate, for any publishers and workers             *)
(* (queue.go:187).                                                         *)
THEOREM StoppedQueueIsQuiet == Spec => StopEndsProcessing
<1>1. Init => StoppedIsQuiet
  BY DEF Init, StoppedIsQuiet
<1>2. StoppedIsQuiet /\ [Next]_vars => StoppedIsQuiet'
  BY QuietIsKept
<1>3. StoppedIsQuiet /\ [Next]_vars => [stop = "stopped" => UNCHANGED <<worker, fate, runs, retries>>]_vars
  BY ExitedIsIdle, OthersLeaveWorkers DEF StoppedIsQuiet
<1>4. QED
  BY <1>1, <1>2, <1>3, PTL DEF Spec, StopEndsProcessing
=============================================================================
