--------------------------- MODULE CircuitBreaker ---------------------------
(***************************************************************************)
(* The circuit breaker of server/internal/gateway/circuit_breaker.go and   *)
(* the ResilientExecutor that runs an operation behind it with retries.    *)
(*                                                                         *)
(* Every method of CircuitBreaker holds cb.mu from its first to its last   *)
(* statement, so each is one action.  Execute is not atomic: Allow, every  *)
(* attempt of Retry, every back-off and the final RecordSuccess or         *)
(* RecordFailure are separate steps, and other callers, the clock and      *)
(* Reset run between them.                                                 *)
(*                                                                         *)
(* The field state only ever holds closed or open: half-open is derived    *)
(* from the age of lastFailureTime, which is all the code reads of it.     *)
(* The variable elapsed is that age, saturated at OpenTimeout.             *)
(***************************************************************************)
EXTENDS Naturals, FiniteSets

CONSTANTS
  Callers,              (* goroutines that call Execute                    *)
  FailureThreshold,     (* CircuitBreakerConfig.FailureThreshold           *)
  SuccessThreshold,     (* CircuitBreakerConfig.SuccessThreshold           *)
  OpenTimeout,          (* CircuitBreakerConfig.OpenTimeout, in ticks      *)
  HalfOpenMaxRequests,  (* CircuitBreakerConfig.HalfOpenMaxRequests        *)
  MaxAttempts           (* RetryConfig.MaxAttempts                         *)

ASSUME BreakerAssumption ==
  /\ IsFiniteSet(Callers)
  /\ FailureThreshold \in Nat \ {0}
  /\ SuccessThreshold \in Nat \ {0}
  /\ OpenTimeout \in Nat \ {0}
  /\ HalfOpenMaxRequests \in Nat
  /\ MaxAttempts \in Nat \ {0}

VARIABLES
  state,             (* CircuitBreaker.state                               *)
  failures,          (* CircuitBreaker.failures                            *)
  successes,         (* CircuitBreaker.successes                           *)
  elapsed,           (* time.Since(lastFailureTime), at most OpenTimeout   *)
  halfOpenRequests,  (* CircuitBreaker.halfOpenRequests                    *)
  call,              (* where each caller is inside Execute                *)
  healthy,           (* the service behind the breaker answers             *)
  probes,            (* history: probes of this outage still in flight     *)
  probed,            (* history: this outage has had a probe               *)
  streak             (* history: successes since the last failure, capped  *)

breaker == <<state, failures, successes, elapsed, halfOpenRequests>>
history == <<probes, probed, streak>>
vars == <<breaker, call, healthy, history>>

----------------------------------------------------------------------------
(* Where a caller can be: outside Execute, inside the operation, sleeping  *)
(* in the back-off of Retry, or about to record the result it has.         *)

Idle == [pc |-> "idle", attempt |-> 0]
Attempting(n) == [pc |-> "attempting", attempt |-> n]
BackingOff(n) == [pc |-> "backoff", attempt |-> n]
Succeeded == [pc |-> "succeeded", attempt |-> 0]
Errored == [pc |-> "failed", attempt |-> 0]

(* currentState(): an open breaker whose last failure is old enough is     *)
(* half-open.                                                              *)
StateAt(st, age) ==
  IF st = "open" /\ age >= OpenTimeout THEN "half-open" ELSE st

currentState == StateAt(state, elapsed)

(* Allow() returns nil.                                                    *)
Allowed_OneTooMany ==
  \/ currentState = "closed"
  \/ currentState = "half-open" /\ halfOpenRequests <= HalfOpenMaxRequests

Allowed ==
  \/ currentState = "closed"
  \/ currentState = "half-open" /\ halfOpenRequests < HalfOpenMaxRequests

Init ==
  /\ state = "closed"
  /\ failures = 0
  /\ successes = 0
  /\ elapsed = OpenTimeout      (* the zero time is long ago *)
  /\ halfOpenRequests = 0
  /\ call = [c \in Callers |-> Idle]
  /\ healthy \in BOOLEAN
  /\ probes = {}
  /\ probed = FALSE
  /\ streak = 0

----------------------------------------------------------------------------
(* Execute, step by step.  A rejected call returns ErrCircuitOpen and      *)
(* changes nothing, so only the admission is an action.                    *)

Allow(c) ==
  /\ call[c] = Idle
  /\ Allowed
  /\ call' = [call EXCEPT ![c] = Attempting(1)]
  /\ IF currentState = "half-open"
     THEN /\ halfOpenRequests' = halfOpenRequests + 1
          /\ probes' = probes \union {c}
          /\ probed' = TRUE
     ELSE UNCHANGED <<halfOpenRequests, probes, probed>>
  /\ UNCHANGED <<state, failures, successes, elapsed, healthy, streak>>

(* The operation returns without error and Retry returns its result.       *)
OperationSucceeds(c) ==
  /\ call[c].pc = "attempting"
  /\ call' = [call EXCEPT ![c] = Succeeded]
  /\ UNCHANGED <<breaker, healthy, history>>

(* Retry does not wait after its last attempt.                             *)
AttemptLeft(c) == call[c].attempt < MaxAttempts

(* The operation fails.  Retry backs off if the error is retryable and an  *)
(* attempt is left, and gives up otherwise.                                *)
OperationFails(c) ==
  /\ call[c].pc = "attempting"
  /\ ~healthy
  /\ \/ /\ AttemptLeft(c)
        /\ call' = [call EXCEPT ![c] = BackingOff(call[c].attempt)]
     \/ call' = [call EXCEPT ![c] = Errored]
  /\ UNCHANGED <<breaker, healthy, history>>

(* The select of Retry: the back-off ends and the next attempt starts, or  *)
(* the context of the caller is done first.                                *)
BackoffEnds(c) ==
  /\ call[c].pc = "backoff"
  /\ \/ call' = [call EXCEPT ![c] = Attempting(call[c].attempt + 1)]
     \/ call' = [call EXCEPT ![c] = Errored]
  /\ UNCHANGED <<breaker, healthy, history>>

(* transition() to the other state; to the state the breaker is already in *)
(* it returns at once.                                                     *)
TransitionToClosed ==
  /\ state' = "closed"
  /\ failures' = 0
  /\ successes' = 0
  /\ probes' = {}
  /\ UNCHANGED <<halfOpenRequests, probed>>

TransitionToOpen_KeepsRequests ==
  /\ state' = "open"
  /\ probes' = {}
  /\ probed' = FALSE
  /\ UNCHANGED halfOpenRequests

TransitionToOpen ==
  /\ state' = "open"
  /\ halfOpenRequests' = 0
  /\ probes' = {}
  /\ probed' = FALSE

(* The success that closes a half-open breaker.                            *)
Closes_OneTooFew ==
  currentState = "half-open" /\ successes + 2 >= SuccessThreshold

Closes ==
  currentState = "half-open" /\ successes + 1 >= SuccessThreshold

RecordSuccess(c) ==
  /\ call[c] = Succeeded
  /\ call' = [call EXCEPT ![c] = Idle]
  /\ \/ Closes /\ TransitionToClosed
     \/ /\ ~Closes
        /\ failures' = 0
        /\ successes' = IF currentState = "half-open"
                        THEN successes + 1 ELSE successes
        /\ probes' = probes \ {c}
        /\ UNCHANGED <<state, halfOpenRequests, probed>>
  /\ streak' = IF streak < SuccessThreshold THEN streak + 1 ELSE streak
  /\ UNCHANGED <<elapsed, healthy>>

(* The failure that opens the breaker.  lastFailureTime is set to now      *)
(* before currentState() is read, so after the failure of a half-open      *)
(* probe the breaker reads itself as open and takes neither case of the    *)
(* switch: the case of StateHalfOpen is never taken.                       *)
Opens ==
  StateAt(state, 0) = "closed" /\ failures + 1 >= FailureThreshold

RecordFailure(c) ==
  /\ call[c] = Errored
  /\ call' = [call EXCEPT ![c] = Idle]
  /\ failures' = failures + 1
  /\ elapsed' = 0
  /\ successes' = 0
  /\ \/ Opens /\ TransitionToOpen
     \/ /\ ~Opens
        /\ probes' = probes \ {c}
        /\ UNCHANGED <<state, halfOpenRequests, probed>>
  /\ streak' = 0
  /\ UNCHANGED healthy

(* Reset() is an operator's call and can come at any time.                 *)
Reset ==
  /\ state' = "closed"
  /\ failures' = 0
  /\ successes' = 0
  /\ halfOpenRequests' = 0
  /\ probes' = {}
  /\ UNCHANGED <<elapsed, call, healthy, probed, streak>>

----------------------------------------------------------------------------
(* The environment: time passes, the service goes down or comes back.      *)

Tick ==
  /\ elapsed < OpenTimeout
  /\ elapsed' = elapsed + 1
  /\ UNCHANGED <<state, failures, successes, halfOpenRequests, call, healthy,
                 history>>

ServiceChanges ==
  /\ healthy' = ~healthy
  /\ UNCHANGED <<breaker, call, history>>

Step(c) ==
  \/ Allow(c)
  \/ OperationSucceeds(c)
  \/ OperationFails(c)
  \/ BackoffEnds(c)
  \/ RecordSuccess(c)
  \/ RecordFailure(c)

Next ==
  \/ \E c \in Callers : Step(c)
  \/ Reset
  \/ Tick
  \/ ServiceChanges

Spec == Init /\ [][Next]_vars

(* Requests keep arriving, an operation returns, a back-off ends, and the  *)
(* clock runs.  Nobody is obliged to call Reset or to repair the service.  *)
FairSpec ==
  /\ Spec
  /\ WF_vars(Tick)
  /\ \A c \in Callers : WF_vars(Step(c))

----------------------------------------------------------------------------
(* Properties.                                                             *)

InFlight == {c \in Callers : call[c] # Idle}

CallState ==
  {Idle, Succeeded, Errored}
    \union [pc : {"attempting"}, attempt : 1 .. MaxAttempts]
    \union [pc : {"backoff"}, attempt : 1 .. MaxAttempts - 1]

(* Types, with the bounds that hold without looking at the history: the    *)
(* stored state is never half-open, no attempt exceeds MaxAttempts.        *)
TypeOK ==
  /\ state \in {"closed", "open"}
  /\ failures \in Nat
  /\ successes \in Nat
  /\ elapsed \in 0 .. OpenTimeout
  /\ halfOpenRequests \in Nat
  /\ call \in [Callers -> CallState]
  /\ healthy \in BOOLEAN
  /\ probes \subseteq Callers
  /\ probed \in BOOLEAN
  /\ streak \in 0 .. SuccessThreshold

(* A closed breaker has seen fewer consecutive failures than               *)
(* FailureThreshold, however the results of concurrent calls interleave,   *)
(* and carries no half-open success over from an earlier outage.           *)
ClosedIsCalm ==
  state = "closed" => failures < FailureThreshold /\ successes = 0

(* During one outage at most HalfOpenMaxRequests probes are in flight, even *)
(* though probes end, fail, retry and overlap with calls of earlier times.  *)
ProbeBudget ==
  state = "open" => Cardinality(probes) <= HalfOpenMaxRequests

(* What makes ProbeBudget inductive: every probe in flight holds one of the *)
(* slots that halfOpenRequests counts.                                      *)
ProbesHoldSlots ==
  state = "open" =>
    /\ Cardinality(probes) <= halfOpenRequests
    /\ halfOpenRequests <= HalfOpenMaxRequests

(* An outage lets a bounded number of failures through: those of the calls *)
(* admitted before it began and those of its probes.  The counter failures *)
(* is therefore bounded although no statement bounds it.                   *)
FailuresBounded ==
  state = "open" =>
    failures + Cardinality(InFlight)
      <= FailureThreshold + Cardinality(Callers) - 1 + halfOpenRequests

(* The four together: what an outage lets through, however concurrent      *)
(* calls interleave (circuit_breaker.go:113-172).                          *)
OutageIsContained == TypeOK /\ ClosedIsCalm /\ ProbeBudget /\ FailuresBounded

BreakerInv ==
  TypeOK /\ ClosedIsCalm /\ ProbesHoldSlots /\ FailuresBounded

(* Other than by Reset, an open breaker closes only at the last of         *)
(* SuccessThreshold successes with no failure recorded between them.       *)
ClosesOnConsecutiveSuccesses ==
  [][state = "open" /\ state' = "closed" /\ call' # call
       => streak' = SuccessThreshold]_vars

(* What makes it inductive: the successes counted in an outage are the most *)
(* recent results.                                                          *)
SuccessesOnStreak == successes <= streak

(* An outage that has not spent a probe yet ends once its probes succeed:  *)
(* the breaker closes unless the service goes down again.                  *)
FreshOutage ==
  state = "open" /\ ~probed /\ healthy /\ InFlight = {}

RecoversIfProbesSucceed ==
  FreshOutage ~> (~healthy \/ state = "closed")

(* The half-open state is documented to admit probe requests and to lead   *)
(* back to closed: with the service repaired for good, the breaker does    *)
(* not stay open for ever.                                                 *)
RecoversOnceHealthy ==
  <>[]healthy => []<>(state = "closed")

============================================================================
