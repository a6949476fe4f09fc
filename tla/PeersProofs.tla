---------------------------- MODULE PeersProofs -----------------------------
(***************************************************************************)
(* Proofs about a server and its peers: the circuit breaker around its     *)
(* calls to them, the federation, and what is recorded about models and    *)
(* providers.  A section for each module.                                  *)
(***************************************************************************)
EXTENDS CircuitBreaker, Federation, Fingerprints, ProviderRegistry, HealthProbe,
        Induction, FiniteSetTheorems, TLAPS

----------------------------------------------------------------------------
(***************************************************************************)
(* CircuitBreaker, for any number of callers and any thresholds.           *)
(*                                                                         *)
(* That an outage has few probes is not inductive: nothing in it relates   *)
(* the probes in flight to the counter that Allow tests. BreakerInv adds   *)
(* that each of them holds a slot of the counter (ProbesHoldSlots), which  *)
(* only grows during an outage.                                            *)
(***************************************************************************)

(* The places a caller can be.                                             *)
LEMMA CallStates ==
  /\ Idle \in CallState
  /\ Succeeded \in CallState
  /\ Errored \in CallState
  /\ \A n \in 1 .. MaxAttempts : Attempting(n) \in CallState
  /\ \A n \in 1 .. MaxAttempts - 1 : BackingOff(n) \in CallState
BY DEF CallState, Attempting, BackingOff

LEMMA TypeInit == Init => TypeOK
<1>1. Init => probed \in BOOLEAN /\ healthy \in BOOLEAN
  BY Zenon DEF Init
<1>2. QED
  BY <1>1, BreakerAssumption, CallStates DEF Init, TypeOK, BreakerAssumption

LEMMA TypeStep == TypeOK /\ [Next]_vars => TypeOK'
<1> USE BreakerAssumption DEF BreakerAssumption
<1> SUFFICES ASSUME TypeOK, [Next]_vars PROVE TypeOK'
  OBVIOUS
<1> USE DEF TypeOK
<1>1. ASSUME NEW c \in Callers, Allow(c) PROVE TypeOK'
  <2>1. probed' \in BOOLEAN
    BY <1>1, Zenon DEF Allow
  <2>2. QED
    BY <1>1, <2>1, CallStates DEF Allow
<1>2. ASSUME NEW c \in Callers, OperationSucceeds(c) PROVE TypeOK'
  BY <1>2, CallStates DEF OperationSucceeds, breaker, history
<1>3. ASSUME NEW c \in Callers, OperationFails(c) PROVE TypeOK'
  <2>1. call[c].attempt \in 1 .. MaxAttempts
    BY <1>3 DEF OperationFails, CallState, Idle, Succeeded, Errored
  <2>2. QED
    BY <1>3, <2>1, CallStates
    DEF OperationFails, AttemptLeft, breaker, history
<1>4. ASSUME NEW c \in Callers, BackoffEnds(c) PROVE TypeOK'
  <2>1. call[c].attempt \in 1 .. MaxAttempts - 1
    BY <1>4 DEF BackoffEnds, CallState, Idle, Succeeded, Errored
  <2>2. QED
    BY <1>4, <2>1, CallStates DEF BackoffEnds, breaker, history
<1>5. ASSUME NEW c \in Callers, RecordSuccess(c) PROVE TypeOK'
  BY <1>5, CallStates DEF RecordSuccess, TransitionToClosed
<1>6. ASSUME NEW c \in Callers, RecordFailure(c) PROVE TypeOK'
  <2>1. probed' \in BOOLEAN
    BY <1>6, Zenon DEF RecordFailure, TransitionToOpen
  <2>2. QED
    BY <1>6, <2>1, CallStates DEF RecordFailure, TransitionToOpen
<1>7. CASE Reset
  BY <1>7 DEF Reset
<1>8. CASE Tick
  BY <1>8 DEF Tick, history
<1>9. CASE ServiceChanges
  BY <1>9 DEF ServiceChanges, breaker, history
<1>10. CASE UNCHANGED vars
  BY <1>10 DEF vars, breaker, history
<1>11. QED
  BY <1>1, <1>2, <1>3, <1>4, <1>5, <1>6, <1>7, <1>8, <1>9, <1>10
  DEF Next, Step

(* Type correctness, and with it that half-open is never stored and that   *)
(* Retry makes at most MaxAttempts attempts.                               *)
THEOREM TypeCorrect == Spec => []TypeOK
BY TypeInit, TypeStep, PTL DEF Spec

----------------------------------------------------------------------------
(* How the calls in flight change.                                         *)

LEMMA InFlightFinite ==
  /\ IsFiniteSet(InFlight)
  /\ Cardinality(InFlight) \in Nat
  /\ Cardinality(Callers) \in Nat
  /\ Cardinality(InFlight) <= Cardinality(Callers)
BY BreakerAssumption, FS_Subset, FS_CardinalityType
DEF InFlight, BreakerAssumption

LEMMA CallStarts ==
  ASSUME TypeOK, NEW c \in Callers, Allow(c)
  PROVE  Cardinality(InFlight') = Cardinality(InFlight) + 1
<1>1. InFlight' = InFlight \union {c}
  BY DEF TypeOK, Allow, InFlight, Attempting, Idle
<1>2. c \notin InFlight
  BY DEF Allow, InFlight
<1>3. QED
  BY <1>1, <1>2, InFlightFinite, FS_AddElement

LEMMA CallMoves ==
  ASSUME TypeOK, NEW c \in Callers,
         OperationSucceeds(c) \/ OperationFails(c) \/ BackoffEnds(c)
  PROVE  InFlight' = InFlight
BY DEF TypeOK, OperationSucceeds, OperationFails, BackoffEnds, InFlight,
       Attempting, BackingOff, Succeeded, Errored, Idle

LEMMA CallEnds ==
  ASSUME TypeOK, NEW c \in Callers, call[c] # Idle,
         call' = [call EXCEPT ![c] = Idle]
  PROVE  Cardinality(InFlight') = Cardinality(InFlight) - 1
<1>1. InFlight' = InFlight \ {c}
  BY DEF TypeOK, InFlight
<1>2. c \in InFlight
  BY DEF InFlight
<1>3. QED
  BY <1>1, <1>2, InFlightFinite, FS_RemoveElement

LEMMA ProbesFinite ==
  ASSUME TypeOK
  PROVE  /\ IsFiniteSet(probes)
         /\ Cardinality(probes) \in Nat
BY BreakerAssumption, FS_Subset, FS_CardinalityType
DEF TypeOK, BreakerAssumption

(* An admission takes at most one more slot.                               *)
LEMMA ProbeStarts ==
  ASSUME TypeOK, NEW c \in Callers, probes' = probes \union {c}
  PROVE  /\ Cardinality(probes') <= Cardinality(probes) + 1
         /\ Cardinality(probes') \in Nat
<1>1. CASE c \in probes
  <2>1. probes' = probes
    BY <1>1
  <2>2. Cardinality(probes') = Cardinality(probes)
    BY <2>1, Zenon
  <2>3. QED
    BY <2>2, ProbesFinite
<1>2. CASE c \notin probes
  <2>1. Cardinality(probes \union {c}) = Cardinality(probes) + 1
    BY <1>2, ProbesFinite, FS_AddElement
  <2>2. QED
    BY <2>1, ProbesFinite
<1>3. QED
  BY <1>1, <1>2

(* A result takes its caller out of the probes, or leaves them alone.      *)
LEMMA ProbeEnds ==
  ASSUME TypeOK, NEW c \in Callers, probes' = probes \ {c}
  PROVE  Cardinality(probes') <= Cardinality(probes)
BY ProbesFinite, FS_RemoveElement, FS_Subset

(* However calls, retries, late results, resets and the clock interleave:  *)
(* a closed breaker is below its failure threshold, an outage has at most  *)
(* HalfOpenMaxRequests probes in flight, and it lets a bounded number of   *)
(* failures through.                                                       *)
THEOREM BreakerSafe == Spec => []OutageIsContained
<1> USE BreakerAssumption DEF BreakerAssumption
<1>1. Init => BreakerInv
  <2>1. Init => TypeOK
    BY TypeInit
  <2>2. QED
    BY <2>1
    DEF Init, BreakerInv, ClosedIsCalm, ProbesHoldSlots, FailuresBounded
<1>2. BreakerInv /\ [Next]_vars => BreakerInv'
  <2> SUFFICES ASSUME BreakerInv, [Next]_vars PROVE BreakerInv'
    OBVIOUS
  <2>t. TypeOK /\ TypeOK'
    BY TypeStep DEF BreakerInv
  <2>n. /\ Cardinality(probes) \in Nat
        /\ Cardinality(InFlight) \in Nat
        /\ Cardinality(Callers) \in Nat
        /\ Cardinality(InFlight) <= Cardinality(Callers)
    BY <2>t, ProbesFinite, InFlightFinite
  <2> USE DEF BreakerInv, ClosedIsCalm, ProbesHoldSlots, FailuresBounded
  <2>1. ASSUME NEW c \in Callers, Allow(c) PROVE BreakerInv'
    <3>1. Cardinality(InFlight') = Cardinality(InFlight) + 1
      BY <2>1, <2>t, CallStarts
    <3>2. CASE currentState = "half-open"
      <4>1. probes' = probes \union {c} /\ halfOpenRequests' = halfOpenRequests + 1
        BY <2>1, <3>2 DEF Allow
      <4>2. halfOpenRequests < HalfOpenMaxRequests
        BY <2>1, <3>2 DEF Allow, Allowed
      <4>3. /\ Cardinality(probes') <= Cardinality(probes) + 1
            /\ Cardinality(probes') \in Nat
        BY <2>t, <4>1, ProbeStarts
      <4>4. QED
        BY <2>1, <2>t, <2>n, <3>1, <4>1, <4>2, <4>3 DEF Allow, TypeOK
    <3>3. CASE currentState = "closed"
      <4>1. state = "closed"
        BY <3>3 DEF currentState, StateAt
      <4>2. QED
        BY <2>1, <2>t, <3>3, <4>1 DEF Allow, TypeOK
    <3>4. QED
      BY <2>1, <3>2, <3>3 DEF Allow, Allowed
  <2>2. ASSUME NEW c \in Callers,
               OperationSucceeds(c) \/ OperationFails(c) \/ BackoffEnds(c)
        PROVE  BreakerInv'
    <3>1. InFlight' = InFlight
      BY <2>2, <2>t, CallMoves
    <3>2. QED
      BY <2>2, <2>t, <3>1
      DEF OperationSucceeds, OperationFails, BackoffEnds, breaker, history
  <2>3. ASSUME NEW c \in Callers, RecordSuccess(c) PROVE BreakerInv'
    <3>1. Cardinality(InFlight') = Cardinality(InFlight) - 1
      <4>1. call[c] # Idle /\ call' = [call EXCEPT ![c] = Idle]
        BY <2>3 DEF RecordSuccess, Succeeded, Idle
      <4>2. QED
        BY <2>t, <4>1, CallEnds
    <3>2. CASE Closes
      BY <2>3, <2>t, <3>2 DEF RecordSuccess, TransitionToClosed
    <3>3. CASE ~Closes
      <4>1. Cardinality(probes') <= Cardinality(probes)
        BY <2>3, <2>t, <3>3, ProbeEnds DEF RecordSuccess
      <4>2. Cardinality(probes') \in Nat
        BY <2>3, <2>t, <3>3, ProbesFinite, FS_Subset, FS_CardinalityType
        DEF RecordSuccess
      <4>3. state = "closed" => currentState # "half-open"
        BY DEF currentState, StateAt
      <4>4. QED
        BY <2>3, <2>t, <2>n, <3>1, <3>3, <4>1, <4>2, <4>3
        DEF RecordSuccess, TypeOK
    <3>4. QED
      BY <3>2, <3>3
  <2>4. ASSUME NEW c \in Callers, RecordFailure(c) PROVE BreakerInv'
    <3>1. Cardinality(InFlight') = Cardinality(InFlight) - 1
      <4>1. call[c] # Idle /\ call' = [call EXCEPT ![c] = Idle]
        BY <2>4 DEF RecordFailure, Errored, Idle
      <4>2. QED
        BY <2>t, <4>1, CallEnds
    <3>2. CASE Opens
      <4>1. state = "closed"
        BY <3>2 DEF Opens, StateAt
      <4>2. probes' = {} /\ halfOpenRequests' = 0 /\ state' = "open"
        BY <2>4, <3>2 DEF RecordFailure, TransitionToOpen
      <4>3. Cardinality(probes') = 0
        BY <4>2, FS_EmptySet
      <4>4. QED
        BY <2>4, <2>t, <2>n, <3>1, <4>1, <4>2, <4>3 DEF RecordFailure, TypeOK
    <3>3. CASE ~Opens
      <4>1. Cardinality(probes') <= Cardinality(probes)
        BY <2>4, <2>t, <3>3, ProbeEnds DEF RecordFailure
      <4>2. Cardinality(probes') \in Nat
        BY <2>4, <2>t, <3>3, ProbesFinite, FS_Subset, FS_CardinalityType
        DEF RecordFailure
      <4>3. state = "closed" => failures + 1 < FailureThreshold
        BY <3>3, <2>t DEF Opens, StateAt, TypeOK
      <4>4. QED
        BY <2>4, <2>t, <2>n, <3>1, <3>3, <4>1, <4>2, <4>3
        DEF RecordFailure, TypeOK
    <3>4. QED
      BY <3>2, <3>3
  <2>5. CASE Reset
    BY <2>5, <2>t DEF Reset
  <2>6. CASE Tick \/ ServiceChanges \/ UNCHANGED vars
    <3>1. InFlight' = InFlight
      BY <2>6 DEF Tick, ServiceChanges, vars, InFlight
    <3>2. QED
      BY <2>6, <2>t, <3>1 DEF Tick, ServiceChanges, vars, breaker, history
  <2>7. QED
    BY <2>1, <2>2, <2>3, <2>4, <2>5, <2>6 DEF Next, Step
<1>3. BreakerInv => OutageIsContained
  <2> SUFFICES ASSUME BreakerInv, state = "open"
               PROVE  Cardinality(probes) <= HalfOpenMaxRequests
    BY DEF BreakerInv, ProbeBudget, OutageIsContained
  <2> QED
    BY ProbesFinite DEF BreakerInv, ProbesHoldSlots, TypeOK
<1>4. QED
  BY <1>1, <1>2, <1>3, PTL DEF Spec

----------------------------------------------------------------------------
(* Other than by Reset, an outage ends only at the last of SuccessThreshold *)
(* successes with no failure recorded between them.                         *)
THEOREM ClosesOnStreak == Spec => ClosesOnConsecutiveSuccesses
<1> USE BreakerAssumption DEF BreakerAssumption
<1> DEFINE Inv == TypeOK /\ SuccessesOnStreak
<1>1. Init => Inv
  BY TypeInit DEF Init, SuccessesOnStreak
<1>2. Inv /\ [Next]_vars => Inv'
  <2> SUFFICES ASSUME Inv, [Next]_vars PROVE SuccessesOnStreak'
    BY TypeStep
  <2> USE DEF SuccessesOnStreak, TypeOK
  <2>1. ASSUME NEW c \in Callers, RecordSuccess(c) PROVE SuccessesOnStreak'
    BY <2>1 DEF RecordSuccess, Closes, TransitionToClosed
  <2>2. ASSUME NEW c \in Callers, RecordFailure(c) PROVE SuccessesOnStreak'
    BY <2>2 DEF RecordFailure
  <2>3. CASE Reset
    BY <2>3 DEF Reset
  <2>4. CASE UNCHANGED <<successes, streak>>
    BY <2>4
  <2>5. QED
    BY <2>1, <2>2, <2>3, <2>4
    DEF Next, Step, Allow, OperationSucceeds, OperationFails, BackoffEnds,
        Tick, ServiceChanges, vars, breaker, history
<1>3. Inv /\ [Next]_vars
        => [state = "open" /\ state' = "closed" /\ call' # call
              => streak' = SuccessThreshold]_vars
  <2> SUFFICES ASSUME Inv, Next,
                      state = "open", state' = "closed", call' # call
               PROVE  streak' = SuccessThreshold
    BY DEF vars
  <2>1. PICK c \in Callers : RecordSuccess(c) /\ Closes
    BY DEF Next, Step, Allow, OperationSucceeds, OperationFails, BackoffEnds,
           RecordSuccess, RecordFailure, TransitionToOpen, Reset, Tick,
           ServiceChanges, breaker
  <2>2. QED
    BY <2>1 DEF RecordSuccess, Closes, SuccessesOnStreak, TypeOK
<1>4. QED
  BY <1>1, <1>2, <1>3, PTL DEF Spec, ClosesOnConsecutiveSuccesses

----------------------------------------------------------------------------
(***************************************************************************)
(* Federation, for any finite set of nodes.                                *)
(*                                                                         *)
(* While nobody adds or removes a node, the array that an anchoring reads  *)
(* lists each node once, so the confirmations it counts are of different   *)
(* nodes (AsksEachOnce). Only the node itself can know an anchor; an asked *)
(* node that does not know it asks its own list, and so on for as many     *)
(* hops as there are (YesUnfolds), which gives one yes at most             *)
(* (InvVerifies).                                                          *)
(***************************************************************************)

(* The recursion of Verify over the hand-overs that are left.              *)
NextYes(later) ==
  (known \cap up) \cup
  {n \in up : Enough(Cardinality({i \in DOMAIN ListOf(n) : ListOf(n)[i] \in later}))}

LEMMA YesUnfolds ==
  /\ Yes[0] = LastYes
  /\ \A n \in Nat : Yes[n + 1] = NextYes(Yes[n])
<1> DEFINE step == [n \in Nat |-> [later \in SUBSET up |-> NextYes(later)]]
<1>1. LastYes \in SUBSET up /\ step \in Steps(SUBSET up)
  BY DEF LastYes, NextYes, Steps
<1>2. PICK f \in [Nat -> SUBSET up] : f[0] = LastYes /\ \A n \in Nat : f[n + 1] = step[n][f[n]]
  <2> HIDE DEF step
  <2>1. \E f \in [Nat -> SUBSET up] : Iterates(f, LastYes, step)
    BY <1>1, Iterated
  <2>2. QED
    BY <2>1 DEF Iterates
<1>3. f = [hops \in Nat |-> IF hops = 0 THEN LastYes ELSE NextYes(f[hops - 1])]
  <2>1. \A hops \in Nat : f[hops] = IF hops = 0 THEN LastYes ELSE NextYes(f[hops - 1])
    <3> SUFFICES ASSUME NEW hops \in Nat, hops # 0 PROVE f[hops] = NextYes(f[hops - 1])
      BY <1>2
    <3>1. hops - 1 \in Nat /\ (hops - 1) + 1 = hops
      OBVIOUS
    <3>2. f[hops] = step[hops - 1][f[hops - 1]] /\ f[hops - 1] \in SUBSET up
      BY <1>2, <3>1
    <3>3. QED
      BY <3>2
  <2>2. QED
    BY <1>2, <2>1
<1> DEFINE Recursive(g) == g = [hops \in Nat |-> IF hops = 0 THEN LastYes ELSE NextYes(g[hops - 1])]
<1>4. Yes = CHOOSE g : Recursive(g)
  BY DEF Yes, NextYes
<1>5. Recursive(Yes)
  <2>1. \E g : Recursive(g)
    BY <1>3
  <2> HIDE DEF Recursive
  <2>2. QED
    BY <1>4, <2>1
<1>6. QED
  BY <1>5

LEMMA SetAsSeq ==
  ASSUME NEW S, IsFiniteSet(S)
  PROVE  /\ Cardinality(S) \in Nat
         /\ SetToSeq(S) \in [1 .. Cardinality(S) -> S]
         /\ \A i, j \in 1 .. Cardinality(S) : SetToSeq(S)[i] = SetToSeq(S)[j] => i = j
<1>1. Cardinality(S) \in Nat /\ ExistsBijection(1 .. Cardinality(S), S)
  BY FS_CardinalityType
<1>2. \E f \in [1 .. Cardinality(S) -> S] : \A i, j \in 1 .. Cardinality(S) : f[i] = f[j] => i = j
  BY <1>1 DEF ExistsBijection, Bijection, Injection, IsInjective
<1>3. \E f \in [1 .. Cardinality(S) -> S] : IsInjective(f)
  BY <1>2 DEF IsInjective
<1>4. SetToSeq(S) \in [1 .. Cardinality(S) -> S] /\ IsInjective(SetToSeq(S))
  BY <1>3 DEF SetToSeq
<1>5. QED
  BY <1>1, <1>4 DEF IsInjective

----------------------------------------------------------------------------
(* The inductive invariant.                                                *)

Entry == Nodes \cup {Empty}

(* The list holds each node once, whatever lies behind it in the array.    *)
ListIsSet ==
  /\ array \in Seq(Entry) /\ size \in Nat /\ size <= Len(array)
  /\ \A i \in 1 .. size : array[i] \in Others
  /\ \A i, j \in 1 .. size : array[i] = array[j] => i = j

(* What the running loop of Anchor reads.                                  *)
Read == IF job.view = << >> THEN array ELSE job.view

Asking ==
  /\ job.entries \in Nat /\ job.entries <= Len(Read)
  /\ job.calls \in Seq([to : Entry, result : {"sent", "confirmed", "failed", "blocked"}])
  /\ Len(job.calls) <= job.entries
  /\ job.view \in Seq(Entry)

AsksEachOnce ==
  /\ job.view = << >> => job.entries <= size
  /\ \A i, j \in 1 .. job.entries : Read[i] = Read[j] => i = j
  /\ \A i \in 1 .. Len(job.calls) : job.calls[i].to = Read[i]

JobShape ==
  /\ job.at = "sized" => DOMAIN job = {"at", "room", "grown"}
  /\ job.at = "asking" =>
       DOMAIN job = {"at", "room", "grown", "entries", "view", "calls", "disturbed"}

FederationInv ==
  /\ ListIsSet
  /\ known \subseteq {Self} /\ up \subseteq Nodes
  /\ JobShape
  /\ job.at = "asking" => Asking
  /\ job.at = "asking" /\ job.disturbed # TRUE => AsksEachOnce
  /\ AnchoredByEnoughNodes

----------------------------------------------------------------------------
(* With one node that knows the anchor, no other reaches two yeses.        *)
LEMMA InvVerifies == FederationInv => VerifiedIsKnown
<1> SUFFICES ASSUME FederationInv, ~(Self \in known /\ MinConfirm = 1),
                    NEW n \in Nodes, HandleFederatedVerify(n)
             PROVE  n \in known
  BY DEF VerifiedIsKnown
<1> DEFINE Count(m, later) == {i \in DOMAIN ListOf(m) : ListOf(m)[i] \in later}
<1>1. /\ IsFiniteSet(Nodes) /\ MinConfirm \in Nat \ {0} /\ MaxHops \in Nat /\ Self \in Nodes
      /\ known \subseteq {Self} /\ up \subseteq Nodes /\ ListIsSet
  BY FederationAssumption DEF FederationInv, FederationAssumption
<1>2. ASSUME NEW later \in SUBSET known, NEW m \in up
      PROVE  Cardinality(Count(m, later)) < MinConfirm
  <2>1. CASE Count(m, later) = {}
    BY <1>1, <2>1, FS_EmptySet
  <2>2. CASE Count(m, later) # {}
    <3>1. PICK k \in DOMAIN ListOf(m) : ListOf(m)[k] \in later
      BY <2>2
    <3>2. ListOf(m)[k] = Self /\ Self \in known
      BY <1>1, <3>1
    <3>3. m # Self
      <4> SUFFICES ASSUME m = Self PROVE FALSE
        OBVIOUS
      <4>1. ListOf(m) = SubSeq(array, 1, size)
        BY DEF ListOf, list
      <4>2. DOMAIN ListOf(m) = 1 .. size /\ ListOf(m)[k] = array[k]
        BY <1>1, <3>1, <4>1 DEF ListIsSet
      <4>3. QED
        BY <1>1, <3>1, <3>2, <4>2 DEF ListIsSet, Others
    <3>4. ListOf(m) = SetToSeq(Nodes \ {m}) /\ IsFiniteSet(Nodes \ {m})
      BY <1>1, <3>3, FS_RemoveElement DEF ListOf
    <3>5. \A i, j \in DOMAIN ListOf(m) : ListOf(m)[i] = ListOf(m)[j] => i = j
      BY <3>4, SetAsSeq
    <3>6. Count(m, later) = {k}
      BY <1>1, <3>1, <3>2, <3>5
    <3>7. Cardinality(Count(m, later)) = 1
      BY <3>6, FS_Singleton
    <3>8. QED
      BY <1>1, <3>2, <3>7
  <2>3. QED
    BY <2>1, <2>2
<1> DEFINE T == {h \in Nat : Yes[h] \subseteq known}
<1>3. 0 \in T
  BY YesUnfolds DEF LastYes
<1>4. ASSUME NEW h \in Nat, h \in T PROVE h + 1 \in T
  <2>1. \A m \in up : ~Enough(Cardinality(Count(m, Yes[h])))
    <3> SUFFICES ASSUME NEW m \in up PROVE ~Enough(Cardinality(Count(m, Yes[h])))
      OBVIOUS
    <3>1. Yes[h] \in SUBSET known
      BY <1>4
    <3>2. Cardinality(Count(m, Yes[h])) < MinConfirm
      BY <1>2, <3>1
    <3>3. Cardinality(Count(m, Yes[h])) \in Nat
      <4>1. IsFiniteSet(DOMAIN ListOf(m))
        <5>1. CASE m = Self
          <6>1. DOMAIN ListOf(m) = 1 .. size
            BY <1>1, <5>1 DEF ListOf, list, ListIsSet
          <6>2. QED
            BY <1>1, <6>1, FS_Interval DEF ListIsSet
        <5>2. CASE m # Self
          <6>1. ListOf(m) = SetToSeq(Nodes \ {m}) /\ IsFiniteSet(Nodes \ {m})
            BY <1>1, <5>2, FS_RemoveElement DEF ListOf
          <6>2. DOMAIN ListOf(m) = 1 .. Cardinality(Nodes \ {m}) /\ Cardinality(Nodes \ {m}) \in Nat
            BY <6>1, SetAsSeq
          <6>3. QED
            BY <6>2, FS_Interval
        <5>3. QED
          BY <5>1, <5>2
      <4>2. QED
        BY <4>1, FS_Subset, FS_CardinalityType
    <3>4. QED
      BY <1>1, <3>2, <3>3 DEF Enough
  <2>2. Yes[h + 1] = (known \cap up) \cup {m \in up : Enough(Cardinality(Count(m, Yes[h])))}
    BY YesUnfolds DEF NextYes
  <2> HIDE DEF Count
  <2>3. QED
    BY <2>1, <2>2
<1>5. MaxHops \in T
  <2> HIDE DEF T
  <2> QED
    BY <1>1, <1>3, <1>4, NatAll
<1>6. QED
  BY <1>5 DEF HandleFederatedVerify

----------------------------------------------------------------------------
(* The list that the configuration gives.                                  *)
LEMMA ConfiguredList ==
  /\ IsFiniteSet(Listed)
  /\ SetToSeq(Listed) \in Seq(Entry) /\ Cardinality(Listed) \in Nat
  /\ Len(SetToSeq(Listed)) = Cardinality(Listed)
  /\ \A i \in 1 .. Cardinality(Listed) : SetToSeq(Listed)[i] \in Others
  /\ \A i, j \in 1 .. Cardinality(Listed) : SetToSeq(Listed)[i] = SetToSeq(Listed)[j] => i = j
<1>1. IsFiniteSet(Listed) /\ Listed \subseteq Others
  BY FederationAssumption, FS_Subset DEF FederationAssumption, Others
<1>2. PICK n \in Nat : n = Cardinality(Listed)
  BY <1>1, SetAsSeq
<1>3. PICK a \in [1 .. n -> Listed] : a = SetToSeq(Listed) /\ \A i, j \in 1 .. n : a[i] = a[j] => i = j
  BY <1>1, <1>2, SetAsSeq
<1>4. a \in Seq(Entry) /\ Len(a) = n
  BY <1>1, <1>3 DEF Entry, Others
<1>5. QED
  BY <1>1, <1>2, <1>3, <1>4

LEMMA FederationInvInit == FederationInit => FederationInv
<1> SUFFICES ASSUME FederationInit PROVE FederationInv
  OBVIOUS
<1>2. ListIsSet
  BY ConfiguredList DEF FederationInit, ListIsSet
<1>3. job.at = "none"
  BY DEF FederationInit, NoJob
<1>4. QED
  BY <1>2, <1>3 DEF FederationInit, FederationInv, JobShape, AnchoredByEnoughNodes

(* Where the array has room, what a loop reads stays as it is; where it has*)
(* none, the loop keeps to the old array.                                  *)
LEMMA AddNodeKeeps ==
  ASSUME FederationInv, NEW e \in Others, AddNode(e)
  PROVE  FederationInv'
<1>1. /\ e \notin Range(list) /\ size' = size + 1 /\ UNCHANGED <<known, up>>
      /\ IF size < Len(array)
           THEN array' = [array EXCEPT ![size + 1] = e]
           ELSE array' = array \o <<e>> \o [k \in 1 .. size - 1 |-> Empty]
  BY DEF AddNode
<1>2. ListIsSet /\ e \in Nodes /\ size \in Nat /\ array \in Seq(Entry) /\ Len(array) \in Nat
  BY DEF FederationInv, ListIsSet, Others
<1>3. \A i \in 1 .. size : array[i] # e
  <2>1. DOMAIN list = 1 .. size /\ \A i \in 1 .. size : list[i] = array[i]
    BY <1>2 DEF list, ListIsSet
  <2>2. QED
    BY <1>1, <2>1 DEF Range
<1>4. /\ array' \in Seq(Entry) /\ Len(array') >= size + 1 /\ Len(array') >= Len(array)
      /\ array'[size + 1] = e /\ \A i \in 1 .. size : array'[i] = array[i]
  <2>1. CASE size < Len(array)
    BY <1>1, <1>2, <2>1 DEF Entry
  <2>2. CASE ~(size < Len(array))
    <3> DEFINE rest == [k \in 1 .. size - 1 |-> Empty]
    <3>1. rest \in Seq(Entry) /\ size = Len(array)
      <4>1. CASE size = 0
        BY <1>2, <2>2, <4>1 DEF Entry, ListIsSet
      <4>2. CASE size # 0
        BY <1>2, <2>2, <4>2 DEF Entry, ListIsSet
      <4>3. QED
        BY <4>1, <4>2
    <3>2. array' = (array \o <<e>>) \o rest
      BY <1>1, <2>2
    <3> HIDE DEF rest
    <3>3. QED
      BY <1>2, <3>1, <3>2 DEF Entry
  <2>3. QED
    BY <2>1, <2>2
<1>5. ListIsSet'
  <2>1. \A i \in 1 .. size + 1 : i \in 1 .. size \/ i = size + 1
    BY <1>2
  <2>2. \A i \in 1 .. size + 1 : array'[i] \in Others
    BY <1>2, <1>4, <2>1 DEF ListIsSet
  <2>3. \A i, j \in 1 .. size + 1 : array'[i] = array'[j] => i = j
    BY <1>2, <1>3, <1>4, <2>1 DEF ListIsSet
  <2>4. Len(array') \in Nat
    BY <1>4
  <2>5. QED
    BY <1>1, <1>2, <1>4, <2>2, <2>3, <2>4 DEF ListIsSet
<1>6. CASE job.at = "sized"
  BY <1>1, <1>5, <1>6 DEF AddNode, FederationInv, JobShape, AnchoredByEnoughNodes
<1>7. CASE job.at # "asking" /\ job.at # "sized"
  <2>1. job' = job
    BY <1>7 DEF AddNode, OldArrayInUse
  <2>2. QED
    BY <1>1, <1>5, <1>7, <2>1 DEF FederationInv, JobShape, AnchoredByEnoughNodes
<1>8. CASE job.at = "asking" /\ job.view = << >>
  <2>0. job.entries \in Nat /\ job.entries <= Len(array) /\ Asking /\ JobShape
    BY <1>8 DEF FederationInv, Asking, Read
  <2>1. CASE size = Len(array)
    <3>1. job' = [job EXCEPT !.view = array]
      BY <1>8, <2>1 DEF AddNode, OldArrayInUse
    <3>2. /\ job'.at = "asking" /\ job'.view = array /\ job'.entries = job.entries
          /\ job'.calls = job.calls /\ job'.disturbed = job.disturbed /\ DOMAIN job' = DOMAIN job
      BY <1>8, <2>0, <3>1 DEF JobShape
    <3>3. Len(Read') >= Len(array) /\ \A i \in 1 .. job.entries : Read'[i] = Read[i]
      <4>1. CASE array = << >>
        BY <1>4, <1>8, <2>0, <3>2, <4>1 DEF Read
      <4>2. CASE array # << >>
        BY <1>8, <2>0, <3>2, <4>2 DEF Read
      <4>3. QED
        BY <4>1, <4>2
    <3>4. Len(Read') \in Nat
      BY <1>2, <1>4, <3>2 DEF Read
    <3>5. Asking'
      BY <1>2, <2>0, <3>2, <3>3, <3>4 DEF Asking
    <3>6. JobShape' /\ AnchoredByEnoughNodes'
      BY <1>8, <2>0, <3>2 DEF JobShape, AnchoredByEnoughNodes
    <3>7. ASSUME job.disturbed # TRUE PROVE AsksEachOnce'
      <4>1. AsksEachOnce /\ Len(job.calls) \in Nat /\ Len(job.calls) <= job.entries
        BY <1>8, <2>0, <3>7 DEF FederationInv, Asking
      <4>2. QED
        BY <1>1, <1>2, <1>8, <2>0, <3>2, <3>3, <4>1 DEF AsksEachOnce
    <3>8. QED
      BY <1>1, <1>5, <3>2, <3>5, <3>6, <3>7 DEF FederationInv
  <2>2. CASE size # Len(array)
    <3>1. job' = job
      BY <1>8, <2>2 DEF AddNode, OldArrayInUse
    <3>2. Read' = array' /\ Read = array
      BY <1>8, <3>1 DEF Read
    <3>3. Asking'
      BY <1>2, <1>4, <2>0, <3>1, <3>2 DEF Asking
    <3>4. ASSUME job.disturbed # TRUE PROVE AsksEachOnce'
      <4>1. AsksEachOnce /\ Len(job.calls) \in Nat /\ Len(job.calls) <= job.entries
        BY <1>8, <2>0, <3>4 DEF FederationInv, Asking
      <4>2. job.entries <= size
        BY <1>8, <4>1 DEF AsksEachOnce
      <4>3. QED
        BY <1>1, <1>2, <1>4, <1>8, <2>0, <3>1, <3>2, <4>1, <4>2 DEF AsksEachOnce
    <3>5. QED
      BY <1>1, <1>5, <1>8, <3>1, <3>3, <3>4 DEF FederationInv, JobShape, AnchoredByEnoughNodes
  <2>3. QED
    BY <2>1, <2>2
<1>9. CASE job.at = "asking" /\ job.view # << >>
  <2>1. job' = job /\ Read' = Read
    BY <1>9 DEF AddNode, OldArrayInUse, Read
  <2>2. QED
    BY <1>1, <1>5, <1>9, <2>1 DEF FederationInv, Asking, AsksEachOnce, JobShape, AnchoredByEnoughNodes
<1>10. QED
  BY <1>6, <1>7, <1>8, <1>9

(* The entries that move up are still in the list, which is one shorter.   *)
LEMMA RemoveNodeKeeps ==
  ASSUME FederationInv, NEW e \in Others, RemoveNode(e)
  PROVE  FederationInv'
<1>1. PICK r \in 1 .. size :
        /\ array[r] = e
        /\ array' = [k \in DOMAIN array |-> IF k \in r .. size - 1 THEN array[k + 1] ELSE array[k]]
  BY DEF RemoveNode
<1>2. /\ size' = size - 1 /\ UNCHANGED <<known, up>>
      /\ job' = IF OldArrayInUse THEN [job EXCEPT !.disturbed = TRUE] ELSE job
  BY DEF RemoveNode
<1>3. /\ ListIsSet /\ size \in Nat /\ array \in Seq(Entry) /\ Len(array) \in Nat
      /\ size <= Len(array) /\ DOMAIN array = 1 .. Len(array)
  BY DEF FederationInv, ListIsSet
<1>4. array' \in Seq(Entry) /\ Len(array') = Len(array)
  <2>1. \A k \in 1 .. Len(array) : array'[k] \in Entry
    BY <1>1, <1>3
  <2>2. DOMAIN array' = 1 .. Len(array) /\ array' = [k \in 1 .. Len(array) |-> array'[k]]
    BY <1>1, <1>3
  <2>3. array' \in [1 .. Len(array) -> Entry]
    BY <2>1, <2>2
  <2>4. QED
    BY <1>3, <2>3
<1>5. ListIsSet'
  <2> DEFINE old(i) == IF i \in r .. size - 1 THEN i + 1 ELSE i
  <2>1. \A i \in 1 .. size - 1 : array'[i] = array[old(i)] /\ old(i) \in 1 .. size
    BY <1>1, <1>3
  <2>2. \A i, j \in 1 .. size - 1 : old(i) = old(j) => i = j
    BY <1>1, <1>3
  <2> HIDE DEF old
  <2>3. \A i \in 1 .. size - 1 : array'[i] \in Others
    BY <1>3, <2>1 DEF ListIsSet
  <2>4. \A i, j \in 1 .. size - 1 : array'[i] = array'[j] => i = j
    BY <1>3, <2>1, <2>2 DEF ListIsSet
  <2>5. size' = size - 1 /\ size - 1 \in Nat /\ size - 1 <= Len(array')
    BY <1>1, <1>2, <1>3, <1>4
  <2>6. QED
    BY <1>4, <2>3, <2>4, <2>5 DEF ListIsSet
<1>6. CASE OldArrayInUse
  <2>1. /\ job.at = "asking" /\ job.view = << >> /\ JobShape /\ Asking
        /\ job' = [job EXCEPT !.disturbed = TRUE]
    BY <1>2, <1>6 DEF FederationInv, OldArrayInUse
  <2>2. /\ job'.at = "asking" /\ job'.view = job.view /\ job'.entries = job.entries
        /\ job'.calls = job.calls /\ job'.disturbed = TRUE /\ DOMAIN job' = DOMAIN job
    BY <2>1 DEF JobShape
  <2>3. Read' = array' /\ Read = array
    BY <2>1, <2>2 DEF Read
  <2>4. Asking'
    BY <1>4, <2>1, <2>2, <2>3 DEF Asking
  <2>5. QED
    BY <1>2, <1>5, <2>1, <2>2, <2>4 DEF FederationInv, JobShape, AnchoredByEnoughNodes
<1>7. CASE ~OldArrayInUse
  <2>1. job' = job /\ (job.at = "asking" => Read' = Read /\ job.view # << >>)
    BY <1>2, <1>7 DEF OldArrayInUse, Read
  <2>2. QED
    BY <1>2, <1>5, <2>1 DEF FederationInv, Asking, AsksEachOnce, JobShape, AnchoredByEnoughNodes
<1>8. QED
  BY <1>6, <1>7

----------------------------------------------------------------------------
LEMMA BeginKeeps ==
  ASSUME FederationInv, BeginAnchor \/ BeginLoop
  PROVE  FederationInv'
<1>1. UNCHANGED <<array, size, known, up>> /\ ListIsSet
  BY DEF BeginAnchor, BeginLoop, FederationInv
<1>2. ListIsSet'
  BY <1>1 DEF ListIsSet
<1>3. CASE BeginAnchor
  <2>1. job' = [at |-> "sized", room |-> size, grown |-> FALSE]
    BY <1>3 DEF BeginAnchor
  <2>2. QED
    BY <1>1, <1>2, <2>1 DEF FederationInv, JobShape, AnchoredByEnoughNodes
<1>4. CASE BeginLoop
  <2>1. job' = [at |-> "asking", room |-> job.room, grown |-> job.grown, entries |-> size,
                view |-> << >>, calls |-> << >>, disturbed |-> FALSE]
    BY <1>4 DEF BeginLoop
  <2>2. /\ job'.at = "asking" /\ job'.entries = size /\ job'.view = << >> /\ job'.calls = << >>
        /\ Len(job'.calls) = 0 /\ JobShape' /\ AnchoredByEnoughNodes'
    BY <2>1 DEF JobShape, AnchoredByEnoughNodes
  <2>3. Read' = array
    BY <1>1, <2>2 DEF Read
  <2>4. Asking' /\ AsksEachOnce'
    BY <1>1, <2>2, <2>3 DEF Asking, AsksEachOnce, ListIsSet
  <2>5. QED
    BY <1>1, <1>2, <2>2, <2>4 DEF FederationInv
<1>5. QED
  BY <1>3, <1>4

(* Each step of the loop, and each answer, changes the calls alone.        *)
LEMMA CallsKeep ==
  ASSUME FederationInv, job.at = "asking", UNCHANGED <<array, size, known, up>>,
         NEW c, job' = [job EXCEPT !.calls = c], c \in Seq([to : Entry, result : {"sent", "confirmed", "failed", "blocked"}]),
         Len(c) <= job.entries,
         AsksEachOnce => \A i \in 1 .. Len(c) : c[i].to = Read[i]
  PROVE  FederationInv'
<1>1. /\ job'.at = "asking" /\ job'.view = job.view /\ job'.entries = job.entries
      /\ job'.calls = c /\ job'.disturbed = job.disturbed /\ DOMAIN job' = DOMAIN job
  BY DEF FederationInv, JobShape
<1>2. Read' = Read /\ ListIsSet'
  BY <1>1 DEF Read, FederationInv, ListIsSet
<1>3. Asking' /\ (AsksEachOnce => AsksEachOnce')
  BY <1>1, <1>2 DEF FederationInv, Asking, AsksEachOnce
<1>4. QED
  BY <1>1, <1>2, <1>3 DEF FederationInv, JobShape, AnchoredByEnoughNodes

LEMMA AskKeeps ==
  ASSUME FederationInv, Ask
  PROVE  FederationInv'
<1> DEFINE i == Len(job.calls) + 1
<1>1. /\ job.at = "asking" /\ Len(job.calls) < job.entries /\ Asking
      /\ UNCHANGED <<array, size, known, up>>
  BY DEF Ask, FederationInv
<1>2. PICK asked : asked = [to |-> Read[i], result |-> "sent"]
  OBVIOUS
<1>3. PICK c : c = Append(job.calls, asked)
  OBVIOUS
<1>4. job' = [job EXCEPT !.calls = c]
  BY <1>2, <1>3 DEF Ask, Read
<1>5. Read \in Seq(Entry)
  BY <1>1 DEF Read, FederationInv, ListIsSet, Asking
<1>6. i \in 1 .. Len(Read) /\ Len(job.calls) \in Nat
  BY <1>1, <1>5 DEF Asking
<1>7. asked \in [to : Entry, result : {"sent", "confirmed", "failed", "blocked"}]
  BY <1>2, <1>5, <1>6
<1>8. /\ c \in Seq([to : Entry, result : {"sent", "confirmed", "failed", "blocked"}])
      /\ Len(c) = Len(job.calls) + 1 /\ c[i] = asked
      /\ \A k \in 1 .. Len(job.calls) : c[k] = job.calls[k]
  BY <1>1, <1>3, <1>7 DEF Asking
<1>9. AsksEachOnce => \A k \in 1 .. Len(c) : c[k].to = Read[k]
  BY <1>2, <1>6, <1>8 DEF AsksEachOnce
<1>10. Len(c) <= job.entries
  BY <1>1, <1>6, <1>8 DEF Asking
<1>11. QED
  BY <1>1, <1>4, <1>8, <1>9, <1>10, CallsKeep

LEMMA AnsweredKeeps ==
  ASSUME FederationInv, NEW i \in DOMAIN job.calls, Confirmed(i) \/ Failed(i)
  PROVE  FederationInv'
<1>1. job.at = "asking" /\ Asking /\ UNCHANGED <<array, size, known, up>>
  BY DEF Confirmed, Failed, FederationInv
<1>2. PICK res \in {"confirmed", "failed", "blocked"} : job' = [job EXCEPT !.calls[i].result = res]
  BY DEF Confirmed, Failed
<1>3. PICK c : c = [job.calls EXCEPT ![i].result = res]
  OBVIOUS
<1>4. job' = [job EXCEPT !.calls = c]
  BY <1>2, <1>3
<1>5. /\ c \in Seq([to : Entry, result : {"sent", "confirmed", "failed", "blocked"}])
      /\ Len(c) = Len(job.calls) /\ \A k \in 1 .. Len(c) : c[k].to = job.calls[k].to
  <2>1. PICK d : d = job.calls
    OBVIOUS
  <2>2. /\ d \in Seq([to : Entry, result : {"sent", "confirmed", "failed", "blocked"}])
        /\ i \in 1 .. Len(d) /\ c = [d EXCEPT ![i] = [d[i] EXCEPT !.result = res]]
    BY <1>1, <1>3, <2>1 DEF Asking
  <2>3. [d[i] EXCEPT !.result = res] \in [to : Entry, result : {"sent", "confirmed", "failed", "blocked"}]
    <3>1. PICK x \in [to : Entry, result : {"sent", "confirmed", "failed", "blocked"}] : x = d[i]
      <4>1. PICK R : R = [to : Entry, result : {"sent", "confirmed", "failed", "blocked"}]
        OBVIOUS
      <4>2. d \in Seq(R) /\ i \in 1 .. Len(d)
        BY <2>2, <4>1
      <4>3. d[i] \in R
        BY <4>2
      <4>4. QED
        BY <4>1, <4>3
    <3>2. [x EXCEPT !.result = res] = [to |-> x.to, result |-> res]
      BY <3>1
    <3>3. QED
      BY <3>1, <3>2
  <2>4. /\ c \in Seq([to : Entry, result : {"sent", "confirmed", "failed", "blocked"}])
        /\ Len(c) = Len(d) /\ \A k \in 1 .. Len(d) : c[k].to = d[k].to
    BY <2>2, <2>3
  <2>5. QED
    BY <2>1, <2>4
<1>6. QED
  BY <1>1, <1>4, <1>5, CallsKeep DEF Asking, AsksEachOnce

(* Undisturbed calls went to different entries: as many confirmations, as  *)
(* many nodes.                                                             *)
LEMMA FinishAnchorKeeps ==
  ASSUME FederationInv, FinishAnchor
  PROVE  FederationInv'
<1>1. /\ job.at = "asking" /\ Asking /\ UNCHANGED <<array, size, up>>
  BY DEF FinishAnchor, FederationInv
<1>2. ListIsSet' /\ known' \subseteq {Self}
  BY <1>1 DEF FinishAnchor, FederationInv, ListIsSet
<1>3. CASE Enough(Cardinality(DOMAIN ConfirmedNodes))
  <2>1. job' = [at |-> "anchored", by |-> ConfirmedNodes, disturbed |-> job.disturbed]
    BY <1>3 DEF FinishAnchor
  <2>2. ASSUME job.disturbed # TRUE PROVE Cardinality(Range(ConfirmedNodes)) >= MinConfirm
    <3> DEFINE C == Calls("confirmed")
    <3>1. AsksEachOnce /\ Len(job.calls) \in Nat /\ DOMAIN job.calls = 1 .. Len(job.calls)
      BY <1>1, <2>2 DEF FederationInv, Asking
    <3>2. \A i, j \in 1 .. Len(job.calls) : job.calls[i].to = job.calls[j].to => i = j
      BY <1>1, <3>1 DEF AsksEachOnce, Asking
    <3>3. C \subseteq 1 .. Len(job.calls)
      BY <3>1 DEF Calls
    <3>4. IsFiniteSet(C)
      <4>1. IsFiniteSet(1 .. Len(job.calls)) /\ C \in SUBSET (1 .. Len(job.calls))
        BY <3>1, <3>3, FS_Interval
      <4> HIDE DEF C
      <4>2. QED
        BY <4>1, FS_Subset
    <3>5. DOMAIN ConfirmedNodes = C /\ \A i \in C : ConfirmedNodes[i] = job.calls[i].to
      BY DEF ConfirmedNodes
    <3> HIDE DEF C
    <3>6. ConfirmedNodes = [i \in C |-> ConfirmedNodes[i]]
      BY <3>5 DEF ConfirmedNodes
    <3>7. ConfirmedNodes \in Bijection(C, Range(ConfirmedNodes))
      BY <3>2, <3>3, <3>5, <3>6 DEF Range, Bijection, Injection, Surjection, IsInjective
    <3>8. Cardinality(Range(ConfirmedNodes)) = Cardinality(C)
      BY <3>4, <3>7, FS_Bijection DEF ExistsBijection
    <3>9. QED
      BY <1>3, <3>5, <3>8 DEF Enough
  <2>3. AnchoredByEnoughNodes'
    BY <2>1, <2>2 DEF AnchoredByEnoughNodes
  <2>4. QED
    BY <1>1, <1>2, <2>1, <2>3 DEF FederationInv, JobShape
<1>4. CASE ~Enough(Cardinality(DOMAIN ConfirmedNodes))
  <2>1. job' = [at |-> "refused"]
    BY <1>4 DEF FinishAnchor
  <2>2. QED
    BY <1>1, <1>2, <2>1 DEF FederationInv, JobShape, AnchoredByEnoughNodes
<1>5. QED
  BY <1>3, <1>4

LEMMA UpAndDownKeep ==
  ASSUME FederationInv, NEW n \in Nodes, Down(n) \/ Restart(n)
  PROVE  FederationInv'
<1>1. /\ up' \subseteq Nodes /\ known' \subseteq {Self} /\ job' \in {job, NoJob}
      /\ \/ UNCHANGED <<array, size>>
         \/ job' = NoJob /\ array' = SetToSeq(Listed) /\ size' = Cardinality(Listed)
  BY DEF Down, Restart, FederationInv
<1>2. CASE UNCHANGED <<array, size>>
  <2>1. ListIsSet' /\ (job' = job => Read' = Read)
    BY <1>2 DEF FederationInv, ListIsSet, Read
  <2>2. CASE job' = job
    <3>1. (Asking => Asking') /\ (AsksEachOnce => AsksEachOnce')
      BY <1>1, <1>2, <2>1, <2>2 DEF Asking, AsksEachOnce
    <3>2. QED
      BY <1>1, <2>1, <2>2, <3>1 DEF FederationInv, JobShape, AnchoredByEnoughNodes
  <2>3. CASE job' = NoJob
    BY <1>1, <2>1, <2>3 DEF FederationInv, NoJob, JobShape, AnchoredByEnoughNodes
  <2>4. QED
    BY <1>1, <2>2, <2>3
<1>3. CASE job' = NoJob /\ array' = SetToSeq(Listed) /\ size' = Cardinality(Listed)
  <2>1. ListIsSet'
    BY <1>3, ConfiguredList DEF ListIsSet
  <2>2. QED
    BY <1>1, <1>3, <2>1 DEF FederationInv, NoJob, JobShape, AnchoredByEnoughNodes
<1>4. QED
  BY <1>1, <1>2, <1>3

LEMMA FederationInvNext == FederationInv /\ [FederationNext]_federationVars => FederationInv'
<1> SUFFICES ASSUME FederationInv, [FederationNext]_federationVars PROVE FederationInv'
  OBVIOUS
<1>1. CASE JobStep
  BY <1>1, BeginKeeps, AskKeeps, AnsweredKeeps, FinishAnchorKeeps DEF JobStep
<1>2. CASE UNCHANGED federationVars
  BY <1>2 DEF federationVars, FederationInv, ListIsSet, Read, Asking, AsksEachOnce, JobShape,
               AnchoredByEnoughNodes
<1>3. QED
  BY <1>1, <1>2, AddNodeKeeps, RemoveNodeKeeps, BeginKeeps, UpAndDownKeep DEF FederationNext

(* For any federation and any configuration of it: what federated.go:146   *)
(* reports as anchored had MinConfirm different nodes behind it unless an  *)
(* entry went while the loop ran, and what federated.go:231 verifies is    *)
(* remembered, by the node that is asked or by the one that anchored,      *)
(* where one confirmation is enough.                                       *)
THEOREM FederationAnchorsAreEarned == FederationSpec => []AnchorsAreEarned
<1>1. FederationInv => AnchorsAreEarned
  BY InvVerifies DEF FederationInv, AnchorsAreEarned
<1>2. FederationSpec => []FederationInv
  BY FederationInvInit, FederationInvNext, PTL DEF FederationSpec
<1>3. QED
  BY <1>1, <1>2, PTL

----------------------------------------------------------------------------
(***************************************************************************)
(* Fingerprints, for any collections, tenants and traces.                  *)
(*                                                                         *)
(* Each measure is a share in thousandths, the same from both sides and    *)
(* greatest of a value with itself, and so is their weighted mean. Rows    *)
(* are only added, and only their certificate changes: what a first read   *)
(* found is still there at the second.                                     *)
(***************************************************************************)

LEMMA UnitIs == Unit \in Nat \ {0}
BY FingerprintsAssumption DEF FingerprintsAssumption

Stat == [speed : Nat, first : Nat]
Probs == [logprob : Nat, entropy : Nat] \cup {NoProbs}
Semantic == [diversity : 0 .. Unit, sentence : Nat, complexity : Nat]
Fingerprint == [stat : Stat, probs : Probs, semantic : Semantic, internal : BOOLEAN]
Share == 0 .. 1000

----------------------------------------------------------------------------
(* Similarity.                                                             *)

LEMMA QuotientIsShare ==
  ASSUME NEW n \in Nat, NEW d \in Nat \ {0}, n <= d
  PROVE  (1000 * n) \div d \in Share
<1>1. PICK q \in Int : q = (1000 * n) \div d
  OBVIOUS
<1>2. PICK m \in Nat : m = 1000 * n
  OBVIOUS
<1>3. q >= 0 /\ d * q <= m
  BY <1>1, <1>2
<1>4. q <= 1000
  <2> SUFFICES ASSUME q >= 1001 PROVE FALSE
    BY <1>1
  <2>1. d * q >= d * 1001
    BY <1>1
  <2>2. QED
    BY <1>2, <1>3, <2>1
<1>5. QED
  BY <1>1, <1>3, <1>4 DEF Share

LEMMA WholeIsAll ==
  ASSUME NEW d \in Nat \ {0}
  PROVE  (1000 * d) \div d = 1000
OBVIOUS

(* Means of shares, by their weights.                                      *)
LEMMA MeanIsShare ==
  ASSUME NEW k \in {2, 7, 10}, NEW m \in Nat, NEW n \in Nat, m <= 1000 * k, n <= m
  PROVE  n \div k \in Share /\ m \div k \in Share /\ n \div k <= m \div k
<1>1. CASE k = 2
  <2>1. m <= 2000
    BY <1>1
  <2>2. n \div 2 \in Nat /\ n \div 2 <= 1000
    BY <2>1
  <2>3. m \div 2 \in Nat /\ m \div 2 <= 1000
    BY <2>1
  <2>4. n \div 2 <= m \div 2
    OBVIOUS
  <2>5. QED
    BY <1>1, <2>2, <2>3, <2>4 DEF Share
<1>2. CASE k = 7
  <2>1. m <= 7000
    BY <1>2
  <2>2. n \div 7 \in Nat /\ n \div 7 <= 1000
    BY <2>1
  <2>3. m \div 7 \in Nat /\ m \div 7 <= 1000
    BY <2>1
  <2>4. n \div 7 <= m \div 7
    OBVIOUS
  <2>5. QED
    BY <1>2, <2>2, <2>3, <2>4 DEF Share
<1>3. CASE k = 10
  <2>1. m <= 10000
    BY <1>3
  <2>2. n \div 10 \in Nat /\ n \div 10 <= 1000
    BY <2>1
  <2>3. m \div 10 \in Nat /\ m \div 10 <= 1000
    BY <2>1
  <2>4. n \div 10 <= m \div 10
    OBVIOUS
  <2>5. QED
    BY <1>3, <2>2, <2>3, <2>4 DEF Share
<1>4. QED
  BY <1>1, <1>2, <1>3

LEMMA MeanOfMore ==
  ASSUME NEW n \in Nat, NEW m \in Nat, n <= 7000, m <= 10000, 10 * n <= 7 * m
  PROVE  n \div 7 \in Share /\ n \div 7 <= m \div 10
<1>1. n \div 7 \in Nat /\ n \div 7 <= 1000
  OBVIOUS
<1>2. n \div 7 <= m \div 10
  OBVIOUS
<1>3. QED
  BY <1>1, <1>2 DEF Share

(* Each measure is a share, the same from both sides and greatest of a     *)
(* value with itself.                                                      *)
LEMMA RatioIs ==
  ASSUME NEW a \in Nat, NEW b \in Nat
  PROVE  Ratio(a, b) \in Share /\ Ratio(b, a) = Ratio(a, b) /\ Ratio(a, b) <= Ratio(a, a) /\ Ratio(a, a) \in Share
<1>1. CASE a > 0 /\ b > 0
  <2>1. Lesser(a, b) \in Nat /\ Greater(a, b) \in Nat \ {0} /\ Lesser(a, b) <= Greater(a, b)
    BY <1>1 DEF Lesser, Greater
  <2>2. Ratio(a, b) = (1000 * Lesser(a, b)) \div Greater(a, b) /\ Ratio(a, b) \in Share
    BY <1>1, <2>1, QuotientIsShare DEF Ratio
  <2>3. Lesser(b, a) = Lesser(a, b) /\ Greater(b, a) = Greater(a, b)
    BY DEF Lesser, Greater
  <2>4. Ratio(b, a) = Ratio(a, b)
    BY <1>1, <2>2, <2>3 DEF Ratio
  <2>5. Ratio(a, a) = 1000
    <3>1. Lesser(a, a) = a /\ Greater(a, a) = a
      BY DEF Lesser, Greater
    <3>2. QED
      BY <1>1, <3>1, WholeIsAll DEF Ratio
  <2>6. QED
    BY <2>2, <2>4, <2>5 DEF Share
<1>2. CASE ~(a > 0 /\ b > 0)
  <2>1. Ratio(a, b) = 0 /\ Ratio(b, a) = 0
    BY <1>2 DEF Ratio
  <2>2. Ratio(a, a) \in Share
    <3>1. CASE a > 0
      <4>1. Lesser(a, a) = a /\ Greater(a, a) = a
        BY DEF Lesser, Greater
      <4>2. QED
        BY <3>1, <4>1, WholeIsAll DEF Ratio, Share
    <3>2. CASE ~(a > 0)
      BY <3>2 DEF Ratio, Share
    <3>3. QED
      BY <3>1, <3>2
  <2>3. QED
    BY <2>1, <2>2 DEF Share
<1>3. QED
  BY <1>1, <1>2

LEMMA DiffIs ==
  ASSUME NEW a \in Nat, NEW b \in Nat
  PROVE  AbsDiff(a, b) \in Nat /\ AbsDiff(b, a) = AbsDiff(a, b) /\ AbsDiff(a, a) = 0
BY DEF AbsDiff

LEMMA NearnessIs ==
  ASSUME NEW a \in Nat, NEW b \in Nat, NEW w \in Nat \ {0}
  PROVE  Nearness(a, b, w) \in Share /\ Nearness(b, a, w) = Nearness(a, b, w) /\ Nearness(a, a, w) = 1000
<1>1. AbsDiff(a, b) \in Nat /\ AbsDiff(b, a) = AbsDiff(a, b) /\ AbsDiff(a, a) = 0
  BY DiffIs
<1>2. Nearness(b, a, w) = Nearness(a, b, w)
  BY <1>1 DEF Nearness
<1>3. Nearness(a, a, w) = 1000
  BY <1>1, WholeIsAll DEF Nearness
<1>4. Nearness(a, b, w) \in Share
  <2>1. CASE AbsDiff(a, b) < w
    <3>1. PICK n \in Nat : n = w - AbsDiff(a, b) /\ n <= w
      BY <1>1, <2>1
    <3>2. Nearness(a, b, w) = (1000 * n) \div w
      BY <2>1, <3>1 DEF Nearness
    <3>3. QED
      BY <3>1, <3>2, QuotientIsShare
  <2>2. CASE ~(AbsDiff(a, b) < w)
    BY <2>2 DEF Nearness, Share
  <2>3. QED
    BY <2>1, <2>2
<1>5. QED
  BY <1>2, <1>3, <1>4

LEMMA StatisticalIs ==
  ASSUME NEW a \in Stat, NEW b \in Stat
  PROVE  /\ compareStatistical(a, b) \in Share /\ compareStatistical(b, a) = compareStatistical(a, b)
         /\ compareStatistical(a, b) <= compareStatistical(a, a) /\ compareStatistical(a, a) \in Share
<1>1. a.speed \in Nat /\ a.first \in Nat /\ b.speed \in Nat /\ b.first \in Nat
  BY DEF Stat
<1>2. PICK r1 \in Share, r2 \in Share, s1 \in Share, s2 \in Share :
        /\ r1 = Ratio(a.speed, b.speed) /\ r2 = Ratio(a.first, b.first)
        /\ s1 = Ratio(a.speed, a.speed) /\ s2 = Ratio(a.first, a.first)
        /\ r1 <= s1 /\ r2 <= s2 /\ r1 = Ratio(b.speed, a.speed) /\ r2 = Ratio(b.first, a.first)
  BY <1>1, RatioIs
<1>3. /\ compareStatistical(a, b) = (r1 + r2) \div 2 /\ compareStatistical(b, a) = (r1 + r2) \div 2
      /\ compareStatistical(a, a) = (s1 + s2) \div 2
  BY <1>2 DEF compareStatistical
<1>4. PICK n, m : n = r1 + r2 /\ m = s1 + s2
  OBVIOUS
<1>5. n \in Nat /\ m \in Nat /\ m <= 1000 * 2 /\ n <= m
  <2>1. r1 <= s1 /\ r2 <= s2
    BY <1>2
  <2>2. QED
    BY <1>4, <2>1 DEF Share
<1>6. n \div 2 \in Share /\ m \div 2 \in Share /\ n \div 2 <= m \div 2
  BY <1>5, MeanIsShare
<1>7. QED
  BY <1>3, <1>4, <1>6

LEMMA TokenProbsIs ==
  ASSUME NEW a \in Probs \ {NoProbs}, NEW b \in Probs \ {NoProbs}
  PROVE  /\ compareTokenProbs(a, b) \in Share /\ compareTokenProbs(b, a) = compareTokenProbs(a, b)
         /\ compareTokenProbs(a, a) = 1000
<1>1. a.logprob \in Nat /\ a.entropy \in Nat /\ b.logprob \in Nat /\ b.entropy \in Nat
  BY DEF Probs
<1>2. PICK r1 \in Share, r2 \in Share :
        /\ r1 = Nearness(a.logprob, b.logprob, Unit) /\ r2 = Nearness(a.entropy, b.entropy, Unit)
        /\ r1 = Nearness(b.logprob, a.logprob, Unit) /\ r2 = Nearness(b.entropy, a.entropy, Unit)
        /\ Nearness(a.logprob, a.logprob, Unit) = 1000 /\ Nearness(a.entropy, a.entropy, Unit) = 1000
  BY <1>1, UnitIs, NearnessIs
<1>3. /\ compareTokenProbs(a, b) = (r1 + r2) \div 2 /\ compareTokenProbs(b, a) = (r1 + r2) \div 2
      /\ compareTokenProbs(a, a) = (1000 + 1000) \div 2
  BY <1>2 DEF compareTokenProbs
<1>4. PICK n : n = r1 + r2
  OBVIOUS
<1>5. n \in Nat /\ n <= 1000 * 2
  BY <1>4 DEF Share
<1>6. n \div 2 \in Share
  BY <1>5, MeanIsShare
<1>7. (1000 + 1000) \div 2 = 1000
  OBVIOUS
<1>8. QED
  BY <1>3, <1>4, <1>6, <1>7

LEMMA SemanticIs ==
  ASSUME NEW a \in Semantic, NEW b \in Semantic
  PROVE  /\ compareSemantic(a, b) \in Share /\ compareSemantic(b, a) = compareSemantic(a, b)
         /\ compareSemantic(a, b) <= compareSemantic(a, a) /\ compareSemantic(a, a) \in Share
<1>1. /\ a.diversity \in 0 .. Unit /\ a.sentence \in Nat /\ a.complexity \in Nat
      /\ b.diversity \in 0 .. Unit /\ b.sentence \in Nat /\ b.complexity \in Nat
  BY DEF Semantic
<1>2. PICK d1 \in Share : /\ d1 = (1000 * (Unit - AbsDiff(a.diversity, b.diversity))) \div Unit
                          /\ d1 = (1000 * (Unit - AbsDiff(b.diversity, a.diversity))) \div Unit
                          /\ (1000 * (Unit - AbsDiff(a.diversity, a.diversity))) \div Unit = 1000
  <2>1. /\ AbsDiff(a.diversity, b.diversity) \in Nat /\ AbsDiff(a.diversity, b.diversity) <= Unit
        /\ AbsDiff(b.diversity, a.diversity) = AbsDiff(a.diversity, b.diversity)
        /\ AbsDiff(a.diversity, a.diversity) = 0
    BY <1>1, UnitIs DEF AbsDiff
  <2>2. PICK n \in Nat : n = Unit - AbsDiff(a.diversity, b.diversity) /\ n <= Unit
    BY <2>1, UnitIs
  <2>3. (1000 * n) \div Unit \in Share /\ (1000 * Unit) \div Unit = 1000
    BY <2>2, UnitIs, QuotientIsShare, WholeIsAll
  <2>4. Unit - AbsDiff(a.diversity, a.diversity) = Unit
    BY <2>1, UnitIs
  <2>5. QED
    BY <2>1, <2>2, <2>3, <2>4
<1>3. PICK r2 \in Share, s2 \in Share :
        /\ r2 = Ratio(a.sentence, b.sentence) /\ r2 = Ratio(b.sentence, a.sentence)
        /\ s2 = Ratio(a.sentence, a.sentence) /\ r2 <= s2
  BY <1>1, RatioIs
<1>4. PICK r3 \in Share :
        /\ r3 = Nearness(a.complexity, b.complexity, 20) /\ r3 = Nearness(b.complexity, a.complexity, 20)
        /\ Nearness(a.complexity, a.complexity, 20) = 1000
  BY <1>1, NearnessIs
<1>5. /\ compareSemantic(a, b) = (3 * d1 + 3 * r2 + 4 * r3) \div 10
      /\ compareSemantic(b, a) = (3 * d1 + 3 * r2 + 4 * r3) \div 10
      /\ compareSemantic(a, a) = (3 * 1000 + 3 * s2 + 4 * 1000) \div 10
  BY <1>2, <1>3, <1>4 DEF compareSemantic
<1>6. PICK n, m : n = 3 * d1 + 3 * r2 + 4 * r3 /\ m = 3 * 1000 + 3 * s2 + 4 * 1000
  OBVIOUS
<1>7. n \in Nat /\ m \in Nat /\ m <= 1000 * 10 /\ n <= m
  <2>1. r2 <= s2
    BY <1>3
  <2>2. QED
    BY <1>6, <2>1 DEF Share
<1>8. n \div 10 \in Share /\ m \div 10 \in Share /\ n \div 10 <= m \div 10
  BY <1>7, MeanIsShare
<1>9. QED
  BY <1>5, <1>6, <1>8

LEMMA SimilarityIs ==
  ASSUME NEW a \in Fingerprint, NEW b \in Fingerprint
  PROVE  /\ CompareFingerprints(a, b) = CompareFingerprints(b, a)
         /\ CompareFingerprints(a, b) \in Share
         /\ CompareFingerprints(a, b) <= CompareFingerprints(a, a)
<1>1. /\ a.stat \in Stat /\ a.probs \in Probs /\ a.semantic \in Semantic
      /\ b.stat \in Stat /\ b.probs \in Probs /\ b.semantic \in Semantic
  BY DEF Fingerprint
<1>2. PICK t \in Share, u \in Share :
        /\ t = compareStatistical(a.stat, b.stat) /\ t = compareStatistical(b.stat, a.stat)
        /\ u = compareStatistical(a.stat, a.stat) /\ t <= u
  BY <1>1, StatisticalIs
<1>3. PICK s \in Share, v \in Share :
        /\ s = compareSemantic(a.semantic, b.semantic) /\ s = compareSemantic(b.semantic, a.semantic)
        /\ v = compareSemantic(a.semantic, a.semantic) /\ s <= v
  BY <1>1, SemanticIs
<1>4. t <= u /\ s <= v
  BY <1>2, <1>3
<1>5. CASE a.probs = NoProbs
  <2>1. /\ CompareFingerprints(a, b) = (3 * t + 4 * s) \div 7 /\ CompareFingerprints(b, a) = (3 * t + 4 * s) \div 7
        /\ CompareFingerprints(a, a) = (3 * u + 4 * v) \div 7
    BY <1>2, <1>3, <1>5 DEF CompareFingerprints
  <2>2. PICK n, m : n = 3 * t + 4 * s /\ m = 3 * u + 4 * v
    OBVIOUS
  <2>3. n \in Nat /\ m \in Nat /\ m <= 1000 * 7 /\ n <= m
    BY <1>4, <2>2 DEF Share
  <2>4. n \div 7 \in Share /\ n \div 7 <= m \div 7
    BY <2>3, MeanIsShare
  <2>5. QED
    BY <2>1, <2>2, <2>4
<1>6. CASE a.probs # NoProbs
  <2>1. PICK p \in Share : /\ b.probs # NoProbs => p = compareTokenProbs(a.probs, b.probs)
                           /\ b.probs # NoProbs => p = compareTokenProbs(b.probs, a.probs)
                           /\ compareTokenProbs(a.probs, a.probs) = 1000
    <3>1. 0 \in Share
      BY DEF Share
    <3>2. QED
      BY <1>1, <1>6, <3>1, TokenProbsIs
  <2>2. CompareFingerprints(a, a) = (3 * u + 3 * 1000 + 4 * v) \div 10
    BY <1>2, <1>3, <1>6, <2>1 DEF CompareFingerprints
  <2>3. CASE b.probs = NoProbs
    <3>1. CompareFingerprints(a, b) = (3 * t + 4 * s) \div 7 /\ CompareFingerprints(b, a) = (3 * t + 4 * s) \div 7
      BY <1>2, <1>3, <1>6, <2>3 DEF CompareFingerprints
    <3>2. PICK n, m : n = 3 * t + 4 * s /\ m = 3 * u + 3 * 1000 + 4 * v
      OBVIOUS
    <3>3. n \in Nat /\ m \in Nat /\ n <= 7000 /\ m <= 10000 /\ 10 * n <= 7 * m
      BY <1>4, <3>2 DEF Share
    <3>4. n \div 7 \in Share /\ n \div 7 <= m \div 10
      BY <3>3, MeanOfMore
    <3>5. QED
      BY <2>2, <3>1, <3>2, <3>4
  <2>4. CASE b.probs # NoProbs
    <3>1. /\ CompareFingerprints(a, b) = (3 * t + 3 * p + 4 * s) \div 10
          /\ CompareFingerprints(b, a) = (3 * t + 3 * p + 4 * s) \div 10
      BY <1>2, <1>3, <1>6, <2>1, <2>4 DEF CompareFingerprints
    <3>2. PICK n, m : n = 3 * t + 3 * p + 4 * s /\ m = 3 * u + 3 * 1000 + 4 * v
      OBVIOUS
    <3>3. n \in Nat /\ m \in Nat /\ m <= 1000 * 10 /\ n <= m
      BY <1>4, <3>2 DEF Share
    <3>4. n \div 10 \in Share /\ n \div 10 <= m \div 10
      BY <3>3, MeanIsShare
    <3>5. QED
      BY <2>2, <3>1, <3>2, <3>4
  <2>5. QED
    BY <2>3, <2>4
<1>7. QED
  BY <1>5, <1>6

LEMMA CollectedIs == \A d \in Collections : Collected[d] \in Fingerprint
<1> SUFFICES ASSUME NEW d \in Collections PROVE CollectLayers(d) \in Fingerprint
  BY DEF Collected
<1>1. /\ d.latency \in Nat /\ d.tokens \in Nat /\ d.first \in Nat /\ d.ollama \in BOOLEAN
      /\ d.probs \in Probs /\ d.semantic \in Semantic
  <2>1. d \in CollectionData
    BY FingerprintsAssumption DEF FingerprintsAssumption
  <2>2. QED
    BY <2>1 DEF CollectionData, Probs, Semantic
<1>2. CollectStatistical(d) \in Stat
  <2>1. CASE d.latency > 0 /\ d.tokens > 0
    <3>1. PICK n \in Nat, l \in Nat \ {0} : n = 1000 * d.tokens /\ l = d.latency
      BY <1>1, <2>1
    <3>2. n \div l \in Nat
      OBVIOUS
    <3>3. QED
      BY <1>1, <2>1, <3>1, <3>2 DEF CollectStatistical, Stat
  <2>2. CASE ~(d.latency > 0 /\ d.tokens > 0)
    BY <1>1, <2>2 DEF CollectStatistical, Stat
  <2>3. QED
    BY <2>1, <2>2
<1>3. PICK s \in Stat : s = CollectStatistical(d)
  BY <1>2
<1>4. QED
  BY <1>1, <1>3 DEF CollectLayers, Fingerprint

----------------------------------------------------------------------------
(* What is read.                                                           *)

Marks == {"", "cert"}
RowType ==
  [tenant : FpTenants, trace : FpTraces, fp : Fingerprint, hash : Fingerprint, cert : Marks, at : Nat]
ReadingType ==
  [op : {"none"}] \cup [op : {"compare"}, at : Nat, tenant : FpTenants, second : FpTraces]
  \cup [op : {"verify"}, at : Nat, tenant : FpTenants, trace : FpTraces]
  \cup [op : {"list"}, tenant : FpTenants, offset : Nat, total : Nat]

FpTypeOK ==
  /\ rows \in Seq(RowType) /\ fpClock \in Nat /\ reading \in ReadingType
  /\ \A i \in DOMAIN rows : rows[i].hash = rows[i].fp

(* What the first read saw is still there.                                 *)
FirstRead ==
  /\ reading.op \in {"compare", "verify"} =>
       reading.at \in DOMAIN rows /\ rows[reading.at].tenant = reading.tenant
  /\ reading.op = "verify" => rows[reading.at].trace = reading.trace
  /\ reading.op = "list" => reading.total <= RowCount(reading.tenant)

AnswerAddsUp ==
  /\ answered.op = "compare" =>
       /\ answered.at \in DOMAIN rows /\ answered.other \in DOMAIN rows
       /\ rows[answered.at].tenant = rows[answered.other].tenant
  /\ (answered.op = "verify" /\ ~answered.valid) =>
       /\ answered.at \in DOMAIN rows /\ answered.other \in DOMAIN rows
       /\ answered.other # answered.at
       /\ rows[answered.other].at >= rows[answered.at].at
  /\ answered.op = "list" => answered.page >= Lesser(PageLimit, answered.total - answered.offset)

FpInv == FpTypeOK /\ FirstRead /\ AnswerAddsUp

(* Rows are added, and keep all but their certificate.                     *)
Extends(after) ==
  /\ after \in Seq(RowType) /\ DOMAIN rows \subseteq DOMAIN after
  /\ \A i \in DOMAIN rows : /\ after[i].tenant = rows[i].tenant /\ after[i].trace = rows[i].trace
                            /\ after[i].at = rows[i].at
  /\ \A i \in DOMAIN after : after[i].hash = after[i].fp

LEMMA CertIsMark == "cert" \in Marks
BY Zenon DEF Marks

LEMMA SavedRow ==
  ASSUME FpTypeOK, NEW tenant \in FpTenants, NEW trace \in FpTraces, NEW fp \in Fingerprint,
         SaveFingerprint(tenant, trace, fp)
  PROVE  Extends(rows')
<1>0. PICK mark \in Marks :
        rows' = Append(rows, [tenant |-> tenant, trace |-> trace, fp |-> fp, hash |-> fp, cert |-> mark, at |-> fpClock])
  BY Zenon DEF Marks, SaveFingerprint
<1>1. PICK r :
        /\ r = [tenant |-> tenant, trace |-> trace, fp |-> fp, hash |-> fp, cert |-> mark, at |-> fpClock]
        /\ rows' = Append(rows, r)
  BY <1>0
<1>2. fpClock \in Nat
  BY DEF FpTypeOK
<1>3. r \in RowType
  BY <1>1, <1>2 DEF RowType
<1>4. r.hash = r.fp
  BY <1>1
<1>5. rows' = Append(rows, r)
  BY <1>1
<1>6. rows \in Seq(RowType) /\ \A i \in DOMAIN rows : rows[i].hash = rows[i].fp
  BY DEF FpTypeOK
<1>7. PICK after : after = Append(rows, r)
  OBVIOUS
<1>8. /\ after \in Seq(RowType) /\ DOMAIN after = DOMAIN rows \cup {Len(rows) + 1}
      /\ \A i \in DOMAIN rows : after[i] = rows[i]
      /\ after[Len(rows) + 1] = r
  BY <1>3, <1>6, <1>7
<1>9. \A i \in DOMAIN after : after[i].hash = after[i].fp
  BY <1>4, <1>6, <1>8
<1>10. QED
  BY <1>5, <1>7, <1>8, <1>9 DEF Extends

LEMMA CertifiedRows ==
  ASSUME FpTypeOK, NEW trace \in FpTraces, UpdateCertID(trace, "cert")
  PROVE  Extends(rows')
<1>1. PICK after : /\ after = rows'
                   /\ after = [i \in DOMAIN rows |-> IF rows[i].trace = trace THEN [rows[i] EXCEPT !.cert = "cert"] ELSE rows[i]]
  BY DEF UpdateCertID
<1>2. rows \in Seq(RowType) /\ \A i \in DOMAIN rows : rows[i].hash = rows[i].fp
  BY DEF FpTypeOK
<1>3. DOMAIN after = DOMAIN rows /\ DOMAIN rows = 1 .. Len(rows) /\ Len(rows) \in Nat
  BY <1>1, <1>2
<1>4. ASSUME NEW i \in DOMAIN rows
      PROVE  /\ after[i] \in RowType /\ after[i].tenant = rows[i].tenant /\ after[i].trace = rows[i].trace
             /\ after[i].at = rows[i].at /\ after[i].hash = after[i].fp
  <2>1. rows[i] \in RowType
    BY <1>2
  <2>2. CASE rows[i].trace = trace
    <3>1. after[i] = [rows[i] EXCEPT !.cert = "cert"]
      BY <1>1, <2>2
    <3>2. QED
      BY <1>2, <2>1, <3>1, CertIsMark DEF RowType
  <2>3. CASE rows[i].trace # trace
    BY <1>1, <1>2, <2>1, <2>3
  <2>4. QED
    BY <2>2, <2>3
<1>5. after \in Seq(RowType)
  <2>1. after \in [1 .. Len(rows) -> RowType]
    BY <1>1, <1>3, <1>4
  <2>2. QED
    BY <1>3, <2>1
<1>6. QED
  BY <1>1, <1>3, <1>4, <1>5 DEF Extends

LEMMA CountGrows ==
  ASSUME FpTypeOK, Extends(rows'), NEW tenant \in FpTenants
  PROVE  /\ RowCount(tenant) \in Nat /\ RowCount(tenant)' \in Nat
         /\ RowCount(tenant) <= RowCount(tenant)'
<1>1. PICK s, t : s = OfTenant(tenant) /\ t = OfTenant(tenant)'
  OBVIOUS
<1>2. s \subseteq t
  BY <1>1 DEF Extends, OfTenant
<1>3. IsFiniteSet(t)
  <2>1. PICK after : after = rows'
    OBVIOUS
  <2>2. after \in Seq(RowType)
    BY <2>1 DEF Extends
  <2>3. DOMAIN after = 1 .. Len(after) /\ Len(after) \in Nat
    BY <2>2
  <2>4. IsFiniteSet(DOMAIN after)
    BY <2>3, FS_Interval
  <2>5. t \subseteq DOMAIN after
    BY <1>1, <2>1 DEF OfTenant
  <2>6. QED
    BY <2>4, <2>5, FS_Subset
<1>4. IsFiniteSet(s) /\ Cardinality(s) <= Cardinality(t)
  BY <1>2, <1>3, FS_Subset
<1>5. Cardinality(s) \in Nat /\ Cardinality(t) \in Nat
  BY <1>3, <1>4, FS_CardinalityType
<1>6. QED
  BY <1>1, <1>4, <1>5 DEF RowCount

LEMMA CountIs ==
  ASSUME FpTypeOK, NEW tenant \in FpTenants
  PROVE  RowCount(tenant) \in Nat
<1>1. DOMAIN rows = 1 .. Len(rows) /\ Len(rows) \in Nat
  BY DEF FpTypeOK
<1>2. IsFiniteSet(DOMAIN rows) /\ OfTenant(tenant) \subseteq DOMAIN rows
  BY <1>1, FS_Interval DEF OfTenant
<1>3. QED
  BY <1>2, FS_Subset, FS_CardinalityType DEF RowCount

(* A step that adds or certifies rows.                                     *)
LEMMA FpRowsChange ==
  ASSUME FpInv, Extends(rows'), UNCHANGED <<fpClock, reading, answered>>
  PROVE  FpInv'
<1>1. FpTypeOK /\ FirstRead /\ AnswerAddsUp
  BY DEF FpInv
<1>2. FpTypeOK'
  BY <1>1 DEF FpTypeOK, Extends
<1>3. FirstRead'
  <2>1. reading.op \in {"compare", "verify"} => reading.at \in DOMAIN rows' /\ rows'[reading.at].tenant = reading.tenant
    BY <1>1 DEF FirstRead, Extends
  <2>2. reading.op = "verify" => rows'[reading.at].trace = reading.trace
    BY <1>1 DEF FirstRead, Extends
  <2>3. ASSUME reading.op = "list" PROVE reading.total <= RowCount(reading.tenant)'
    <3>1. reading.tenant \in FpTenants /\ reading.total \in Nat
      BY <1>1, <2>3 DEF FpTypeOK, ReadingType
    <3>2. PICK tenant \in FpTenants : tenant = reading.tenant
      BY <3>1
    <3>3. /\ RowCount(tenant) \in Nat /\ RowCount(tenant)' \in Nat
          /\ RowCount(tenant) <= RowCount(tenant)'
      BY <1>1, CountGrows
    <3>4. reading.total <= RowCount(tenant)
      BY <1>1, <2>3, <3>2 DEF FirstRead
    <3>5. reading.total <= RowCount(tenant)'
      BY <3>1, <3>3, <3>4
    <3>6. QED
      BY <3>2, <3>5 DEF RowCount, OfTenant
  <2>4. QED
    BY <2>1, <2>2, <2>3 DEF FirstRead, RowCount, OfTenant
<1>4. AnswerAddsUp'
  BY <1>1 DEF AnswerAddsUp, Extends
<1>5. QED
  BY <1>2, <1>3, <1>4 DEF FpInv

(* A first read: the request is what was read.                             *)
LEMMA FpBegins ==
  ASSUME FpInv, NEW request \in ReadingType, Begin(request),
         request.op \in {"compare", "verify"} =>
           request.at \in DOMAIN rows /\ rows[request.at].tenant = request.tenant,
         request.op = "verify" => rows[request.at].trace = request.trace,
         request.op = "list" => request.total <= RowCount(request.tenant)
  PROVE  FpInv'
<1>1. reading' = request /\ UNCHANGED <<rows, fpClock, answered>>
  BY DEF Begin
<1>2. FpTypeOK' /\ AnswerAddsUp'
  BY <1>1 DEF FpInv, FpTypeOK, AnswerAddsUp
<1>3. FirstRead'
  BY <1>1 DEF FirstRead, RowCount, OfTenant
<1>4. QED
  BY <1>2, <1>3 DEF FpInv

(* An answer that adds up.                                                 *)
LEMMA FpFinishes ==
  ASSUME FpInv, NEW answer, Finish(answer),
         \/ answer.op = "none"
         \/ /\ answer.op = "compare" /\ answer.at \in DOMAIN rows /\ answer.other \in DOMAIN rows
            /\ rows[answer.at].tenant = rows[answer.other].tenant
         \/ /\ answer.op = "verify"
            /\ ~answer.valid =>
                 /\ answer.at \in DOMAIN rows /\ answer.other \in DOMAIN rows
                 /\ answer.other # answer.at
                 /\ rows[answer.other].at >= rows[answer.at].at
         \/ /\ answer.op = "list"
            /\ answer.page >= Lesser(PageLimit, answer.total - answer.offset)
  PROVE  FpInv'
<1>1. answered' = answer /\ reading' = Nothing /\ UNCHANGED <<rows, fpClock>>
  BY DEF Finish
<1>2. FpTypeOK'
  BY <1>1 DEF FpInv, FpTypeOK, ReadingType, Nothing
<1>3. FirstRead'
  BY <1>1 DEF FirstRead, Nothing
<1>4. AnswerAddsUp'
  BY <1>1 DEF AnswerAddsUp
<1>5. QED
  BY <1>2, <1>3, <1>4 DEF FpInv

LEMMA FpCompares ==
  ASSUME FpInv, EndCompare
  PROVE  FpInv'
<1>1. reading.op = "compare" /\ FpTypeOK /\ FirstRead
  BY DEF EndCompare, FpInv
<1>2. CASE Finish(Nothing)
  BY <1>2, FpFinishes DEF Nothing
<1>3. CASE \E j \in GetByTraceID(reading.tenant, reading.second) : Finish(Comparison(reading.at, j))
  <2>1. PICK j \in GetByTraceID(reading.tenant, reading.second) : Finish(Comparison(reading.at, j))
    BY <1>3
  <2>2. j \in DOMAIN rows /\ rows[j].tenant = reading.tenant
    BY DEF GetByTraceID, OfTenant
  <2>3. reading.at \in DOMAIN rows /\ rows[reading.at].tenant = reading.tenant
    BY <1>1 DEF FirstRead
  <2>4. PICK answer : answer = Comparison(reading.at, j)
    OBVIOUS
  <2>5. answer.op = "compare" /\ answer.at = reading.at /\ answer.other = j
    BY <2>4 DEF Comparison
  <2>6. Finish(answer)
    BY <2>1, <2>4
  <2>7. QED
    BY <2>2, <2>3, <2>5, <2>6, FpFinishes
<1>4. QED
  BY <1>2, <1>3 DEF EndCompare

LEMMA FpVerifies ==
  ASSUME FpInv, VerifyFingerprint
  PROVE  FpInv'
<1>1. reading.op = "verify" /\ FpTypeOK /\ FirstRead
  BY DEF VerifyFingerprint, FpInv
<1>2. PICK j \in GetByTraceID(reading.tenant, reading.trace), expected \in {NoHash, rows[reading.at].hash} :
        Finish([op |-> "verify", at |-> reading.at, other |-> j, valid |-> Verify(j, expected)])
  BY DEF VerifyFingerprint
<1>3. PICK i \in DOMAIN rows : i = reading.at /\ rows[i].tenant = reading.tenant /\ rows[i].trace = reading.trace
  BY <1>1 DEF FirstRead
<1>4. j \in DOMAIN rows /\ rows[j].at >= rows[i].at
  <2>1. rows[i].at <= rows[j].at /\ j \in DOMAIN rows
    BY <1>3 DEF GetByTraceID, OfTenant
  <2>2. rows[i].at \in Nat /\ rows[j].at \in Nat
    <3>1. rows[i] \in RowType /\ rows[j] \in RowType
      BY <1>1, <2>1 DEF FpTypeOK
    <3>2. QED
      BY <3>1 DEF RowType
  <2>3. QED
    BY <2>1, <2>2
<1>5. ~Verify(j, expected) => j # i
  BY <1>1, <1>2, <1>3, <1>4 DEF Verify, FpTypeOK
<1>6. PICK answer : answer = [op |-> "verify", at |-> reading.at, other |-> j, valid |-> Verify(j, expected)]
  OBVIOUS
<1>7. answer.op = "verify" /\ answer.at = i /\ answer.other = j
  BY <1>3, <1>6
<1>8. answer.valid = Verify(j, expected)
  BY <1>6, Zenon
<1>9. ~answer.valid => j # i
  BY <1>5, <1>8
<1>10. Finish(answer)
  BY <1>2, <1>6, Zenon
<1>11. QED
  BY <1>3, <1>4, <1>7, <1>9, <1>10, FpFinishes

LEMMA FpLists ==
  ASSUME FpInv, ListPage
  PROVE  FpInv'
<1>1. reading.op = "list" /\ FpTypeOK /\ FirstRead
  BY DEF ListPage, FpInv
<1>2. PICK tenant \in FpTenants, offset \in Nat, total \in Nat :
        tenant = reading.tenant /\ offset = reading.offset /\ total = reading.total
  BY <1>1 DEF FpTypeOK, ReadingType
<1>3. PICK n \in Nat : n = RowCount(tenant)
  BY <1>1, CountIs
<1>4. total <= n
  BY <1>1, <1>2, <1>3 DEF FirstRead
<1>5. PICK answer : answer = [op |-> "list", offset |-> offset, total |-> total,
                              page |-> Greater(0, Lesser(PageLimit, n - offset))]
  OBVIOUS
<1>6. Finish(answer)
  BY <1>2, <1>3, <1>5 DEF ListPage, RowCount
<1>7. PageLimit \in Nat
  BY FingerprintsAssumption DEF FingerprintsAssumption
<1>8. Greater(0, Lesser(PageLimit, n - offset)) >= Lesser(PageLimit, total - offset)
  BY <1>4, <1>7 DEF Greater, Lesser
<1>9. QED
  BY <1>5, <1>6, <1>8, FpFinishes

LEMMA FpInvHolds == FpSpec => []FpInv
<1>1. FpInit => FpInv
  <2> SUFFICES ASSUME FpInit PROVE FpInv
    OBVIOUS
  <2>1. rows = << >> /\ fpClock = 1 /\ reading = [op |-> "none"] /\ answered = [op |-> "none"]
    BY DEF FpInit, Nothing
  <2>2. FpTypeOK
    BY <2>1 DEF FpTypeOK, ReadingType
  <2>3. QED
    BY <2>1, <2>2 DEF FpInv, FirstRead, AnswerAddsUp
<1>2. ASSUME FpInv, [FpNext]_fpVars PROVE FpInv'
  <2>1. FpTypeOK /\ FirstRead /\ AnswerAddsUp
    BY <1>2 DEF FpInv
  <2>2. CASE ClockTick
    <3>1. fpClock' = fpClock + 1 /\ UNCHANGED <<rows, reading, answered>>
      BY <2>2 DEF ClockTick
    <3>2. QED
      BY <2>1, <3>1 DEF FpInv, FpTypeOK, FirstRead, AnswerAddsUp, RowCount, OfTenant
  <2>3. ASSUME NEW tenant \in FpTenants, NEW trace \in FpTraces, NEW d \in Collections,
               SaveFingerprint(tenant, trace, Collected[d])
        PROVE  FpInv'
    <3>1. Extends(rows')
      BY <2>1, <2>3, SavedRow, CollectedIs
    <3>2. UNCHANGED <<fpClock, reading, answered>>
      BY <2>3, Zenon DEF SaveFingerprint
    <3>3. QED
      BY <1>2, <3>1, <3>2, FpRowsChange
  <2>4. ASSUME NEW trace \in FpTraces, UpdateCertID(trace, "cert") PROVE FpInv'
    <3>1. UNCHANGED <<fpClock, reading, answered>>
      BY <2>4 DEF UpdateCertID
    <3>2. QED
      BY <1>2, <2>1, <2>4, <3>1, CertifiedRows, FpRowsChange
  <2>5. ASSUME NEW tenant \in FpTenants, NEW t1 \in FpTraces, NEW t2 \in FpTraces, BeginCompare(tenant, t1, t2)
        PROVE  FpInv'
    <3>1. PICK i \in GetByTraceID(tenant, t1) : Begin([op |-> "compare", at |-> i, tenant |-> tenant, second |-> t2])
      BY <2>5 DEF BeginCompare
    <3>2. i \in DOMAIN rows /\ rows[i].tenant = tenant /\ i \in Nat
      BY <2>1 DEF GetByTraceID, OfTenant, FpTypeOK
    <3>3. PICK request : request = [op |-> "compare", at |-> i, tenant |-> tenant, second |-> t2]
      OBVIOUS
    <3>4. request \in ReadingType /\ Begin(request)
      BY <3>1, <3>2, <3>3 DEF ReadingType
    <3>5. QED
      BY <1>2, <3>2, <3>3, <3>4, FpBegins
  <2>6. ASSUME NEW tenant \in FpTenants, NEW trace \in FpTraces, GetFingerprint(tenant, trace) PROVE FpInv'
    <3>1. PICK i \in GetByTraceID(tenant, trace) : Begin([op |-> "verify", at |-> i, tenant |-> tenant, trace |-> trace])
      BY <2>6 DEF GetFingerprint
    <3>2. i \in DOMAIN rows /\ rows[i].tenant = tenant /\ rows[i].trace = trace /\ i \in Nat
      BY <2>1 DEF GetByTraceID, OfTenant, FpTypeOK
    <3>3. PICK request : request = [op |-> "verify", at |-> i, tenant |-> tenant, trace |-> trace]
      OBVIOUS
    <3>4. request \in ReadingType /\ Begin(request)
      BY <3>1, <3>2, <3>3 DEF ReadingType
    <3>5. QED
      BY <1>2, <3>2, <3>3, <3>4, FpBegins
  <2>7. ASSUME NEW tenant \in FpTenants, NEW offset \in {0, PageLimit}, ListCount(tenant, offset) PROVE FpInv'
    <3>1. PICK n \in Nat : n = RowCount(tenant)
      BY <2>1, CountIs
    <3>2. PICK request : request = [op |-> "list", tenant |-> tenant, offset |-> offset, total |-> n]
      OBVIOUS
    <3>3. offset \in Nat
      BY FingerprintsAssumption DEF FingerprintsAssumption
    <3>4. request \in ReadingType /\ Begin(request)
      BY <2>7, <3>1, <3>2, <3>3 DEF ListCount, ReadingType
    <3>5. QED
      BY <1>2, <3>1, <3>2, <3>4, FpBegins
  <2>8. CASE UNCHANGED fpVars
    BY <2>1, <2>8 DEF fpVars, FpInv, FpTypeOK, FirstRead, AnswerAddsUp, RowCount, OfTenant
  <2>9. QED
    BY <1>2, <2>2, <2>3, <2>4, <2>5, <2>6, <2>7, <2>8, FpCompares, FpVerifies, FpLists DEF FpNext
<1>3. QED
  BY <1>1, <1>2, PTL DEF FpSpec

(* For any collections, whatever they hold, tenants, traces and clock: a   *)
(* similarity is in 0..1000, the same from both sides and of no other      *)
(* fingerprint greater than of a row's own (collector.go:231); a comparison*)
(* is of two rows of one tenant (fingerprints.go:256); a hash that was     *)
(* shown is refuted only where the trace has another row, no older         *)
(* (fingerprints.go:325); and a page is no shorter than the total given    *)
(* with it promises (fingerprints.go:205), whatever is saved or attached   *)
(* between the two reads.                                                  *)
THEOREM FingerprintsAlwaysAddUp == FpSpec => []FingerprintsAddUp
<1>1. ASSUME FpInv PROVE FingerprintsAddUp
  <2>1. SimilarityIsSound
    <3> SUFFICES ASSUME NEW i \in DOMAIN rows, NEW j \in DOMAIN rows
                 PROVE  /\ CompareFingerprints(rows[i].fp, rows[j].fp) = CompareFingerprints(rows[j].fp, rows[i].fp)
                        /\ CompareFingerprints(rows[i].fp, rows[j].fp) \in 0 .. 1000
                        /\ CompareFingerprints(rows[i].fp, rows[j].fp) <= CompareFingerprints(rows[i].fp, rows[i].fp)
      BY DEF SimilarityIsSound
    <3>1. rows[i].fp \in Fingerprint /\ rows[j].fp \in Fingerprint
      <4>1. rows[i] \in RowType /\ rows[j] \in RowType
        BY <1>1 DEF FpInv, FpTypeOK
      <4>2. QED
        BY <4>1 DEF RowType
    <3>2. QED
      BY <3>1, SimilarityIs DEF Share
  <2>2. ReadsAddUp
    BY <1>1 DEF FpInv, AnswerAddsUp, ReadsAddUp
  <2>3. QED
    BY <2>1, <2>2 DEF FingerprintsAddUp
<1>2. QED
  BY <1>1, FpInvHolds, PTL

----------------------------------------------------------------------------
(***************************************************************************)
(* ProviderRegistry, for any sequence of registrations.                    *)
(*                                                                         *)
(* The list is in order before a registration; one pass of the sort takes  *)
(* the provider at its end to the place where it belongs                   *)
(* (SortPassInserts), after those of the same priority.                    *)
(***************************************************************************)

Rank(name, n) == Priority[name[n]]

LEMMA RanksAreNumbers ==
  ASSUME NEW D, NEW name \in [D -> ProviderNames], NEW n \in D
  PROVE  Rank(name, n) \in Nat
<1>1. name[n] \in ProviderNames
  OBVIOUS
<1>2. QED
  BY <1>1 DEF Rank, Priority, ProviderNames

----------------------------------------------------------------------------
(* The pass, one comparison at a time.                                     *)

Compared(l, i, name) == IF Rank(name, l[i]) < Rank(name, l[i - 1]) THEN Swapped(l, i) ELSE l

IsPass(pass, old, name) ==
  pass = [i \in 1 .. Len(old) |->
            IF i = Len(old) THEN old ELSE Compared(pass[i + 1], i + 1, name)]

Lists(N) == [1 .. N -> 1 .. N]

LEMMA ComparedIsList ==
  ASSUME NEW N \in Nat, NEW l \in Lists(N), NEW i \in 2 .. N, NEW name
  PROVE  Compared(l, i, name) \in Lists(N)
<1>1. i - 1 \in 1 .. N /\ l \in [1 .. N -> 1 .. N]
  BY DEF Lists
<1>2. l[i] \in 1 .. N /\ l[i - 1] \in 1 .. N
  BY <1>1
<1>3. [l EXCEPT ![i] = l[i - 1]] \in [1 .. N -> 1 .. N]
  BY <1>1, <1>2
<1>4. Swapped(l, i) \in [1 .. N -> 1 .. N]
  BY <1>1, <1>2, <1>3 DEF Swapped
<1>5. QED
  BY <1>1, <1>4 DEF Compared, Lists

LEMMA PassExists ==
  ASSUME NEW N \in Nat \ {0}, NEW old \in Lists(N), NEW name
  PROVE  /\ Len(old) = N
         /\ \E pass : IsPass(pass, old, name)
<1>1. Len(old) = N
  BY DEF Lists
<1> DEFINE step == [n \in Nat |-> [l \in Lists(N) |-> IF n + 1 < N THEN Compared(l, N - n, name) ELSE l]]
<1>2. step \in Steps(Lists(N))
  <2>1. ASSUME NEW n \in Nat, NEW l \in Lists(N)
        PROVE  (IF n + 1 < N THEN Compared(l, N - n, name) ELSE l) \in Lists(N)
    <3>1. CASE n + 1 < N
      <4>1. N - n \in 2 .. N
        BY <3>1
      <4>2. QED
        BY <3>1, <4>1, ComparedIsList
    <3>2. QED
      BY <3>1
  <2>2. QED
    BY <2>1 DEF Steps
<1>3. PICK f \in [Nat -> Lists(N)] : f[0] = old /\ \A n \in Nat : f[n + 1] = step[n][f[n]]
  <2> HIDE DEF step
  <2>1. \E f \in [Nat -> Lists(N)] : Iterates(f, old, step)
    BY <1>2, Iterated
  <2>2. QED
    BY <2>1 DEF Iterates
<1>4. \A n \in Nat : n + 1 < N => f[n + 1] = Compared(f[n], N - n, name)
  BY <1>3
<1> DEFINE pass == [i \in 1 .. N |-> f[N - i]]
<1>5. ASSUME NEW i \in 1 .. N
      PROVE  pass[i] = IF i = N THEN old ELSE Compared(pass[i + 1], i + 1, name)
  <2>1. CASE i = N
    BY <1>3, <2>1
  <2>2. CASE i # N
    <3>1. PICK n \in Nat : n = N - (i + 1)
      BY <2>2
    <3>2. n + 1 < N /\ n + 1 = N - i /\ N - n = i + 1 /\ i + 1 \in 1 .. N
      BY <2>2, <3>1
    <3>3. f[n + 1] = Compared(f[n], i + 1, name)
      BY <1>4, <3>2
    <3>4. pass[i] = f[n + 1] /\ pass[i + 1] = f[n]
      BY <3>1, <3>2
    <3>5. QED
      BY <2>2, <3>3, <3>4
  <2>3. QED
    BY <2>1, <2>2
<1>6. IsPass(pass, old, name)
  BY <1>1, <1>5 DEF IsPass
<1>7. QED
  BY <1>1, <1>6

LEMMA SortPassIs ==
  ASSUME NEW N \in Nat \ {0}, NEW old \in Lists(N), NEW name
  PROVE  \E pass : IsPass(pass, old, name) /\ SortPass(old, name) = pass[1]
<1>1. SortPass(old, name) = (CHOOSE pass : IsPass(pass, old, name))[1]
  BY Zenon DEF SortPass, IsPass, Compared, Rank
<1>2. IsPass((CHOOSE pass : IsPass(pass, old, name)), old, name)
  <2>1. \E pass : IsPass(pass, old, name)
    BY PassExists
  <2>2. QED
    BY <2>1, Zenon
<1>3. QED
  BY <1>1, <1>2

----------------------------------------------------------------------------
(* The pass inserts the last entry where it belongs.                       *)

Inserted(old, N, k) ==
  [j \in 1 .. N |-> IF j < k THEN old[j] ELSE IF j = k THEN old[N] ELSE old[j - 1]]

Belongs(old, N, k, name) ==
  /\ \A j \in k .. N - 1 : Rank(name, old[N]) < Rank(name, old[j])
  /\ \A j \in 1 .. k - 1 : Rank(name, old[j]) <= Rank(name, old[N])

(* It has come down to place i, or stays where it is.                      *)
Reached(l, i, old, N, name) ==
  \E k \in i .. N :
    /\ l = Inserted(old, N, k)
    /\ \A j \in k .. N - 1 : Rank(name, old[N]) < Rank(name, old[j])
    /\ k > i => Rank(name, old[k - 1]) <= Rank(name, old[N])

LEMMA Advances ==
  ASSUME NEW N \in Nat \ {0}, NEW old \in Lists(N), NEW name \in [1 .. N -> ProviderNames],
         \A i, j \in 1 .. N - 1 : i < j => Rank(name, old[i]) <= Rank(name, old[j]),
         NEW i \in 2 .. N, NEW l, Reached(l, i, old, N, name)
  PROVE  Reached(Compared(l, i, name), i - 1, old, N, name)
<1> DEFINE R(n) == Rank(name, n)
<1>0. \A j \in 1 .. N : old[j] \in 1 .. N /\ R(old[j]) \in Nat
  <2>1. \A n \in 1 .. N : R(n) \in Nat
    BY RanksAreNumbers
  <2>2. QED
    BY <2>1 DEF Lists
<1>1. PICK k \in i .. N :
        /\ l = Inserted(old, N, k)
        /\ \A j \in k .. N - 1 : R(old[N]) < R(old[j])
        /\ k > i => R(old[k - 1]) <= R(old[N])
  BY DEF Reached
<1>2. l[i - 1] = old[i - 1]
  BY <1>1 DEF Inserted
<1>3. CASE k = i
  <2>1. l[i] = old[N]
    BY <1>1, <1>3 DEF Inserted
  <2>2. CASE R(old[N]) < R(old[i - 1])
    <3>1. Compared(l, i, name) = Swapped(l, i)
      BY <1>2, <2>1, <2>2 DEF Compared
    <3>2. Swapped(l, i) = Inserted(old, N, i - 1)
      <4>1. DOMAIN l = 1 .. N /\ DOMAIN Swapped(l, i) = 1 .. N /\ DOMAIN Inserted(old, N, i - 1) = 1 .. N
        BY <1>1 DEF Swapped, Inserted
      <4>2. ASSUME NEW j \in 1 .. N PROVE Swapped(l, i)[j] = Inserted(old, N, i - 1)[j]
        <5>1. l[j] = IF j < i THEN old[j] ELSE IF j = i THEN old[N] ELSE old[j - 1]
          BY <1>1, <1>3 DEF Inserted
        <5>2. Swapped(l, i)[j] = IF j = i - 1 THEN old[N] ELSE IF j = i THEN old[i - 1] ELSE l[j]
          BY <1>2, <2>1, <4>1 DEF Swapped
        <5>3. Inserted(old, N, i - 1)[j] =
                IF j < i - 1 THEN old[j] ELSE IF j = i - 1 THEN old[N] ELSE old[j - 1]
          BY DEF Inserted
        <5>4. QED
          BY <5>1, <5>2, <5>3
      <4>3. Swapped(l, i) = [j \in 1 .. N |-> Swapped(l, i)[j]]
        BY <4>1 DEF Swapped
      <4>4. QED
        BY <4>2, <4>3 DEF Inserted
    <3>3. \A j \in i - 1 .. N - 1 : R(old[N]) < R(old[j])
      BY <1>1, <1>3, <2>2
    <3>4. QED
      BY <3>1, <3>2, <3>3 DEF Reached
  <2>3. CASE ~(R(old[N]) < R(old[i - 1]))
    <3>1. Compared(l, i, name) = l
      BY <1>2, <2>1, <2>3 DEF Compared
    <3>2. R(old[i - 1]) <= R(old[N])
      BY <1>0, <2>3
    <3>3. QED
      BY <1>1, <1>3, <3>1, <3>2 DEF Reached
  <2>4. QED
    BY <2>2, <2>3
<1>4. CASE k > i
  <2>1. l[i] = old[i] /\ i \in 1 .. N - 1 /\ i - 1 \in 1 .. N - 1
    BY <1>1, <1>4 DEF Inserted
  <2>2. R(old[i - 1]) <= R(old[i])
    BY <2>1
  <2>3. Compared(l, i, name) = l
    BY <1>0, <1>2, <2>1, <2>2 DEF Compared
  <2>4. QED
    BY <1>1, <1>4, <2>3 DEF Reached
<1>5. QED
  BY <1>3, <1>4

LEMMA SortPassInserts ==
  ASSUME NEW N \in Nat \ {0}, NEW old \in Lists(N), NEW name \in [1 .. N -> ProviderNames],
         \A i, j \in 1 .. N - 1 : i < j => Rank(name, old[i]) <= Rank(name, old[j])
  PROVE  \E k \in 1 .. N : SortPass(old, name) = Inserted(old, N, k) /\ Belongs(old, N, k, name)
<1>1. PICK pass : IsPass(pass, old, name) /\ SortPass(old, name) = pass[1]
  BY SortPassIs
<1>2. \A i \in 1 .. N : pass[i] = IF i = N THEN old ELSE Compared(pass[i + 1], i + 1, name)
  <2>1. Len(old) = N
    BY PassExists
  <2>2. QED
    BY <1>1, <2>1 DEF IsPass
<1> DEFINE T == {n \in Nat : n < N => Reached(pass[N - n], N - n, old, N, name)}
<1>3. 0 \in T
  <2>1. pass[N] = Inserted(old, N, N)
    <3>1. old = [j \in 1 .. N |-> old[j]] /\ pass[N] = old
      BY <1>2 DEF Lists
    <3>2. QED
      BY <3>1 DEF Inserted
  <2>2. Reached(pass[N], N, old, N, name)
    BY <2>1 DEF Reached
  <2>3. QED
    BY <2>2
<1>4. ASSUME NEW n \in Nat, n \in T PROVE n + 1 \in T
  <2> SUFFICES ASSUME n + 1 < N PROVE Reached(pass[N - (n + 1)], N - (n + 1), old, N, name)
    OBVIOUS
  <2>1. PICK i \in 2 .. N : i = N - n
    OBVIOUS
  <2>2. Reached(pass[i], i, old, N, name) /\ N - (n + 1) = i - 1 /\ i - 1 \in 1 .. N /\ i - 1 # N
    BY <1>4, <2>1
  <2>3. pass[i - 1] = Compared(pass[i], i, name)
    BY <1>2, <2>2
  <2>4. Reached(Compared(pass[i], i, name), i - 1, old, N, name)
    BY <2>2, Advances
  <2>5. QED
    BY <2>2, <2>3, <2>4
<1>5. Reached(pass[1], 1, old, N, name)
  <2>1. N - 1 \in T
    <3> HIDE DEF T
    <3> QED
      BY <1>3, <1>4, NatAll
  <2>2. QED
    BY <2>1
<1>6. PICK k \in 1 .. N :
        /\ pass[1] = Inserted(old, N, k)
        /\ \A j \in k .. N - 1 : Rank(name, old[N]) < Rank(name, old[j])
        /\ k > 1 => Rank(name, old[k - 1]) <= Rank(name, old[N])
  BY <1>5 DEF Reached
<1>7. \A j \in 1 .. k - 1 : Rank(name, old[j]) <= Rank(name, old[N])
  <2> SUFFICES ASSUME NEW j \in 1 .. k - 1 PROVE Rank(name, old[j]) <= Rank(name, old[N])
    OBVIOUS
  <2>1. \A n \in 1 .. N : Rank(name, n) \in Nat
    BY RanksAreNumbers
  <2>2. old[j] \in 1 .. N /\ old[k - 1] \in 1 .. N /\ old[N] \in 1 .. N
    BY DEF Lists
  <2>3. j = k - 1 \/ Rank(name, old[j]) <= Rank(name, old[k - 1])
    OBVIOUS
  <2>4. PICK x, y, z \in Nat : x = Rank(name, old[j]) /\ y = Rank(name, old[k - 1]) /\ z = Rank(name, old[N])
    BY <2>1, <2>2
  <2>5. x <= y /\ y <= z
    BY <1>6, <2>3, <2>4
  <2>6. QED
    BY <2>4, <2>5
<1>8. QED
  BY <1>1, <1>6, <1>7 DEF Belongs

----------------------------------------------------------------------------
(* The inductive invariant: each registration is listed once, in order.    *)
Registrations == 1 .. Len(registered)

RegistryInv ==
  /\ registered \in Seq(ProviderNames)
  /\ providers \in [Registrations -> Registrations]
  /\ \A i, j \in Registrations : i < j => Before(providers[i], providers[j])
  /\ \A n \in Registrations : \E i \in Registrations : providers[i] = n

LEMMA BeforeOrders ==
  ASSUME registered \in Seq(ProviderNames)
  PROVE  /\ \A n \in Registrations : Priority[registered[n]] \in Nat
         /\ \A m, n \in Registrations : m = n \/ Before(m, n) \/ Before(n, m)
         /\ \A m, n \in Registrations : ~(Before(m, n) /\ Before(n, m))
<1>1. \A n \in Registrations : Priority[registered[n]] \in Nat
  BY DEF Registrations, Priority, ProviderNames
<1>2. Registrations \subseteq Nat
  BY DEF Registrations
<1>3. ASSUME NEW m \in Registrations, NEW n \in Registrations
      PROVE  (m = n \/ Before(m, n) \/ Before(n, m)) /\ ~(Before(m, n) /\ Before(n, m))
  <2>1. PICK x \in Nat, y \in Nat : x = Priority[registered[m]] /\ y = Priority[registered[n]]
    BY <1>1
  <2>2. m \in Nat /\ n \in Nat
    BY <1>2
  <2>3. QED
    BY <2>1, <2>2 DEF Before
<1>4. QED
  BY <1>1, <1>3

LEMMA RegistryInvInit == RegistryInit => RegistryInv
<1> SUFFICES ASSUME RegistryInit PROVE RegistryInv
  OBVIOUS
<1>1. CASE registered = << >>
  BY <1>1 DEF RegistryInit, RegistryInv, Registrations
<1>2. CASE registered = DefaultRegistry
  <2>1. /\ registered = <<"anthropic", "ollama", "deepseek", "openai">> /\ Len(registered) = 4
        /\ registered \in Seq(ProviderNames) /\ Registrations = 1 .. 4 /\ DOMAIN registered = 1 .. 4
    BY <1>2 DEF DefaultRegistry, ProviderNames, Registrations
  <2>2. providers = [i \in Registrations |-> i]
    BY <2>1 DEF RegistryInit
  <2>3. \A i, j \in Registrations : i < j => Priority[registered[i]] < Priority[registered[j]]
    <3>1. /\ Priority[registered[1]] = 10 /\ Priority[registered[2]] = 15
          /\ Priority[registered[3]] = 20 /\ Priority[registered[4]] = 100
      BY <2>1 DEF Priority
    <3>2. \A i \in Registrations : i = 1 \/ i = 2 \/ i = 3 \/ i = 4
      BY <2>1
    <3>3. QED
      BY <3>1, <3>2
  <2>4. QED
    BY <2>1, <2>2, <2>3 DEF RegistryInv, Before
<1>3. QED
  BY <1>1, <1>2 DEF RegistryInit

LEMMA RegisterKeeps ==
  ASSUME RegistryInv, NEW p \in ProviderNames, Register(p)
  PROVE  RegistryInv'
<1>1. PICK N \in Nat \ {0} : N = Len(registered) + 1
  BY DEF RegistryInv
<1>2. PICK old : old = Append(providers, N)
  OBVIOUS
<1>3. PICK name : name = registered'
  OBVIOUS
<1>4. /\ registered \in Seq(ProviderNames) /\ Registrations = 1 .. N - 1 /\ Len(registered) = N - 1
      /\ providers \in [1 .. N - 1 -> 1 .. N - 1]
      /\ \A i, j \in 1 .. N - 1 : i < j => Before(providers[i], providers[j])
      /\ \A n \in 1 .. N - 1 : \E i \in 1 .. N - 1 : providers[i] = n
  BY <1>1 DEF RegistryInv, Registrations
<1>5. /\ name = Append(registered, p) /\ name \in Seq(ProviderNames) /\ Len(name) = N
      /\ name \in [1 .. N -> ProviderNames] /\ \A n \in 1 .. N - 1 : name[n] = registered[n]
  <2>1. name = Append(registered, p)
    BY <1>3 DEF Register
  <2>2. name \in Seq(ProviderNames) /\ Len(name) = N /\ \A n \in 1 .. N - 1 : name[n] = registered[n]
    BY <1>1, <1>4, <2>1
  <2>3. name \in [1 .. N -> ProviderNames]
    BY <2>2
  <2>4. QED
    BY <2>1, <2>2, <2>3
<1>6. /\ old \in Lists(N) /\ old[N] = N
      /\ \A i \in 1 .. N - 1 : old[i] = providers[i] /\ old[i] \in 1 .. N - 1
  <2>1. providers \in Seq(1 .. N) /\ Len(providers) = N - 1
    <3>1. N - 1 \in Nat /\ providers \in [1 .. N - 1 -> 1 .. N]
      <4>1. N - 1 \in Nat /\ 1 .. N - 1 \subseteq 1 .. N
        OBVIOUS
      <4>2. providers \in [1 .. N - 1 -> 1 .. N - 1]
        BY <1>4
      <4>3. QED
        BY <4>1, <4>2
    <3>2. QED
      BY <3>1
  <2>2. old \in Seq(1 .. N) /\ Len(old) = N
    BY <1>2, <2>1
  <2>3. old \in Lists(N)
    BY <2>2 DEF Lists
  <2>4. old[N] = N /\ \A i \in 1 .. N - 1 : old[i] = providers[i]
    BY <1>2, <2>1
  <2>5. QED
    BY <1>4, <2>3, <2>4
<1>7. providers' = SortPass(old, name)
  BY <1>1, <1>2, <1>3, <1>5 DEF Register
<1>8. \A n \in 1 .. N : Rank(name, n) \in Nat
  BY <1>5, RanksAreNumbers
<1>9. \A m, n \in 1 .. N - 1 : Before(m, n) <=>
        Rank(name, m) < Rank(name, n) \/ (Rank(name, m) = Rank(name, n) /\ m < n)
  BY <1>5 DEF Before, Rank
<1>10. \A m, n \in 1 .. N : Before(m, n)' <=>
        Rank(name, m) < Rank(name, n) \/ (Rank(name, m) = Rank(name, n) /\ m < n)
  BY <1>3 DEF Before, Rank
<1>11. \A i, j \in 1 .. N - 1 : i < j =>
         \/ Rank(name, old[i]) < Rank(name, old[j])
         \/ Rank(name, old[i]) = Rank(name, old[j]) /\ old[i] < old[j]
  BY <1>4, <1>6, <1>9
<1>12. PICK k \in 1 .. N : providers' = Inserted(old, N, k) /\ Belongs(old, N, k, name)
  <2>1. \A i, j \in 1 .. N - 1 : i < j => Rank(name, old[i]) <= Rank(name, old[j])
    <3> SUFFICES ASSUME NEW i \in 1 .. N - 1, NEW j \in 1 .. N - 1, i < j
                 PROVE  Rank(name, old[i]) <= Rank(name, old[j])
      OBVIOUS
    <3>1. old[i] \in 1 .. N /\ old[j] \in 1 .. N
      BY <1>6
    <3>2. PICK x, y \in Nat : x = Rank(name, old[i]) /\ y = Rank(name, old[j])
      BY <1>8, <3>1
    <3>3. x < y \/ x = y
      BY <1>11, <3>2
    <3>4. QED
      BY <3>2, <3>3
  <2>2. QED
    BY <1>5, <1>6, <1>7, <2>1, SortPassInserts
<1> DEFINE from(j) == IF j < k THEN j ELSE IF j = k THEN N ELSE j - 1
<1>13. \A j \in 1 .. N : from(j) \in 1 .. N /\ providers'[j] = old[from(j)]
  BY <1>12 DEF Inserted
<1>14. providers' \in [1 .. N -> 1 .. N]
  <2>1. Inserted(old, N, k) \in [1 .. N -> 1 .. N]
    BY <1>6 DEF Inserted, Lists
  <2>2. QED
    BY <1>12, <2>1
<1> PICK sorted : sorted = providers'
  OBVIOUS
<1>15. ASSUME NEW i \in 1 .. N, NEW j \in 1 .. N, i < j
       PROVE  Before(sorted[i], sorted[j])'
  <2>1. PICK m, n \in 1 .. N : m = old[from(i)] /\ n = old[from(j)]
    BY <1>6, <1>13 DEF Lists
  <2>2. PICK x, y \in Nat : x = Rank(name, m) /\ y = Rank(name, n)
    BY <1>8, <2>1
  <2>3. x < y \/ (x = y /\ m < n)
    <3>1. CASE i = k
      <4>1. from(i) = N /\ from(j) = j - 1 /\ j - 1 \in k .. N - 1
        BY <1>15, <3>1
      <4>2. x < y
        BY <1>12, <2>1, <2>2, <4>1 DEF Belongs
      <4>3. QED
        BY <4>2
    <3>2. CASE j = k
      <4>1. from(j) = N /\ from(i) = i /\ i \in 1 .. k - 1 /\ i \in 1 .. N - 1
        BY <1>15, <3>2
      <4>2. x <= y
        BY <1>12, <2>1, <2>2, <4>1 DEF Belongs
      <4>3. m < n
        BY <1>6, <2>1, <4>1
      <4>4. QED
        BY <4>2, <4>3
    <3>3. CASE i # k /\ j # k
      <4>1. from(i) \in 1 .. N - 1 /\ from(j) \in 1 .. N - 1 /\ from(i) < from(j)
        BY <1>15, <3>3
      <4> HIDE DEF from
      <4>2. \/ Rank(name, old[from(i)]) < Rank(name, old[from(j)])
            \/ Rank(name, old[from(i)]) = Rank(name, old[from(j)]) /\ old[from(i)] < old[from(j)]
        BY <1>11, <4>1
      <4>3. QED
        BY <2>1, <2>2, <4>2
    <3>4. QED
      BY <3>1, <3>2, <3>3
  <2>4. Before(m, n)'
    BY <1>10, <2>2, <2>3
  <2>5. m = sorted[i] /\ n = sorted[j]
    BY <1>13, <2>1
  <2>6. QED
    BY <2>4, <2>5
<1>16. ASSUME NEW n \in 1 .. N PROVE \E i \in 1 .. N : providers'[i] = n
  <2>1. PICK h \in 1 .. N : old[h] = n
    <3>1. CASE n = N
      BY <1>6, <3>1
    <3>2. CASE n # N
      <4>1. n \in 1 .. N - 1
        BY <3>2
      <4>2. QED
        <5>1. PICK i \in 1 .. N - 1 : providers[i] = n
          BY <1>4, <4>1
        <5>2. i \in 1 .. N /\ old[i] = n
          BY <1>6, <5>1
        <5>3. QED
          BY <5>2
    <3>3. QED
      BY <3>1, <3>2
  <2>2. PICK i \in 1 .. N : from(i) = h
    <3>1. CASE h = N
      <4>1. from(k) = h
        BY <3>1
      <4>2. QED
        BY <4>1
    <3>2. CASE h < k
      <4>1. from(h) = h
        BY <3>2
      <4>2. QED
        BY <4>1
    <3>3. CASE h >= k /\ h # N
      <4>1. h + 1 \in 1 .. N /\ from(h + 1) = h
        BY <3>3
      <4>2. QED
        BY <4>1
    <3>4. QED
      BY <3>1, <3>2, <3>3
  <2>3. QED
    BY <1>13, <2>1, <2>2
<1>17. Registrations' = 1 .. N
  BY <1>3, <1>5 DEF Registrations
<1>18. QED
  <2>1. \A i, j \in 1 .. N : i < j => Before(sorted[i], sorted[j])'
    BY <1>15
  <2>2. (\A i, j \in Registrations : i < j => Before(providers[i], providers[j]))'
    BY <1>17, <2>1
  <2>3. QED
    BY <1>3, <1>5, <1>14, <1>16, <1>17, <2>2 DEF RegistryInv

LEMMA RegistryInvNext == RegistryInv /\ [RegistryNext]_registryVars => RegistryInv'
<1> SUFFICES ASSUME RegistryInv, [RegistryNext]_registryVars PROVE RegistryInv'
  OBVIOUS
<1>1. CASE UNCHANGED <<providers, registered>>
  <2>1. Registrations' = Registrations /\ \A m, n : Before(m, n)' <=> Before(m, n)
    BY <1>1 DEF Registrations, Before
  <2>2. QED
    BY <1>1, <2>1 DEF RegistryInv
<1>2. QED
  BY <1>1, RegisterKeeps DEF RegistryNext, AskProvider, registryVars

----------------------------------------------------------------------------
LEMMA InvListsAll ==
  ASSUME RegistryInv, NEW p
  PROVE  Cardinality({i \in DOMAIN ListProviders : ListProviders[i] = p}) =
           Cardinality({n \in DOMAIN registered : registered[n] = p})
<1> DEFINE A == {i \in DOMAIN ListProviders : ListProviders[i] = p}
<1> DEFINE B == {n \in DOMAIN registered : registered[n] = p}
<1>1. /\ DOMAIN registered = Registrations /\ DOMAIN providers = Registrations /\ IsFiniteSet(Registrations)
      /\ providers \in [Registrations -> Registrations]
  BY FS_Interval DEF RegistryInv, Registrations
<1>2. A = {i \in Registrations : registered[providers[i]] = p} /\ B = {n \in Registrations : registered[n] = p}
  BY <1>1 DEF ListProviders
<1>3. \A i, j \in Registrations : providers[i] = providers[j] => i = j
  <2>1. \A i, j \in Registrations : i = j \/ i < j \/ j < i
    BY DEF Registrations
  <2>2. QED
    BY <1>1, <2>1, BeforeOrders DEF RegistryInv
<1> HIDE DEF A, B
<1> DEFINE f == [i \in A |-> providers[i]]
<1>4. f \in Bijection(A, B)
  <2>1. f \in [A -> B] /\ \A i, j \in A : f[i] = f[j] => i = j
    BY <1>1, <1>2, <1>3
  <2>2. \A n \in B : \E i \in A : f[i] = n
    BY <1>2 DEF RegistryInv
  <2>3. QED
    BY <2>1, <2>2 DEF Bijection, Injection, Surjection, IsInjective
<1>5. IsFiniteSet(A)
  BY <1>1, <1>2, FS_Subset
<1>6. Cardinality(A) = Cardinality(B)
  BY <1>4, <1>5, FS_Bijection DEF ExistsBijection
<1>7. QED
  BY <1>6 DEF A, B

MatchingCalls(m) == {n \in DOMAIN registered : Match(registered[n], m)}
MatchingPlaces(m) == {i \in 1 .. Len(providers) : Match(registered[providers[i]], m)}

LEMMA GetProviderIs ==
  ASSUME NEW m
  PROVE  GetProvider(m) =
           LET i == IF MatchingPlaces(m) # {} THEN Min(MatchingPlaces(m)) ELSE 0
           IN  IF i = 0 THEN 0 ELSE providers[i]
BY Zenon DEF GetProvider, SelectInSeq, MatchingPlaces

LEMMA MinIsLeast ==
  ASSUME NEW S, S \subseteq Nat, S # {}
  PROVE  Min(S) \in S /\ \A x \in S : Min(S) <= x
<1>1. \E x \in S : \A y \in S : x <= y
  BY NatLeast
<1>2. QED
  BY <1>1, Zenon DEF Min

LEMMA InvAsksFirst ==
  ASSUME RegistryInv, NEW m
  PROVE  MatchingCalls(m) # {} =>
           GetProvider(m) = CHOOSE n \in MatchingCalls(m) : \A k \in MatchingCalls(m) \ {n} : Before(n, k)
<1>1. /\ DOMAIN registered = Registrations /\ Len(providers) = Len(registered)
      /\ providers \in [Registrations -> Registrations] /\ Registrations \subseteq Nat \ {0} /\ Registrations = 1 .. Len(providers)
  BY DEF RegistryInv, Registrations
<1>2. CASE MatchingCalls(m) # {}
  <2>1. PICK n0 \in Registrations : Match(registered[n0], m)
    BY <1>1, <1>2 DEF MatchingCalls
  <2>2. MatchingPlaces(m) # {} /\ MatchingPlaces(m) \subseteq Nat
    BY <1>1, <2>1 DEF MatchingPlaces, RegistryInv
  <2>3. PICK i : i = Min(MatchingPlaces(m))
    OBVIOUS
  <2>4. i \in MatchingPlaces(m) /\ \A x \in MatchingPlaces(m) : i <= x
    BY <2>2, <2>3, MinIsLeast
  <2>5. i \in Registrations /\ i # 0 /\ GetProvider(m) = providers[i]
    BY <1>1, <2>2, <2>3, <2>4, GetProviderIs DEF MatchingPlaces
  <2>6. PICK n : n = providers[i]
    OBVIOUS
  <2>7. n \in MatchingCalls(m)
    BY <1>1, <2>4, <2>5, <2>6 DEF MatchingCalls, MatchingPlaces
  <2>8. ASSUME NEW k \in MatchingCalls(m) \ {n} PROVE Before(n, k)
    <3>1. PICK j \in Registrations : providers[j] = k
      BY <1>1 DEF RegistryInv, MatchingCalls
    <3>2. j \in MatchingPlaces(m)
      BY <1>1, <3>1 DEF MatchingCalls, MatchingPlaces
    <3>3. i < j
      BY <1>1, <2>4, <2>5, <2>6, <3>1, <3>2
    <3>4. QED
      BY <2>5, <2>6, <3>1, <3>3 DEF RegistryInv
  <2>9. \A l \in MatchingCalls(m) : (\A k \in MatchingCalls(m) \ {l} : Before(l, k)) => l = n
    <3>1. MatchingCalls(m) \subseteq Registrations
      BY <1>1 DEF MatchingCalls
    <3>2. \A l \in MatchingCalls(m) : ~(Before(l, n) /\ Before(n, l))
      BY <2>7, <3>1, BeforeOrders DEF RegistryInv
    <3>3. QED
      BY <2>7, <2>8, <3>2
  <2>10. n = CHOOSE l \in MatchingCalls(m) : \A k \in MatchingCalls(m) \ {l} : Before(l, k)
    <3>1. \E l \in MatchingCalls(m) : \A k \in MatchingCalls(m) \ {l} : Before(l, k)
      BY <2>7, <2>8
    <3>2. QED
      BY <2>9, <3>1
  <2>11. QED
    BY <2>5, <2>6, <2>10
<1>3. QED
  BY <1>2

(* For any sequence of registrations: the providers are kept by priority,  *)
(* ties in the order they came in, none lost or listed twice, and the one  *)
(* that provider.go:57 asks for a model that some match is the first of    *)
(* them.                                                                   *)
THEOREM RegistryIsAlwaysOrdered == RegistrySpec => []RegistryIsOrdered
<1>1. RegistryInv => RegistryIsOrdered
  <2> SUFFICES ASSUME RegistryInv PROVE RegistryIsOrdered
    OBVIOUS
  <2>1. \A i, j \in DOMAIN providers : i < j => Before(providers[i], providers[j])
    BY DEF RegistryInv
  <2>2. QED
    BY <2>1, InvListsAll, InvAsksFirst DEF RegistryIsOrdered, MatchingCalls
<1>2. RegistrySpec => []RegistryInv
  BY RegistryInvInit, RegistryInvNext, PTL DEF RegistrySpec
<1>3. QED
  BY <1>1, <1>2, PTL

----------------------------------------------------------------------------
(***************************************************************************)
(* HealthProbe, for any number of outages and requests.                    *)
(*                                                                         *)
(* The answers of a request in progress are those of the conditions its    *)
(* calls met, and its deadline is past only after a call that hung         *)
(* (ProbeAnswers).                                                         *)
(***************************************************************************)

(* What each call of the request in progress met is what it answered for;  *)
(* the deadline is past once a call hung.                                   *)
ProbeAnswers(found, met, n) ==
  /\ found \in [1 .. n -> {"healthy", "degraded", "unhealthy"}]
  /\ met \in [1 .. n -> Conditions \cup {"absent"}]
  /\ \A i \in 1 .. n :
       /\ found[i] # "unhealthy" => met[i] \in {"up", "slow"} \/ (i = 3 /\ met[i] = "absent")
       /\ found[i] = "unhealthy" =>
            \/ \E j \in 1 .. i : met[j] \in {"hangs", "down"}
            \/ i < 3 /\ met[i] = "absent"

HealthInv ==
  /\ dependency \in [Names -> Conditions \cup {"absent"}]
  /\ detailed # NotAsking =>
       /\ detailed \in [at : 1 .. 4, expired : BOOLEAN, found : Seq({"healthy", "degraded", "unhealthy"}), met : Seq(Conditions \cup {"absent"})]
       /\ Len(detailed.found) = detailed.at - 1 /\ Len(detailed.met) = detailed.at - 1
       /\ ProbeAnswers(detailed.found, detailed.met, detailed.at - 1)
       /\ detailed.expired => \E j \in 1 .. detailed.at - 1 : detailed.met[j] = "hangs"
  /\ ReportIsEarned

LEMMA AskedFacts ==
  /\ Names = {"postgresql", "redis", "minio"} /\ Len(Asked) = 3
  /\ Asked[1] = "postgresql" /\ Asked[2] = "redis" /\ Asked[3] = "minio"
BY DEF Names, Asked

LEMMA CheckAnswers ==
  ASSUME NEW i \in 1 .. 3, NEW expired \in BOOLEAN, dependency \in [Names -> Conditions \cup {"absent"}]
  PROVE  LET c == Check(Asked[i], expired)
             condition == dependency[Asked[i]]
         IN  /\ c \in {"healthy", "degraded", "unhealthy"}
             /\ condition \in Conditions \cup {"absent"}
             /\ c # "unhealthy" => condition \in {"up", "slow"} \/ (i = 3 /\ condition = "absent")
             /\ c = "unhealthy" => expired \/ condition \in {"hangs", "down"} \/ (i < 3 /\ condition = "absent")
<1>1. CASE i = 1
  BY <1>1, AskedFacts DEF Check, checkPostgres, Answered, Conditions
<1>2. CASE i = 2
  BY <1>2, AskedFacts DEF Check, checkRedis, Answered, Conditions
<1>3. CASE i = 3
  BY <1>3, AskedFacts DEF Check, checkMinio, Answered, Conditions
<1>4. QED
  BY <1>1, <1>2, <1>3

LEMMA CheckNextKeeps == HealthInv /\ CheckNext => HealthInv'
<1> SUFFICES ASSUME HealthInv, CheckNext PROVE HealthInv'
  OBVIOUS
<1> DEFINE i == detailed.at
<1> DEFINE c == Check(Asked[i], detailed.expired)
<1> DEFINE d == dependency[Asked[i]]
<1>1. /\ detailed # NotAsking /\ i \in 1 .. 3 /\ detailed.expired \in BOOLEAN
      /\ detailed' = [at |-> i + 1, expired |-> detailed.expired \/ d = "hangs",
                      found |-> Append(detailed.found, c), met |-> Append(detailed.met, d)]
      /\ UNCHANGED <<dependency, report>>
  BY AskedFacts DEF HealthInv, CheckNext
<1>2. /\ c \in {"healthy", "degraded", "unhealthy"}
      /\ d \in Conditions \cup {"absent"}
      /\ c # "unhealthy" => d \in {"up", "slow"} \/ (i = 3 /\ d = "absent")
      /\ c = "unhealthy" => detailed.expired \/ d \in {"hangs", "down"} \/ (i < 3 /\ d = "absent")
  BY <1>1, CheckAnswers DEF HealthInv
<1> HIDE DEF c, d
<1>3. /\ detailed' \in [at : 1 .. 4, expired : BOOLEAN, found : Seq({"healthy", "degraded", "unhealthy"}),
                        met : Seq(Conditions \cup {"absent"})]
      /\ Len(detailed'.found) = i /\ Len(detailed'.met) = i
  BY <1>1, <1>2 DEF HealthInv
<1>4. /\ \A j \in 1 .. i - 1 : detailed'.found[j] = detailed.found[j] /\ detailed'.met[j] = detailed.met[j]
      /\ detailed'.found[i] = c /\ detailed'.met[i] = d
  BY <1>1, <1>2 DEF HealthInv
<1>5. detailed'.expired => \E j \in 1 .. i : detailed'.met[j] = "hangs"
  BY <1>1, <1>4 DEF HealthInv
<1>6. /\ c = "unhealthy" => \/ \E j \in 1 .. i : detailed'.met[j] \in {"hangs", "down"}
                            \/ i < 3 /\ detailed'.met[i] = "absent"
      /\ c # "unhealthy" => d \in {"up", "slow"} \/ (i = 3 /\ d = "absent")
  BY <1>1, <1>2, <1>4 DEF HealthInv
<1>7. ProbeAnswers(detailed'.found, detailed'.met, i)
  <2>1. /\ detailed'.found \in [1 .. i -> {"healthy", "degraded", "unhealthy"}]
        /\ detailed'.met \in [1 .. i -> Conditions \cup {"absent"}]
    BY <1>3
  <2>2. ASSUME NEW j \in 1 .. i
        PROVE  /\ detailed'.found[j] # "unhealthy" =>
                    detailed'.met[j] \in {"up", "slow"} \/ (j = 3 /\ detailed'.met[j] = "absent")
               /\ detailed'.found[j] = "unhealthy" =>
                    \/ \E k \in 1 .. j : detailed'.met[k] \in {"hangs", "down"}
                    \/ j < 3 /\ detailed'.met[j] = "absent"
    <3>1. CASE j = i
      BY <3>1, <1>1, <1>4, <1>6
    <3>2. CASE j # i
      <4>1. j \in 1 .. i - 1 /\ \A k \in 1 .. j : k \in 1 .. i - 1
        BY <3>2, <1>1
      <4>2. /\ detailed'.found[j] = detailed.found[j]
            /\ \A k \in 1 .. j : detailed'.met[k] = detailed.met[k]
        BY <4>1, <1>4
      <4>3. /\ detailed.found[j] # "unhealthy" =>
                 detailed.met[j] \in {"up", "slow"} \/ (j = 3 /\ detailed.met[j] = "absent")
            /\ detailed.found[j] = "unhealthy" =>
                 \/ \E k \in 1 .. j : detailed.met[k] \in {"hangs", "down"}
                 \/ j < 3 /\ detailed.met[j] = "absent"
        BY <4>1, <1>1 DEF HealthInv, ProbeAnswers
      <4>4. QED
        BY <4>2, <4>3
    <3>3. QED
      BY <3>1, <3>2
  <2>3. QED
    BY <2>1, <2>2 DEF ProbeAnswers
<1>8. detailed'.at - 1 = i
  BY <1>1
<1>9. ReportIsEarned' /\ dependency' \in [Names -> Conditions \cup {"absent"}]
  BY <1>1 DEF HealthInv, ReportIsEarned
<1>10. QED
  BY <1>3, <1>5, <1>7, <1>8, <1>9 DEF HealthInv

LEMMA EndDetailedKeeps == HealthInv /\ EndDetailed => HealthInv'
<1> SUFFICES ASSUME HealthInv, EndDetailed PROVE HealthInv'
  OBVIOUS
<1> DEFINE f == detailed.found
<1> DEFINE m == detailed.met
<1>1. detailed.at = 4 /\ ProbeAnswers(f, m, 3) /\ DOMAIN f = 1 .. 3
  BY AskedFacts DEF HealthInv, EndDetailed
<1>2. report' = [status |-> Overall(f), http |-> IF Overall(f) = "unhealthy" THEN 503 ELSE 200, met |-> m]
  BY DEF EndDetailed
<1> HIDE DEF f, m
<1>3. Overall(f) = "unhealthy" => \E i \in 1 .. 3 : f[i] = "unhealthy"
  BY <1>1 DEF Overall, Having
<1>4. Overall(f) # "unhealthy" => \A i \in 1 .. 3 : f[i] # "unhealthy"
  BY <1>1 DEF Overall, Having
<1>5. ReportIsEarned'
  <2>1. CASE Overall(f) = "unhealthy"
    <3>1. report'.http = 503 /\ report'.met = m
      BY <1>2, <2>1
    <3>2. PICK i \in 1 .. 3 : f[i] = "unhealthy"
      BY <1>3, <2>1
    <3>3. \/ \E j \in 1 .. 3 : m[j] \in {"hangs", "down"}
          \/ \E j \in 1 .. 2 : m[j] = "absent"
      BY <1>1, <3>2 DEF ProbeAnswers
    <3>4. QED
      BY <3>1, <3>3 DEF ReportIsEarned
  <2>2. CASE Overall(f) # "unhealthy"
    <3>1. report'.http = 200 /\ report'.met = m
      BY <1>2, <2>2
    <3>2. m[1] \in {"up", "slow"} /\ m[2] \in {"up", "slow"} /\ m[3] \in {"up", "slow", "absent"}
      BY <1>1, <1>4, <2>2 DEF ProbeAnswers
    <3>3. QED
      BY <3>1, <3>2 DEF ReportIsEarned, Ready
  <2>3. QED
    BY <2>1, <2>2
<1>6. QED
  BY <1>5 DEF HealthInv, EndDetailed

(* For any number of outages and requests, in any order of the two: a      *)
(* report is what the dependencies did in its own request                  *)
(* (health.go:75-101).                                                     *)
THEOREM HealthReportIsEarned == HealthSpec => []ReportIsEarned
<1>1. HealthInit => HealthInv
  BY DEF HealthInit, HealthInv, ReportIsEarned
<1>2. HealthInv /\ [HealthNext]_healthVars => HealthInv'
  <2> SUFFICES ASSUME HealthInv, [HealthNext]_healthVars PROVE HealthInv'
    OBVIOUS
  <2>1. ASSUME NEW n \in Names, NEW c \in Conditions, Change(n, c) PROVE HealthInv'
    BY <2>1 DEF Change, HealthInv, ReportIsEarned, ProbeAnswers
  <2>2. CASE BeginDetailed
    BY <2>2 DEF BeginDetailed, HealthInv, ReportIsEarned, ProbeAnswers
  <2>3. CASE UNCHANGED healthVars
    BY <2>3 DEF healthVars, HealthInv, ReportIsEarned, ProbeAnswers
  <2>4. QED
    BY <2>1, <2>2, <2>3, CheckNextKeeps, EndDetailedKeeps DEF HealthNext
<1>3. HealthInv => ReportIsEarned
  BY DEF HealthInv
<1>4. QED
  BY <1>1, <1>2, <1>3, PTL DEF HealthSpec
=============================================================================
