---------------------------- MODULE AnchorPromise ----------------------------
(***************************************************************************)
(* What batched anchoring promises to its callers (anchor/batch.go): an    *)
(* accepted root gets one answer, and the answer is success only if the    *)
(* root is on the chain.  Roots are anchored and answered in groups.       *)
(***************************************************************************)
CONSTANT Items  (* AnchorItems, one for each call of Submit                *)

VARIABLES
  accepted,  (* items that Submit took                                     *)
  anchored,  (* items whose root is on the chain                           *)
  answer     (* what each item's ResultChan was sent                       *)

vars == <<accepted, anchored, answer>>

Answers == {"success", "failure"}
Open == {i \in accepted : answer[i] = "none"}

Init ==
  /\ accepted = {}
  /\ anchored = {}
  /\ answer = [i \in Items |-> "none"]

Accept(i) ==
  /\ accepted' = accepted \union {i}
  /\ UNCHANGED <<anchored, answer>>

Anchor(S) ==
  /\ S \subseteq Open
  /\ anchored' = anchored \union S
  /\ UNCHANGED <<accepted, answer>>

Answer(S, a) ==
  /\ S \subseteq Open
  /\ a = "success" => S \subseteq anchored
  /\ answer' = [i \in Items |-> IF i \in S THEN a ELSE answer[i]]
  /\ UNCHANGED <<accepted, anchored>>

Next ==
  \/ \E i \in Items \ accepted : Accept(i)
  \/ \E S \in SUBSET Items : Anchor(S) \/ \E a \in Answers : Answer(S, a)

Spec == Init /\ [][Next]_vars
=============================================================================
