----------------------------- MODULE Federation -----------------------------
(***************************************************************************)
(* Federated anchoring (anchor/federated.go, its handlers in               *)
(* api/federated.go, and the way through anchor/manager.go): a node asks   *)
(* the nodes on its list to confirm a root, all at once, and the anchor    *)
(* stands when enough of them do.                                          *)
(*                                                                         *)
(* The list is a Go slice that AddNode and RemoveNode change in place under*)
(* a mutex that Anchor does not take, so the array behind it is modelled:  *)
(* the list is its first size entries.  Signatures of honest nodes always  *)
(* verify, and a node nobody trusts is accepted too; neither decides       *)
(* anything and both are left out.                                         *)
(***************************************************************************)
EXTENDS Naturals, Sequences, FiniteSets, SequencesExt, Functions

CONSTANTS
  Nodes,        \* endpoints of the nodes of the federation
  Self,         \* the node whose anchors are modelled
  Listed,       \* the nodes its configuration lists
  MinConfirm,   \* Config.MinConfirmations
  MaxChanges,   \* bound on changes of the list
  MaxDowns,     \* bound on failures of nodes
  MaxHops       \* how often a verification is passed on before it times out

ASSUME FederationAssumption ==
  /\ IsFiniteSet(Nodes) /\ Self \in Nodes /\ Listed \subseteq Nodes \ {Self}
  /\ MinConfirm \in Nat \ {0} /\ MaxHops \in Nat
  /\ MaxChanges \in Nat /\ MaxDowns \in Nat

VARIABLES
  array, size,   \* f.nodes of Self: the array behind it and its length
  job,           \* the call of Anchor that Self is in
  known,         \* nodes whose knownAnchors has the anchor
  up,            \* nodes that answer
  changes, downs \* bounded by MaxChanges and MaxDowns

federationVars == <<array, size, job, known, up, changes, downs>>

Others == Nodes \ {Self}
Empty == "empty"
NoJob == [at |-> "none"]
list == SubSeq(array, 1, size)

(* What FederatedNodes is configured to.                                   *)
FederationInit ==
  /\ array = SetToSeq(Listed) /\ size = Cardinality(Listed)
  /\ job = NoJob
  /\ known = {}
  /\ up = Nodes
  /\ changes = 0 /\ downs = 0

----------------------------------------------------------------------------
(* The list.                                                               *)

(* A loop runs over the array that the list still is.                      *)
OldArrayInUse == job.at = "asking" /\ job.view = << >>

(* append writes into the array if it has room, and else into a copy of    *)
(* twice the length; a loop over the list keeps to the old array.          *)
AddNode(e) ==
  /\ Self \in up /\ changes < MaxChanges /\ changes' = changes + 1
  /\ e \notin Range(list)
  /\ IF size < Len(array)
       THEN array' = [array EXCEPT ![size + 1] = e]
       ELSE array' = array \o <<e>> \o [k \in 1 .. size - 1 |-> Empty]
  /\ job' = CASE job.at = "sized" -> [job EXCEPT !.grown = TRUE]
              [] OldArrayInUse /\ size = Len(array) -> [job EXCEPT !.view = array]
              [] OTHER -> job
  /\ size' = size + 1
  /\ UNCHANGED <<known, up, downs>>

(* The entries behind the removed one move up; the last one stays where it *)
(* was, out of sight of the list.                                          *)
RemoveNode(e) ==
  /\ Self \in up /\ changes < MaxChanges /\ changes' = changes + 1
  /\ \E i \in 1 .. size :
       /\ array[i] = e
       /\ array' = [k \in DOMAIN array |-> IF k \in i .. size - 1 THEN array[k + 1] ELSE array[k]]
  /\ size' = size - 1
  /\ job' = IF OldArrayInUse THEN [job EXCEPT !.disturbed = TRUE] ELSE job
  /\ UNCHANGED <<known, up, downs>>

----------------------------------------------------------------------------
(* Anchor.                                                                 *)

IsAvailable == Cardinality({i \in 1 .. size : array[i] \in up}) >= MinConfirm

(* Manager.Anchor asks IsAvailable first; the channels are made for as many*)
(* answers as the list has entries.                                        *)
BeginAnchor ==
  /\ job.at \in {"none", "anchored", "refused"} /\ Self \in up /\ IsAvailable
  /\ job' = [at |-> "sized", room |-> size, grown |-> FALSE]
  /\ UNCHANGED <<array, size, known, up, changes, downs>>

(* The loop over the list begins: its bounds are fixed, its entries are    *)
(* read as it comes to them.  calls are the goroutines it has started.     *)
BeginLoop ==
  /\ job.at = "sized"
  /\ job' = [at |-> "asking", room |-> job.room, grown |-> job.grown, entries |-> size,
             view |-> << >>, calls |-> << >>, disturbed |-> FALSE]
  /\ UNCHANGED <<array, size, known, up, changes, downs>>

Ask ==
  /\ job.at = "asking" /\ Len(job.calls) < job.entries
  /\ LET i    == Len(job.calls) + 1
         read == IF job.view = << >> THEN array[i] ELSE job.view[i]
     IN  job' = [job EXCEPT !.calls = Append(@, [to |-> read, result |-> "sent"])]
  /\ UNCHANGED <<array, size, known, up, changes, downs>>

Calls(result) == {i \in DOMAIN job.calls : job.calls[i].result = result}

(* HandleConfirmRequest: a node that is up accepts, unless the request     *)
(* comes too late; it stores nothing.                                      *)
Confirmed(i) ==
  /\ job.at = "asking" /\ job.calls[i].result = "sent" /\ job.calls[i].to \in up
  /\ job' = [job EXCEPT !.calls[i].result = "confirmed"]
  /\ UNCHANGED <<array, size, known, up, changes, downs>>

(* The request fails, times out or is refused.  Nobody reads the channel   *)
(* of errors: when it is full the goroutine waits for ever.                *)
Fits_Half(failures) == 2 * failures < job.room
Fits(failures) == failures < job.room

Failed(i) ==
  /\ job.at = "asking" /\ job.calls[i].result = "sent"
  /\ job' = [job EXCEPT !.calls[i].result =
               IF Fits(Cardinality(Calls("failed"))) THEN "failed" ELSE "blocked"]
  /\ UNCHANGED <<array, size, known, up, changes, downs>>

(* The answers that were read, whatever their order.                       *)
ConfirmedNodes == [i \in Calls("confirmed") |-> job.calls[i].to]

Enough_MoreThan(n) == n + 1 >= MinConfirm
Enough(n) == n >= MinConfirm

(* All goroutines are done: the channels are closed and the answers        *)
(* counted.                                                                *)
FinishAnchor ==
  /\ job.at = "asking" /\ Len(job.calls) = job.entries
  /\ Calls("sent") = {} /\ Calls("blocked") = {}
  /\ IF Enough(Cardinality(DOMAIN ConfirmedNodes))
       THEN /\ job' = [at |-> "anchored", by |-> ConfirmedNodes, disturbed |-> job.disturbed]
            /\ known' = known \cup {Self}
       ELSE job' = [at |-> "refused"] /\ UNCHANGED known
  /\ UNCHANGED <<array, size, up, changes, downs>>

----------------------------------------------------------------------------
(* A node goes away; it comes back as it is configured: known anchors, its *)
(* key and the list with its changes are in memory.                        *)
Down(n) ==
  /\ n \in up /\ downs < MaxDowns
  /\ up' = up \ {n} /\ downs' = downs + 1
  /\ known' = known \ {n}
  /\ job' = IF n = Self THEN NoJob ELSE job
  /\ UNCHANGED <<array, size, changes>>

Restart(n) ==
  /\ n \notin up
  /\ up' = up \cup {n}
  /\ IF n = Self THEN array' = SetToSeq(Listed) /\ size' = Cardinality(Listed) /\ job' = NoJob
                 ELSE UNCHANGED <<array, size, job>>
  /\ UNCHANGED <<known, changes, downs>>

(* Verify at a node: what it knows, or else enough yeses of the nodes on   *)
(* its list, which do the same in turn, round and round until the requests *)
(* time out.  The other nodes have each other and Self on their lists.     *)
ListOf(n) == IF n = Self THEN list ELSE SetToSeq(Nodes \ {n})

(* The nodes that say yes when the time is up: not the ones that wait.     *)
LastYes == known \cap up

(* The nodes that say yes with `hops` hand-overs to go.                    *)
Yes[hops \in Nat] ==
  IF hops = 0
    THEN LastYes
    ELSE LET later == Yes[hops - 1]
         IN  (known \cap up) \cup
             {n \in up : Enough(Cardinality({i \in DOMAIN ListOf(n) : ListOf(n)[i] \in later}))}

HandleFederatedVerify(n) == n \in Yes[MaxHops]

----------------------------------------------------------------------------
JobStep ==
  \/ BeginLoop
  \/ Ask
  \/ \E i \in 1 .. Cardinality(Nodes) + MaxChanges :
       job.at = "asking" /\ i \in DOMAIN job.calls /\ (Confirmed(i) \/ Failed(i))
  \/ FinishAnchor

FederationNext ==
  \/ \E e \in Others : AddNode(e) \/ RemoveNode(e)
  \/ BeginAnchor
  \/ JobStep
  \/ \E n \in Nodes : Down(n) \/ Restart(n)

(* Goroutines run and requests end, with an answer or by their timeout.    *)
FederationFairness == WF_federationVars(JobStep)

FederationSpec ==
  FederationInit /\ [][FederationNext]_federationVars /\ FederationFairness

----------------------------------------------------------------------------
(* An anchor that stands was confirmed by MinConfirm different nodes       *)
(* (federated.go:147), unless an entry was removed while the loop ran over *)
(* the list, which makes it ask the last node twice (federated.go:442).    *)
AnchoredByEnoughNodes ==
  job.at = "anchored" =>
    Cardinality(Range(job.by)) >= MinConfirm \/ job.disturbed

(* A call of Anchor ends, unless the list grew between the making of the   *)
(* channels and the loop (federated.go:115, 118): then a failed request    *)
(* may wait for room in the channel of errors and Anchor for the request.  *)
AnchorEnds ==
  job.at = "asking" ~> \/ job.at # "asking"
                       \/ job.grown

(* No verification says yes of an anchor no running node remembers         *)
(* (federated.go:231); and while Self remembers it, another node says yes  *)
(* only where one confirmation is enough (federated.go:250), since the     *)
(* nodes that confirmed keep nothing.                                      *)
VerifiedIsKnown ==
  \A n \in Nodes :
    HandleFederatedVerify(n) => n \in known \/ (Self \in known /\ MinConfirm = 1)

(* The two together: what an anchor's status and a verification's answer   *)
(* claim of other nodes (federated.go:146, 231).                           *)
AnchorsAreEarned == AnchoredByEnoughNodes /\ VerifiedIsKnown
=============================================================================
