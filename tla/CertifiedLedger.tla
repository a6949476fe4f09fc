--------------------------- MODULE CertifiedLedger --------------------------
(***************************************************************************)
(* What the evidence pipeline promises about certificates, with no word    *)
(* about goroutines, buckets or crashes: events are appended to a ledger   *)
(* that never loses one, a commit reads everything one trace has at one    *)
(* moment, and what it issues later, if it issues anything, is exactly     *)
(* what it read.                                                           *)
(***************************************************************************)
CONSTANTS
  Commits,   (* one certificate each                                       *)
  Traces,
  Entries    (* everything the ledger can hold; an entry has a trace       *)

VARIABLES
  ledger,    (* entries stored so far                                      *)
  page,      (* what each commit has read                                  *)
  issued     (* what each certificate covers                               *)

vars == <<ledger, page, issued>>

Init ==
  /\ ledger = {}
  /\ page = [k \in Commits |-> {}]
  /\ issued = [k \in Commits |-> {}]

Append(e) ==
  /\ ledger' = ledger \union {e}
  /\ UNCHANGED <<page, issued>>

Read(k, t) ==
  /\ page[k] = {}
  /\ page' = [page EXCEPT ![k] = {e \in ledger : e.trace = t}]
  /\ UNCHANGED <<ledger, issued>>

Issue(k) ==
  /\ issued[k] = {}
  /\ issued' = [issued EXCEPT ![k] = page[k]]
  /\ UNCHANGED <<ledger, page>>

Next ==
  \/ \E e \in Entries : Append(e)
  \/ \E k \in Commits, t \in Traces : Read(k, t)
  \/ \E k \in Commits : Issue(k)

Spec == Init /\ [][Next]_vars
=============================================================================
