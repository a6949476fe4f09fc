------------------------------- MODULE MCChain -------------------------------
(* What is kept to be proved later, on a chain or without one, in one run  *)
(* whose first state decides which is at work: the registry and the account*)
(* that anchors, the arbitration, whose transactions are atomic, the trace *)
(* processor that waits for an anchoring, the proof service, and the vault *)
(* of encrypted contents.                                                  *)
EXTENDS ChainAnchor, Arbitration, TraceProcessor, ZKProofs, ContentVault

VARIABLE part

(* A preimage of one byte and one of two, an ownership, a fingerprint, and *)
(* the path of two siblings with the root the circuit computes and the one *)
(* that the whole path has.                                                *)
const_ZKRequests ==
  {[type |-> "hash_preimage", preimage |-> d] : d \in {<<3>>, <<1, 2>>}}
  \cup {[type |-> "content_ownership", content |-> <<1>>, owner |-> 2, time |-> 1]}
  \cup {[type |-> "fingerprint_verify", stat |-> <<1, 2>>, semantic |-> <<3>>, model |-> 1, registered |-> 3]}
  \cup {[type |-> "merkle_proof", leaf |-> 4, path |-> <<2, 5>>, index |-> <<0, 1>>, root |-> r] : r \in {8, 10}}

Init ==
  /\ part \in {"registry", "arbitration", "processor", "proofs", "vault"}
  /\ ChainInit /\ ArbitrationInit /\ TraceInit /\ ZKInit /\ VaultInit

Next ==
  \/ part = "registry" /\ ChainNext /\ UNCHANGED <<part, arbitrationVars, traceVars, zkVars, vaultVars>>
  \/ part = "arbitration" /\ ArbitrationNext /\ UNCHANGED <<part, chainVars, traceVars, zkVars, vaultVars>>
  \/ part = "processor" /\ TraceNext /\ UNCHANGED <<part, chainVars, arbitrationVars, zkVars, vaultVars>>
  \/ part = "proofs" /\ ZKNext /\ UNCHANGED <<part, chainVars, arbitrationVars, traceVars, vaultVars>>
  \/ part = "vault" /\ VaultNext /\ UNCHANGED <<part, chainVars, arbitrationVars, traceVars, zkVars>>

Spec == Init /\ [][Next]_<<part, chainVars, arbitrationVars, traceVars, zkVars, vaultVars>>
=============================================================================
