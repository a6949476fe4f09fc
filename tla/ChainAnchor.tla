----------------------------- MODULE ChainAnchor -----------------------------
(***************************************************************************)
(* Anchoring on a chain from one account: anchor/ethereum.go, the clients  *)
(* of the two contracts in anchor/contracts, which send their transactions *)
(* in the same way, and contracts/AITraceRegistry.sol, which executes them.*)
(*                                                                         *)
(* The Ethereum node is external: it keeps one pending transaction per     *)
(* nonce, replaces one by another that offers more, mines them in the      *)
(* order of their nonces and may undo its last block.  A block holds at    *)
(* most one transaction.  The account is an authorised submitter.          *)
(***************************************************************************)
EXTENDS Naturals, Sequences, FiniteSets, SequencesExt

CONSTANTS
  Callers,    \* goroutines that anchor
  Certs,      \* certificate ids
  MaxCalls,   \* bound on calls, with their retries
  MaxBlocks,  \* bound on the length of the chain
  MaxReorgs   \* bound on undone blocks

ASSUME ChainAssumption ==
  MaxCalls \in Nat /\ MaxBlocks \in Nat /\ MaxReorgs \in Nat

VARIABLES
  call,    \* what each caller is doing
  pool,    \* pending transactions of the account
  chain,   \* blocks: <<transaction>> or << >>
  calls,   \* calls begun, each a transaction of its own
  reorgs   \* blocks undone so far

chainVars == <<call, pool, chain, calls, reorgs>>

(* What is called: EthereumAnchor without a contract sends data to its own *)
(* account, with one it sends the same data there, which is no call of a   *)
(* function; the clients of the contracts call their functions.  Of the    *)
(* arbitration's functions (module Arbitration) only createDispute reads   *)
(* the registry; whether the others succeed is decided there.              *)
EthereumOps == {"data", "unencoded"}
RegistryCalls == {"createAttestation", "anchor", "batchCreateAttestations", "revokeAttestation"}
ArbitrationCalls == {"createDispute"}
ManagerOps == RegistryCalls \cup ArbitrationCalls

Waiting == {"nonced", "sent"}
NoCall == [at |-> "idle"]

ChainInit ==
  /\ call = [p \in Callers |-> NoCall]
  /\ pool = {}
  /\ chain = << >>
  /\ calls = 0 /\ reorgs = 0

----------------------------------------------------------------------------
(* The contracts: the registry after a prefix of the chain, as the root of *)
(* each certificate that has a valid attestation (0 if none), and the      *)
(* status of the transaction that comes next.                              *)

MayAttest_Always(attestation, c) == TRUE
MayAttest(attestation, c) == attestation[c] = 0

attestationExists(attestation, c) == attestation[c] # 0
verifyAttestation(attestation, c, root) == attestationExists(attestation, c) /\ attestation[c] = root

(* A batch passes over what is attested already and succeeds.              *)
Status(attestation, tx) ==
  CASE tx.op \in {"data", "batchCreateAttestations"} -> 1
    [] tx.op = "unencoded" -> 0
    [] tx.op \in {"createAttestation", "anchor"} -> IF MayAttest(attestation, tx.cert) THEN 1 ELSE 0
    [] OTHER -> IF attestationExists(attestation, tx.cert) THEN 1 ELSE 0

(* The root is told apart by the call that brings it.                      *)
Executed(attestation, tx) ==
  IF Status(attestation, tx) = 0 THEN attestation
  ELSE CASE tx.op \in {"createAttestation", "anchor"} -> [attestation EXCEPT ![tx.cert] = tx.id]
         [] tx.op = "batchCreateAttestations" ->
              [c \in Certs |-> IF MayAttest(attestation, c) THEN tx.id ELSE attestation[c]]
         [] tx.op = "revokeAttestation" -> [attestation EXCEPT ![tx.cert] = 0]
         [] OTHER -> attestation

After(attestation, block) == IF block = << >> THEN attestation ELSE Executed(attestation, block[1])

(* After none of the blocks, after the first, and so on.                   *)
Registries(blocks) ==
  LET after[n \in 0 .. Len(blocks)] ==
        IF n = 0 THEN [c \in Certs |-> 0] ELSE After(after[n - 1], blocks[n])
  IN  after
Registry(blocks) == Registries(blocks)[Len(blocks)]

BlockOf(tx) == CHOOSE n \in DOMAIN chain : chain[n] = <<tx>>
OnChain(tx) == \E n \in DOMAIN chain : chain[n] = <<tx>>
Receipt(tx) ==
  [block |-> BlockOf(tx), status |-> Status(Registries(chain)[BlockOf(tx) - 1], tx)]

----------------------------------------------------------------------------
(* The node.                                                               *)

Nonces(txs) == {tx.nonce : tx \in txs}
NextNonce == Cardinality({n \in DOMAIN chain : chain[n] # << >>})
PendingNonce == CHOOSE n \in NextNonce .. NextNonce + Cardinality(pool) :
                  n \notin Nonces(pool) /\ NextNonce .. n - 1 \subseteq Nonces(pool)

(* Accepted, or in the place of another; refused if the nonce is used, or  *)
(* taken at no lower price.                                                *)
Accepts(tx, after) ==
  /\ tx.nonce >= NextNonce
  /\ after = {other \in pool : other.nonce # tx.nonce} \cup {tx}

Mine ==
  /\ Len(chain) < MaxBlocks
  /\ \/ \E tx \in pool : tx.nonce = NextNonce /\ chain' = Append(chain, <<tx>>) /\ pool' = pool \ {tx}
     \/ chain' = Append(chain, << >>) /\ UNCHANGED pool
  /\ UNCHANGED <<call, calls, reorgs>>

(* The last block is undone; its transaction is pending again.             *)
Reorg ==
  /\ reorgs < MaxReorgs /\ chain # << >>
  /\ reorgs' = reorgs + 1
  /\ chain' = Front(chain)
  /\ pool' = pool \cup ToSet(Last(chain))
  /\ UNCHANGED <<call, calls>>

----------------------------------------------------------------------------
(* A call: the nonce is read, the transaction sent, the receipt awaited.   *)

Begin(p, op, c) ==
  /\ call[p].at \notin Waiting /\ calls < MaxCalls
  /\ calls' = calls + 1
  /\ call' = [call EXCEPT ![p] =
       [at |-> "nonced", tx |-> [id |-> calls + 1, op |-> op, cert |-> c, nonce |-> PendingNonce]]]
  /\ UNCHANGED <<pool, chain, reorgs>>

(* sendTransaction: a failed estimate of the gas does not stop it.         *)
Send(p) ==
  /\ call[p].at = "nonced"
  /\ Accepts(call[p].tx, pool')
  /\ call' = [call EXCEPT ![p].at = "sent"]
  /\ UNCHANGED <<chain, calls, reorgs>>

(* The node refuses it, or its answer is lost.                             *)
SendFails(p) ==
  /\ call[p].at = "nonced"
  /\ pool' = pool \/ Accepts(call[p].tx, pool')
  /\ call' = [call EXCEPT ![p].at = "failed"]
  /\ UNCHANGED <<chain, calls, reorgs>>

ChecksStatus_Never(op) == FALSE
ChecksStatus(op) == op \in EthereumOps

(* waitForReceipt fails for a transaction that failed; waitForTx leaves    *)
(* the status to its caller.                                               *)
GetReceipt(p) ==
  /\ call[p].at = "sent" /\ OnChain(call[p].tx)
  /\ LET r == Receipt(call[p].tx) IN
       call' = [call EXCEPT ![p] =
         IF ChecksStatus(@.tx.op) /\ r.status = 0
           THEN [at |-> "failed", tx |-> @.tx]
           ELSE [at |-> "anchored", tx |-> @.tx, receipt |-> r]]
  /\ UNCHANGED <<pool, chain, calls, reorgs>>

(* Five minutes, the caller's own deadline, or a failing question for the  *)
(* receipt.                                                                *)
TimeOut(p) ==
  /\ call[p].at = "sent"
  /\ call' = [call EXCEPT ![p].at = "failed"]
  /\ UNCHANGED <<pool, chain, calls, reorgs>>

(* EthereumAnchor.Verify, of the result a caller has: fewer than six       *)
(* confirmations are only logged.                                          *)
Verify(p) ==
  /\ OnChain(call[p].tx)
  /\ Receipt(call[p].tx).status = 1
  /\ BlockOf(call[p].tx) = call[p].receipt.block

----------------------------------------------------------------------------
ChainNext ==
  \/ \E p \in Callers, op \in EthereumOps \cup ManagerOps, c \in Certs : Begin(p, op, c)
  \/ \E p \in Callers : Send(p) \/ SendFails(p) \/ GetReceipt(p) \/ TimeOut(p)
  \/ Mine \/ Reorg

ChainSpec == ChainInit /\ [][ChainNext]_chainVars

----------------------------------------------------------------------------
Revoked(c, after) ==
  \E n \in after + 1 .. Len(chain) : chain[n] # << >> /\ chain[n][1].op = "revokeAttestation" /\ chain[n][1].cert = c

(* What a caller was told stays true, through replaced transactions, lost  *)
(* answers and retries: an anchor that EthereumAnchor reported verifies, a *)
(* receipt of ContractManager has the status that the registry's state at  *)
(* its block gives, and the root of a successful createAttestation or      *)
(* anchor is the one that verifies until it is revoked; unless a block was *)
(* undone (ethereum.go:187, contracts/manager.go:264).                     *)
ReportedIsOnChain ==
  reorgs = 0 => \A p \in Callers : call[p].at = "anchored" =>
    /\ OnChain(call[p].tx) /\ Receipt(call[p].tx) = call[p].receipt
    /\ call[p].tx.op \in EthereumOps => Verify(p)
    /\ (/\ call[p].tx.op \in {"createAttestation", "anchor"} /\ call[p].receipt.status = 1
        /\ ~Revoked(call[p].tx.cert, call[p].receipt.block))
         => verifyAttestation(Registry(chain), call[p].tx.cert, call[p].tx.id)

(* Of the calls that anchor the same certificate, retried after failures   *)
(* that were none, one writes its root and no other replaces it: the root  *)
(* of a valid attestation changes only through a revocation                *)
(* (AITraceRegistry.sol:133).                                              *)
RootIsWrittenOnce ==
  [][\A c \in Certs :
       (Registry(chain)[c] # 0 /\ Len(chain') > Len(chain) /\ Registry(chain')[c] # 0)
         => Registry(chain')[c] = Registry(chain)[c]]_chainVars
=============================================================================
