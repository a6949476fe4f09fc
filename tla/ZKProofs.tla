------------------------------ MODULE ZKProofs ------------------------------
(***************************************************************************)
(* Zero-knowledge proofs (internal/zkp): the keys that the prover makes on *)
(* first use, their copy in the verifier, which only Initialize makes, the *)
(* cache of proofs, and the circuits.                                      *)
(*                                                                         *)
(* A circuit is modelled by the equation that Define asserts, over the     *)
(* integers modulo a prime; Groth16 by what the code relies on: Prove      *)
(* succeeds exactly when the witness satisfies the circuit, and Verify     *)
(* when the proof was made with the proving key that was set up with the   *)
(* verifying key.                                                          *)
(***************************************************************************)
EXTENDS Integers, Sequences, FiniteSetsExt

CONSTANTS
  Provers,       \* goroutines that call Prove...
  ProofHashes,   \* values of computeProofHash
  Prime,         \* the order of the scalar field
  ByteBase,      \* 256 in the code
  ChunkSize,     \* bytes in a chunk: 32 in the code
  Chunks,        \* chunks of HashPreimageCircuit: 8 in the code
  Levels,        \* levels of MerkleProofCircuit: 32 in the code
  ZKRequests,    \* requests to prove, records with the fields of the circuits' inputs
  MaxKeys,       \* bound on the key pairs made
  MaxBoots       \* bound on starts of the process

ASSUME ZKAssumption ==
  /\ MaxKeys \in Nat
  /\ \A req \in ZKRequests :
       req.type \in {"hash_preimage", "content_ownership", "fingerprint_verify", "merkle_proof"}

VARIABLES
  proverKeys,    \* Prover.keys: proof type -> key pair, 0 for none
  verifierKeys,  \* Verifier.verifyingKeys: proof type -> key pair, 0 for none
  proofCache,    \* Service.cache: proof hash -> proof, NoProof for none
  initStep,      \* progress of Initialize: <<index of the type, "setup" or "sync">>
  proving,       \* prover -> its request, NoRequest when idle
  keysMade,      \* key pairs made so far, by any process
  zkBoots        \* starts of the process

zkVars == <<proverKeys, verifierKeys, proofCache, initStep, proving, keysMade, zkBoots>>

\* the types in the order of Initialize; SelectiveDisclosure is in none of its loops
ProofTypes == <<"hash_preimage", "content_ownership", "fingerprint_verify", "merkle_proof">>
TypeNames == {ProofTypes[i] : i \in DOMAIN ProofTypes}

NoProof == [type |-> "none", key |-> 0]
NoRequest == [type |-> "none"]

----------------------------------------------------------------------------
(* The circuits *)

WeightedSum(s, weight(_)) == MapThenSumSet(LAMBDA i : s[i] * weight(i), DOMAIN s)

\* the i-th chunk as a big-endian number; short chunks are not padded by the prover
ChunkValue(data, i) ==
  LET part == SubSeq(data, (i - 1) * ChunkSize + 1, IF i * ChunkSize < Len(data) THEN i * ChunkSize ELSE Len(data))
      value[n \in 0..Len(part)] == IF n = 0 THEN 0 ELSE value[n - 1] * ByteBase + part[n]
  IN  value[Len(part)]

ChunksOf(data) == [i \in 1..Chunks |-> ChunkValue(data, i)]

Position(i) == i

HashPreimageCircuit(preimage, hash) == WeightedSum(ChunksOf(preimage), Position) % Prime = hash % Prime

\* what the service passes as the hash: bytes, not chunks, times their position
computeSimpleHash(data) == WeightedSum(data, Position)

\* TRUE or FALSE as the commitment happens to equal the SHA-256 of the service
ContentOwnershipCircuit(content, owner, time, commitment) ==
  (WeightedSum(ChunksOf(content), Position) + 2 * owner + 3 * time) % Prime = commitment

\* no value of the linear commitment: a SHA-256 of the same fields is unrelated to it
computePublicHash == -1

FingerprintVerificationCircuit(stat, semantic, model, registered) ==
  (WeightedSum(stat, Position) + WeightedSum(semantic, LAMBDA i : i + 9) + 100 * model) % Prime = registered

ParentValue(current, sibling, index) == IF index = 1 THEN sibling + 2 * current ELSE current + 2 * sibling

MerkleRoot(leaf, path, index, skipped) ==
  LET up[i \in 0..Levels] ==
        IF i = 0 THEN leaf
        ELSE IF i = skipped THEN up[i - 1]
        ELSE IF i > Len(path) THEN ParentValue(up[i - 1], 0, 0)
        ELSE ParentValue(up[i - 1], path[i], index[i])
  IN  up[Levels] % Prime

\* Select keeps the current value at level depth - 1, counted from 0, and at no other
MerkleProofCircuit(leaf, path, index, root) == MerkleRoot(leaf, path, index, Len(path)) = root

(* Whether groth16.Prove finds the witness that the service builds for a   *)
(* request satisfying.                                                     *)
Satisfies(req) ==
  CASE req.type = "hash_preimage" -> HashPreimageCircuit(req.preimage, computeSimpleHash(req.preimage))
    [] req.type = "content_ownership" ->
         ContentOwnershipCircuit(req.content, req.owner, req.time, computePublicHash)
    [] req.type = "fingerprint_verify" ->
         FingerprintVerificationCircuit(req.stat, req.semantic, req.model, req.registered)
    [] req.type = "merkle_proof" -> MerkleProofCircuit(req.leaf, req.path, req.index, req.root)

----------------------------------------------------------------------------
ZKInit ==
  /\ proverKeys = [t \in TypeNames |-> 0]
  /\ verifierKeys = [t \in TypeNames |-> 0]
  /\ proofCache = [h \in ProofHashes |-> NoProof]
  /\ initStep = <<1, "setup">>
  /\ proving = [p \in Provers |-> NoRequest]
  /\ keysMade = 0
  /\ zkBoots = 1

NeedsKeys_Always(t) == TRUE

NeedsKeys(t) == proverKeys[t] = 0

(* Setup: it holds the lock from the check to the assignment, so that it   *)
(* is one step; compiling or the trusted setup may fail.                   *)
Setup(t) ==
  IF NeedsKeys(t)
  THEN /\ keysMade < MaxKeys
       /\ proverKeys' = [proverKeys EXCEPT ![t] = keysMade + 1]
       /\ keysMade' = keysMade + 1
  ELSE UNCHANGED <<proverKeys, keysMade>>

NextType == <<initStep[1] + 1, "setup">>

Initializing(step) == initStep[1] <= Len(ProofTypes) /\ initStep[2] = step

InitializeSetup ==
  /\ Initializing("setup")
  /\ Setup(ProofTypes[initStep[1]])
  /\ initStep' = <<initStep[1], "sync">>
  /\ UNCHANGED <<verifierKeys, proofCache, proving, zkBoots>>

\* the error is logged and the loop continues: the type stays without a verifying key
InitializeFails ==
  /\ Initializing("setup") /\ NeedsKeys(ProofTypes[initStep[1]])
  /\ initStep' = NextType
  /\ UNCHANGED <<proverKeys, verifierKeys, proofCache, proving, keysMade, zkBoots>>

InitializeSync ==
  /\ Initializing("sync")
  /\ LET t == ProofTypes[initStep[1]] IN verifierKeys' = [verifierKeys EXCEPT ![t] = proverKeys[t]]
  /\ initStep' = NextType
  /\ UNCHANGED <<proverKeys, proofCache, proving, keysMade, zkBoots>>

\* Prove...: its call of Setup; when that fails the request does
BeginProof(p, req) ==
  /\ proving[p] = NoRequest
  /\ Setup(req.type)
  /\ proving' = [proving EXCEPT ![p] = req]
  /\ UNCHANGED <<verifierKeys, proofCache, initStep, zkBoots>>

Drop(p) == proving' = [proving EXCEPT ![p] = NoRequest]

(* The rest of Prove..., which takes the keys under the read lock, and     *)
(* cacheProof: a proof replaces one of the same hash.                      *)
EndProof(p, h) ==
  LET req == proving[p] IN
  /\ req # NoRequest /\ Satisfies(req)
  /\ proofCache' = [proofCache EXCEPT ![h] = [type |-> req.type, key |-> proverKeys[req.type]]]
  /\ Drop(p)
  /\ UNCHANGED <<proverKeys, verifierKeys, initStep, keysMade, zkBoots>>

RefuseProof(p) ==
  /\ proving[p] # NoRequest /\ ~Satisfies(proving[p])
  /\ Drop(p)
  /\ UNCHANGED <<proverKeys, verifierKeys, proofCache, initStep, keysMade, zkBoots>>

(* Nothing is persisted: a new process makes new keys.                     *)
RestartService ==
  /\ zkBoots < MaxBoots
  /\ zkBoots' = zkBoots + 1
  /\ proverKeys' = [t \in TypeNames |-> 0]
  /\ verifierKeys' = [t \in TypeNames |-> 0]
  /\ proofCache' = [h \in ProofHashes |-> NoProof]
  /\ initStep' = <<1, "setup">>
  /\ proving' = [p \in Provers |-> NoRequest]
  /\ UNCHANGED keysMade

ZKNext ==
  \/ InitializeSetup \/ InitializeFails \/ InitializeSync \/ RestartService
  \/ \E p \in Provers :
       \/ \E req \in ZKRequests : BeginProof(p, req)
       \/ \E h \in ProofHashes : EndProof(p, h)
       \/ RefuseProof(p)

ZKSpec == ZKInit /\ [][ZKNext]_zkVars

----------------------------------------------------------------------------
(* Verify: an error when there is no key, else whether the keys match.     *)
VerifyProof(proof) ==
  IF verifierKeys[proof.type] = 0 THEN "error"
  ELSE IF verifierKeys[proof.type] = proof.key THEN "valid" ELSE "invalid"

VerifyProofByHash(h) == IF proofCache[h] = NoProof THEN "error" ELSE VerifyProof(proofCache[h])

\* a result for each proof, FALSE where there was an error, and whether there was one
BatchVerify(proofs) ==
  [results |-> [p \in proofs |-> VerifyProof(p) = "valid"], err |-> \E p \in proofs : VerifyProof(p) = "error"]

ExportVerifyingKeys == [t \in {u \in TypeNames : verifierKeys[u] # 0} |-> proverKeys[t]]

----------------------------------------------------------------------------
(* Keys that are made on first use, by whichever goroutine comes first,    *)
(* and copied to the verifier by another (service.go:48-57,                *)
(* prover.go:63): a proof that the service keeps is never refuted, at most *)
(* not answered for want of a key; a batch of them has no FALSE without an *)
(* error; and the keys that the service exports are those it verifies with.*)
KeptProofsHold ==
  /\ \A h \in ProofHashes : VerifyProofByHash(h) # "invalid"
  /\ LET batch == BatchVerify({proofCache[h] : h \in ProofHashes} \ {NoProof})
     IN  ~batch.err => \A p \in DOMAIN batch.results : batch.results[p]
  /\ \A t \in DOMAIN ExportVerifyingKeys : ExportVerifyingKeys[t] = verifierKeys[t]
=============================================================================
