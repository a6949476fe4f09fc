----------------------------- MODULE MerkleTree -----------------------------
(***************************************************************************)
(* The Merkle trees of the repository as functions on sequences of leaf    *)
(* hashes: merkle/tree.go, which CommitCert and GenerateProof use, the     *)
(* offline verifier (verifier/pkg/verify/verifier.go), and the tree of a   *)
(* batch of anchored roots (anchor/batch.go).                              *)
(*                                                                         *)
(* SHA-256 is taken as injective: the hash of two strings is the pair of   *)
(* them.  A leaf hash is a 1-tuple, so no leaf equals an inner node.       *)
(* Indices count from 0 as in the code; At(s, i) is s[i] there.            *)
(***************************************************************************)
EXTENDS Naturals, Sequences, SequencesExt

hashPair(left, right) == <<left, right>>

At(s, i) == s[i + 1]
Sibling(i) == IF i % 2 = 0 THEN i + 1 ELSE i - 1
Position(i) == IF i % 2 = 1 THEN "left" ELSE "right"
CeilHalf(n) == (n + 1) \div 2

(* An index on its way up, the width of a level over n nodes, and the      *)
(* number of rounds until one node is left.                                *)
Above(i, level) ==
  LET up[l \in Nat] == IF l = 0 THEN i ELSE up[l - 1] \div 2 IN up[level]

Width(n, level) ==
  LET up[l \in Nat] == IF l = 0 THEN n ELSE CeilHalf(up[l - 1]) IN up[level]

Rounds(n) ==
  CHOOSE l \in 0 .. n : Width(n, l) <= 1 /\ \A k \in 0 .. l - 1 : Width(n, k) > 1

----------------------------------------------------------------------------
(* merkle/tree.go.                                                         *)

(* The right child of parent p; a lonely last node stands for its own      *)
(* sibling.                                                                *)
RightOf(level, p) ==
  IF 2 * p + 1 < Len(level) THEN At(level, 2 * p + 1) ELSE At(level, 2 * p)

ParentLevel(level) ==
  [k \in 1 .. CeilHalf(Len(level)) |->
     hashPair(At(level, 2 * (k - 1)), RightOf(level, k - 1))]

LevelAt(leaves, level) ==
  LET up[l \in Nat] == IF l = 0 THEN leaves ELSE ParentLevel(up[l - 1]) IN up[level]

buildTree(leaves) == [l \in 1 .. Rounds(Len(leaves)) + 1 |-> LevelAt(leaves, l - 1)]
TreeRoot(nodes) == At(Last(nodes), 0)

PathNode(level, i, sibling) ==
  [hash |-> At(level, sibling), position |-> Position(i)]

(* The proof path of a leaf: a level whose sibling is missing contributes  *)
(* no node, although buildTree hashed the lonely node with itself.         *)
GetProof(nodes, index) ==
  LET step(level) ==
        LET i == Above(index, level) IN
        IF Sibling(i) < Len(At(nodes, level))
          THEN <<PathNode(At(nodes, level), i, Sibling(i))>>
          ELSE << >>
  IN  FlattenSeq([k \in 1 .. Len(nodes) - 1 |-> step(k - 1)])

Climb(hash, node) ==
  IF node.position = "right" THEN hashPair(hash, node.hash) ELSE hashPair(node.hash, hash)

(* VerifyProof of tree.go, IncrementalProof.Verify and the verifier's      *)
(* verifyMerkleProof are the same loop.                                    *)
VerifyProof(leaf, path, root) ==
  LET upTo[k \in 0 .. Len(path)] == IF k = 0 THEN leaf ELSE Climb(upTo[k - 1], path[k])
  IN  upTo[Len(path)] = root

----------------------------------------------------------------------------
(* verifier/pkg/verify/verifier.go: the root of a certificate, rebuilt.    *)

buildMerkleRoot(leaves) == At(LevelAt(leaves, Rounds(Len(leaves))), 0)

----------------------------------------------------------------------------
(* anchor/batch.go: leaves padded to a power of two, hashes without the    *)
(* algorithm prefix.                                                       *)

batchHash(left, right) == <<left, right, "hex">>

Pow2(n) == LET pow[k \in Nat] == IF k = 0 THEN 1 ELSE 2 * pow[k - 1] IN pow[n]

IsPowerOfTwo(n) == \E k \in 0 .. n : n = Pow2(k)

(* The last leaf again and again, up to the first power of two.            *)
PaddedTo(n) ==
  CHOOSE p \in n .. 2 * n : IsPowerOfTwo(p) /\ \A q \in n .. p - 1 : ~IsPowerOfTwo(q)

Padded(leaves) ==
  [k \in 1 .. PaddedTo(Len(leaves)) |-> IF k <= Len(leaves) THEN leaves[k] ELSE Last(leaves)]

BatchParents(level) ==
  [k \in 1 .. Len(level) \div 2 |-> batchHash(At(level, 2 * k - 2), At(level, 2 * k - 1))]

BatchLevelAt(leaves, level) ==
  LET up[l \in Nat] == IF l = 0 THEN leaves ELSE BatchParents(up[l - 1]) IN up[level]

buildBatchMerkleTree(leaves) ==
  LET padded == Padded(leaves)
  IN  [l \in 1 .. Rounds(Len(padded)) + 1 |-> BatchLevelAt(padded, l - 1)]

(* On the levels of a padded batch the sibling that the code looks for is  *)
(* always there.                                                           *)
getBatchMerkleProof(nodes, index) ==
  [k \in 1 .. Len(nodes) - 1 |-> At(At(nodes, k - 1), Sibling(Above(index, k - 1)))]

(* The side of each step comes from the index, halved on the way up.       *)
VerifyBatchProof(root, leaf, proof, index) ==
  LET upTo[k \in 0 .. Len(proof)] ==
        CASE k = 0 -> leaf
          [] k > 0 /\ Above(index, k - 1) % 2 = 0 -> batchHash(upTo[k - 1], proof[k])
          [] k > 0 /\ Above(index, k - 1) % 2 = 1 -> batchHash(proof[k], upTo[k - 1])
  IN  upTo[Len(proof)] = root

----------------------------------------------------------------------------
(* Reference definition, from the top: the node at height l and position i *)
(* over n leaves has the node to the right of its left child as its right  *)
(* child if that one covers a leaf, and its left child again if not.       *)

NodesAt(leaves, height) ==
  LET places == 0 .. Len(leaves) - 1
      node[l \in Nat] ==
        IF l = 0 THEN [i \in places |-> At(leaves, i)]
        ELSE [i \in places |->
                IF 2 * i \notin places THEN node[l - 1][i]
                ELSE LET right == IF (2 * i + 1) * Pow2(l - 1) < Len(leaves) THEN 2 * i + 1 ELSE 2 * i
                     IN  hashPair(node[l - 1][2 * i], node[l - 1][right])]
  IN  node[height]

(* The height of the tree is the least one whose root covers all leaves.   *)
HeightOf(n) == CHOOSE l \in 0 .. n : Pow2(l) >= n /\ \A k \in 0 .. l - 1 : Pow2(k) < n

RootOf(leaves) == NodesAt(leaves, HeightOf(Len(leaves)))[0]
=============================================================================
