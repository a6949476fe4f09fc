--------------------------- MODULE IncrementalTree ---------------------------
(***************************************************************************)
(* merkle/incremental.go: a Merkle tree that is kept up to date while      *)
(* leaves are appended, with snapshots to restore it from.  The mutex is   *)
(* held for the whole of each operation, so an operation is one step.      *)
(*                                                                         *)
(* updatePath runs up to and including the level of the root and so writes *)
(* one level above it.  When the root is on the last level of the          *)
(* preallocated array that write panics; the path below it is then already *)
(* right, the mutex is released by the deferred Unlock, and a caller that  *)
(* recovers may go on using the tree.                                      *)
(***************************************************************************)
EXTENDS MerkleTree

CONSTANTS
  LeafValues,  (* leaf hashes, as 1-tuples                                 *)
  MaxDepth,    (* config.MaxDepth                                          *)
  MaxBatch     (* bound: leaves of one AppendBatch                         *)

ASSUME IncrementalAssumption ==
  /\ MaxDepth \in Nat \ {0}
  /\ MaxBatch \in Nat

VARIABLES
  tree,      (* levels and leafCount                                       *)
  snapshot,  (* the last snapshot taken; an empty tree before the first    *)
  outcome    (* how the last Append or AppendBatch ended                   *)

treeVars == <<tree, snapshot, outcome>>

maxLeaves == Pow2(MaxDepth)

NewIncrementalTree == [levels |-> [k \in 1 .. MaxDepth + 1 |-> << >>], leafCount |-> 0]

Leaves(t) == At(t.levels, 0)

(* The number of levels of a tree with n leaves.                           *)
currentHeight(n) == IF n = 0 THEN 0 ELSE Rounds(n) + 1

----------------------------------------------------------------------------
(* Write node i of a level, replacing it or appending it.                  *)
Written_AppendOnly(level, i, hash) == IF i < Len(level) THEN level ELSE Append(level, hash)

Written(level, i, hash) ==
  IF i < Len(level) THEN [level EXCEPT ![i + 1] = hash] ELSE Append(level, hash)

(* One round of updatePath: the parent on level + 1 of the node on level   *)
(* that lies above leaf index.                                             *)
ParentWritten(levels, level, index) ==
  LET below  == At(levels, level)
      parent == Above(index, level + 1)
      hash   == hashPair(At(below, 2 * parent), RightOf(below, parent))
  IN  [levels EXCEPT ![level + 2] = Written(@, parent, hash)]

(* The levels updatePath runs over for n leaves, those it can write.       *)
RoundsFor(n) ==
  LET height == currentHeight(n) IN
  IF height > MaxDepth THEN MaxDepth ELSE height

(* Its last round writes past the end of levels.                           *)
Panics(n) == currentHeight(n) > MaxDepth

updatePath(levels, n) ==
  LET upTo[k \in 0 .. RoundsFor(n)] ==
        IF k = 0 THEN levels ELSE ParentWritten(upTo[k - 1], k - 1, n - 1)
  IN  upTo[RoundsFor(n)]

LeafAppended(t, leaf) ==
  LET n == t.leafCount + 1 IN
  [levels |-> updatePath([t.levels EXCEPT ![1] = Append(@, leaf)], n), leafCount |-> n]

(* The tree after appending leaves one by one.  A panic skips the rest.    *)
AppendLeaves(t, leaves) ==
  LET upTo[k \in 0 .. Len(leaves)] ==
        IF k = 0 THEN t
        ELSE LET u == upTo[k - 1]
             IN  IF u.leafCount > t.leafCount /\ Panics(u.leafCount) THEN u ELSE LeafAppended(u, leaves[k])
  IN  upTo[Len(leaves)]

AppendPanics(t, leaves) == leaves # << >> /\ Panics(AppendLeaves(t, leaves).leafCount)

----------------------------------------------------------------------------
(* What the operations that only read return.                              *)

rootLocked(t) == At(At(t.levels, currentHeight(t.leafCount) - 1), 0)

GetIncrementalProof_Omitting(t, index) ==
  GetProof(SubSeq(t.levels, 1, currentHeight(t.leafCount)), index)

(* Unlike tree.go, a missing sibling is replaced by the node itself.       *)
GetIncrementalProof(t, index) ==
  [k \in 1 .. currentHeight(t.leafCount) - 1 |->
     LET i     == Above(index, k - 1)
         level == At(t.levels, k - 1)
     IN  PathNode(level, i, IF Sibling(i) < Len(level) THEN Sibling(i) ELSE i)]

OldTree_Current(t, oldSize) == t

(* The tree that GetConsistencyProof rebuilds for its OldRoot.             *)
OldTree(t, oldSize) == AppendLeaves(NewIncrementalTree, SubSeq(Leaves(t), 1, oldSize))

----------------------------------------------------------------------------
TreeInit ==
  /\ tree = NewIncrementalTree
  /\ snapshot = NewIncrementalTree
  /\ outcome = "ok"

(* AppendBatch; Append(leaf) is the case of one leaf.                      *)
AppendBatch(leaves) ==
  /\ tree.leafCount + Len(leaves) <= maxLeaves
  /\ tree' = AppendLeaves(tree, leaves)
  /\ outcome' = IF AppendPanics(tree, leaves) THEN "panic" ELSE "ok"
  /\ UNCHANGED snapshot

(* "tree capacity exceeded": nothing is appended.                          *)
AppendRefused(leaves) ==
  /\ tree.leafCount + Len(leaves) > maxLeaves
  /\ outcome' = "full"
  /\ UNCHANGED <<tree, snapshot>>

(* Snapshot copies every level.                                            *)
Snapshot ==
  /\ snapshot' = tree
  /\ UNCHANGED <<tree, outcome>>

(* A restarted program goes on from its last snapshot.                     *)
RestoreFromSnapshot ==
  /\ tree' = snapshot
  /\ outcome' = "ok"
  /\ UNCHANGED snapshot

TreeNext ==
  \/ \E leaves \in BoundedSeq(LeafValues, MaxBatch) : AppendBatch(leaves) \/ AppendRefused(leaves)
  \/ Snapshot
  \/ RestoreFromSnapshot

TreeSpec == TreeInit /\ [][TreeNext]_treeVars

----------------------------------------------------------------------------
(* Every level below the root has one node per two nodes of the level      *)
(* beneath it, and the only other node is the one updatePath writes above  *)
(* the root (incremental.go:106).                                          *)
TreeTypeOK ==
  LET n == tree.leafCount
      height == currentHeight(n)
  IN  /\ n \in 0 .. maxLeaves
      /\ Leaves(tree) \in BoundedSeq(LeafValues, maxLeaves)
      /\ Len(Leaves(tree)) = n
      /\ outcome \in {"ok", "panic", "full"}
      /\ \A k \in 1 .. MaxDepth :
           Len(At(tree.levels, k)) =
             CASE k < height -> CeilHalf(Len(At(tree.levels, k - 1)))
               [] k = height /\ n > 0 -> 1
               [] OTHER -> 0

(* The root kept up to date leaf by leaf, over batches, panics and         *)
(* restored snapshots, is the root of the leaves appended so far           *)
(* (incremental.go:103).                                                   *)
RootIsReference ==
  tree.leafCount > 0 => rootLocked(tree) = RootOf(Leaves(tree))

(* NewTree, which certifies the leaves, and the offline verifier, which    *)
(* rebuilds the root of a certificate, agree with the incremental tree     *)
(* (tree.go:52, verifier.go:332).                                          *)
TreesAgree ==
  tree.leafCount > 0 =>
    /\ TreeRoot(buildTree(Leaves(tree))) = rootLocked(tree)
    /\ buildMerkleRoot(Leaves(tree)) = rootLocked(tree)

(* The incremental tree's proof of every leaf verifies against its root    *)
(* (incremental.go:192), and against no other leaf hash.                   *)
ProofsVerify ==
  \A i \in 0 .. tree.leafCount - 1, leaf \in LeafValues :
    VerifyProof(leaf, GetIncrementalProof(tree, i), rootLocked(tree))
      <=> leaf = At(Leaves(tree), i)

(* With the leaves as the certificate roots of a batch: the proof and the  *)
(* index that each item is given verify against the root that is anchored  *)
(* (anchor/batch.go:363), and for no other item.                           *)
BatchProofsVerify ==
  tree.leafCount > 0 =>
    LET nodes == buildBatchMerkleTree(Leaves(tree)) IN
    \A i \in 0 .. tree.leafCount - 1, leaf \in LeafValues :
      VerifyBatchProof(TreeRoot(nodes), leaf, getBatchMerkleProof(nodes, i), i)
        <=> leaf = At(Leaves(tree), i)

(* The OldRoot of a consistency proof for the size of the last snapshot is *)
(* the root the tree had when the snapshot was taken, whatever was         *)
(* appended or restored since (incremental.go:389).  Past half of the      *)
(* capacity, rebuilding the old tree panics and there is no proof.         *)
OldRootIsSnapshotRoot ==
  snapshot.leafCount > 0 /\ ~Panics(snapshot.leafCount) =>
    rootLocked(OldTree(tree, snapshot.leafCount)) = rootLocked(snapshot)

(* An append panics only when the tree has come past half of the capacity  *)
(* it accepts leaves for (incremental.go:125).                             *)
PanicsBeyondHalf ==
  outcome = "panic" => 2 * tree.leafCount > maxLeaves

(* The tree that is kept up to date leaf by leaf has the shape and the root*)
(* that the other three constructions give, and only the later half of its *)
(* capacity is out of reach (incremental.go:103-138).                      *)
RootsAgree == TreeTypeOK /\ RootIsReference /\ TreesAgree /\ PanicsBeyondHalf

(* Proofs of the incremental tree and proofs of a batch of the same leaves *)
(* (incremental.go:192, anchor/batch.go:363).                              *)
AllProofsVerify == ProofsVerify /\ BatchProofsVerify

(* Stated by certs_proof.go:125, "The proof can be verified independently":*)
(* the proof that GenerateProof returns for any event of a certificate     *)
(* verifies.                                                               *)
TreeProofsVerify ==
  tree.leafCount > 0 =>
    LET nodes == buildTree(Leaves(tree)) IN
    \A i \in 0 .. tree.leafCount - 1 :
      VerifyProof(At(Leaves(tree), i), GetProof(nodes, i), TreeRoot(nodes))
=============================================================================
