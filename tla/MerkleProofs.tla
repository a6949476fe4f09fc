---------------------------- MODULE MerkleProofs ----------------------------
(***************************************************************************)
(* Proofs about IncrementalTree and CertificateDesk, and through them      *)
(* about the functions of MerkleTree, for any leaves, any depth and any    *)
(* batches, any number of certificates and events, and any page sizes.     *)
(*                                                                         *)
(* The widths of the levels decide everything about the shape: place i of  *)
(* level l has a node exactly if i * Pow2(l) < n (Covers), the rounds end  *)
(* at the first power of two that covers n (RoundsCover), and one leaf     *)
(* more changes the last node of a level at most, the one above the leaf   *)
(* (LevelsGrow). So what updatePath writes is what building the levels     *)
(* again would give (UpdateIs), and every tree the program can hold has    *)
(* the levels of its leaves (Trees), with at most one above its root. The  *)
(* invariant TreeInv says so of the tree and of the last snapshot, whose   *)
(* leaves are the first ones of the tree. A proof is climbed along the     *)
(* nodes above its leaf: hashing is injective, so a climb that starts from *)
(* another leaf leaves that path and never comes back to it (Chained).     *)
(*                                                                         *)
(* Trees of equally many leaves with the same root have the same leaves    *)
(* (TopsTell), which is why the server and the offline verifier agree on a *)
(* changed record. A proof of a certificate passes over a level where its  *)
(* node is alone, and from there on the climb is off the nodes of the tree *)
(* (Off): it verifies exactly if no level is passed over (ProofPasses).    *)
(*                                                                         *)
(* A row a search wants and has not got yet has at least as many newer     *)
(* rows as the pages read hold, or shares its time with another            *)
(* (SearchFits); rows are only ever stored, so that number only grows. A   *)
(* report counts the events first and their types later, and they are no   *)
(* fewer then (ReportFits). What a list of events has stored stays in the  *)
(* table and is refused from then on (ListFits). DeskInv says the three of *)
(* the one list, search or report that is under way.                       *)
(***************************************************************************)
EXTENDS IncrementalTree, CertificateDesk, Induction, FiniteSetTheorems, TLAPS

----------------------------------------------------------------------------
(* Halving.                                                                *)

LEMMA AboveIs ==
  ASSUME NEW i \in Nat
  PROVE  /\ Above(i, 0) = i
         /\ \A l \in Nat : Above(i, l) \in Nat /\ Above(i, l + 1) = Above(i, l) \div 2
<1> DEFINE Here(f) == f = [l \in Nat |-> IF l = 0 THEN i ELSE f[l - 1] \div 2]
<1> DEFINE step == [l \in Nat |-> [m \in Nat |-> m \div 2]]
<1>1. step \in Steps(Nat)
  BY DEF Steps
<1>2. PICK f \in [Nat -> Nat] : f[0] = i /\ \A l \in Nat : f[l + 1] = step[l][f[l]]
  <2> HIDE DEF step
  <2>1. \E f \in [Nat -> Nat] : Iterates(f, i, step)
    BY <1>1, Iterated
  <2>2. QED
    BY <2>1 DEF Iterates
<1>3. Here(f)
  <2>1. ASSUME NEW l \in Nat, l # 0 PROVE f[l] = f[l - 1] \div 2
    <3>1. PICK m \in Nat : m = l - 1 /\ m + 1 = l
      BY <2>1
    <3>2. QED
      BY <1>2, <3>1
  <2>2. QED
    BY <1>2, <2>1
<1>4. \A l : Above(i, l) = (CHOOSE g : Here(g))[l]
  BY DEF Above
<1>5. PICK g : Here(g) /\ \A l : Above(i, l) = g[l]
  <2>1. \E g : Here(g)
    BY <1>3
  <2> HIDE DEF Here
  <2>2. QED
    BY <1>4, <2>1
<1>6. g[0] = i /\ \A l \in Nat : g[l + 1] = g[l] \div 2
  BY <1>5
<1> DEFINE T == {l \in Nat : g[l] \in Nat}
<1>7. Nat \subseteq T
  <2>1. 0 \in T /\ \A l \in Nat : l \in T => l + 1 \in T
    BY <1>6
  <2> HIDE DEF T
  <2>2. QED
    BY <2>1, NatAll
<1>8. QED
  BY <1>5, <1>6, <1>7

LEMMA WidthIs ==
  ASSUME NEW n \in Nat
  PROVE  /\ Width(n, 0) = n
         /\ \A l \in Nat : Width(n, l) \in Nat /\ Width(n, l + 1) = (Width(n, l) + 1) \div 2
<1> DEFINE Here(f) == f = [l \in Nat |-> IF l = 0 THEN n ELSE (f[l - 1] + 1) \div 2]
<1> DEFINE step == [l \in Nat |-> [m \in Nat |-> (m + 1) \div 2]]
<1>1. step \in Steps(Nat)
  BY DEF Steps
<1>2. PICK f \in [Nat -> Nat] : f[0] = n /\ \A l \in Nat : f[l + 1] = step[l][f[l]]
  <2> HIDE DEF step
  <2>1. \E f \in [Nat -> Nat] : Iterates(f, n, step)
    BY <1>1, Iterated
  <2>2. QED
    BY <2>1 DEF Iterates
<1>3. Here(f)
  <2>1. ASSUME NEW l \in Nat, l # 0 PROVE f[l] = (f[l - 1] + 1) \div 2
    <3>1. PICK m \in Nat : m = l - 1 /\ m + 1 = l
      BY <2>1
    <3>2. QED
      BY <1>2, <3>1
  <2>2. QED
    BY <1>2, <2>1
<1>4. \A l : Width(n, l) = (CHOOSE g : Here(g))[l]
  BY DEF Width, CeilHalf
<1>5. PICK g : Here(g) /\ \A l : Width(n, l) = g[l]
  <2>1. \E g : Here(g)
    BY <1>3
  <2> HIDE DEF Here
  <2>2. QED
    BY <1>4, <2>1
<1>6. g[0] = n /\ \A l \in Nat : g[l + 1] = (g[l] + 1) \div 2
  BY <1>5
<1> DEFINE T == {l \in Nat : g[l] \in Nat}
<1>7. Nat \subseteq T
  <2>1. 0 \in T /\ \A l \in Nat : l \in T => l + 1 \in T
    BY <1>6
  <2> HIDE DEF T
  <2>2. QED
    BY <2>1, NatAll
<1>8. QED
  BY <1>5, <1>6, <1>7

LEMMA PowIs ==
  /\ Pow2(0) = 1
  /\ \A l \in Nat : Pow2(l) \in Nat \ {0} /\ Pow2(l + 1) = 2 * Pow2(l)
<1> DEFINE Here(f) == f = [l \in Nat |-> IF l = 0 THEN 1 ELSE 2 * f[l - 1]]
<1> DEFINE step == [l \in Nat |-> [m \in Nat |-> 2 * m]]
<1>1. step \in Steps(Nat)
  BY DEF Steps
<1>2. PICK f \in [Nat -> Nat] : f[0] = 1 /\ \A l \in Nat : f[l + 1] = step[l][f[l]]
  <2> HIDE DEF step
  <2>1. \E f \in [Nat -> Nat] : Iterates(f, 1, step)
    BY <1>1, Iterated
  <2>2. QED
    BY <2>1 DEF Iterates
<1>3. Here(f)
  <2>1. ASSUME NEW l \in Nat, l # 0 PROVE f[l] = 2 * f[l - 1]
    <3>1. PICK m \in Nat : m = l - 1 /\ m + 1 = l
      BY <2>1
    <3>2. QED
      BY <1>2, <3>1
  <2>2. QED
    BY <1>2, <2>1
<1>4. \A l : Pow2(l) = (CHOOSE g : Here(g))[l]
  BY DEF Pow2
<1>5. PICK g : Here(g) /\ \A l : Pow2(l) = g[l]
  <2>1. \E g : Here(g)
    BY <1>3
  <2> HIDE DEF Here
  <2>2. QED
    BY <1>4, <2>1
<1>6. g[0] = 1 /\ \A l \in Nat : g[l + 1] = 2 * g[l]
  BY <1>5
<1> DEFINE T == {l \in Nat : g[l] \in Nat \ {0}}
<1>7. Nat \subseteq T
  <2>1. 0 \in T /\ \A l \in Nat : l \in T => l + 1 \in T
    BY <1>6
  <2> HIDE DEF T
  <2>2. QED
    BY <2>1, NatAll
<1>8. QED
  BY <1>5, <1>6, <1>7

(* A place of a level has a node if a leaf is under it.                    *)
LEMMA Covers ==
  ASSUME NEW n \in Nat, NEW l \in Nat, NEW i \in Nat
  PROVE  i * Pow2(l) < n <=> i < Width(n, l)
<1> DEFINE T == {k \in Nat : \A j \in Nat : j * Pow2(k) < n <=> j < Width(n, k)}
<1>1. 0 \in T
  <2>1. Pow2(0) = 1 /\ Width(n, 0) = n
    BY PowIs, WidthIs
  <2>2. \A j \in Nat : j * 1 = j
    OBVIOUS
  <2>3. QED
    BY <2>1, <2>2
<1>2. ASSUME NEW k \in Nat, k \in T PROVE k + 1 \in T
  <2> SUFFICES ASSUME NEW j \in Nat PROVE j * Pow2(k + 1) < n <=> j < Width(n, k + 1)
    OBVIOUS
  <2>1. PICK p \in Nat : p = Pow2(k) /\ Pow2(k + 1) = 2 * p
    BY PowIs
  <2>2. PICK w \in Nat : w = Width(n, k)
    BY WidthIs
  <2> Width(n, k + 1) = (w + 1) \div 2
    BY <2>2, WidthIs
  <2>3. j * (2 * p) = (2 * j) * p
    OBVIOUS
  <2>4. (2 * j) * p < n <=> 2 * j < w
    BY <1>2, <2>1, <2>2
  <2>5. 2 * j < w <=> j < (w + 1) \div 2
    OBVIOUS
  <2>6. QED
    BY <2>1, <2>2, <2>3, <2>4, <2>5
<1>3. Nat \subseteq T
  <2> HIDE DEF T
  <2> QED
    BY <1>1, <1>2, NatAll
<1>4. QED
  BY <1>3

(* The rounds end.                                                         *)
LEMMA RoundsIs ==
  ASSUME NEW n \in Nat
  PROVE  /\ Rounds(n) \in 0 .. n /\ Width(n, Rounds(n)) <= 1
         /\ \A k \in 0 .. Rounds(n) - 1 : Width(n, k) > 1
<1> DEFINE T == {k \in Nat : Width(n, k) <= 1 \/ Width(n, k) + k <= n}
<1>1. 0 \in T
  BY WidthIs
<1>2. ASSUME NEW k \in Nat, k \in T PROVE k + 1 \in T
  <2>1. PICK w \in Nat : w = Width(n, k) /\ Width(n, k + 1) = (w + 1) \div 2
    <3>1. Width(n, k) \in Nat /\ Width(n, k + 1) = (Width(n, k) + 1) \div 2
      BY WidthIs
    <3>2. QED
      BY <3>1
  <2>2. CASE w <= 1
    <3>1. (w + 1) \div 2 <= 1
      BY <2>2
    <3>2. QED
      BY <2>1, <3>1
  <2>3. CASE w > 1
    <3>1. (w + 1) \div 2 <= w - 1
      BY <2>3
    <3>2. w + k <= n
      BY <1>2, <2>1, <2>3
    <3>3. (w + 1) \div 2 + (k + 1) <= n
      BY <3>1, <3>2
    <3>4. QED
      BY <2>1, <3>3
  <2>4. QED
    BY <2>2, <2>3
<1>3. Nat \subseteq T
  <2> HIDE DEF T
  <2> QED
    BY <1>1, <1>2, NatAll
<1>4. Width(n, n) <= 1
  <2>1. n \in T /\ Width(n, n) \in Nat
    BY <1>3, WidthIs
  <2>2. QED
    BY <2>1
<1>5. PICK D : D = {k \in 0 .. n : Width(n, k) <= 1}
  OBVIOUS
<1> D \subseteq Nat
  BY <1>5
<1>6. PICK r \in D : \A k \in D : r <= k
  <2>1. n \in D
    BY <1>4, <1>5
  <2>2. QED
    BY <2>1, NatLeast
<1>7. r \in 0 .. n /\ Width(n, r) <= 1
  BY <1>5, <1>6
<1>8. ASSUME NEW k \in 0 .. r - 1 PROVE Width(n, k) > 1
  <2>1. k \in 0 .. n /\ k \notin D /\ k \in Nat
    BY <1>6, <1>7
  <2>2. ~(Width(n, k) <= 1) /\ Width(n, k) \in Nat
    BY <1>5, <2>1, WidthIs
  <2>3. QED
    BY <2>2
<1>9. QED
  BY <1>7, <1>8 DEF Rounds

(* One more leaf: the last node of a level is the one above it.            *)
LEMMA WidthOfNext ==
  ASSUME NEW n \in Nat, NEW l \in Nat
  PROVE  Width(n + 1, l) = Above(n, l) + 1
<1> DEFINE T == {k \in Nat : Width(n + 1, k) = Above(n, k) + 1}
<1>1. 0 \in T
  BY WidthIs, AboveIs
<1>2. ASSUME NEW k \in Nat, k \in T PROVE k + 1 \in T
  <2>1. PICK a \in Nat : a = Above(n, k)
    BY AboveIs
  <2>2. Above(n, k + 1) = a \div 2
    BY <2>1, AboveIs
  <2>3. Width(n + 1, k) = a + 1
    BY <1>2, <2>1
  <2>4. Width(n + 1, k + 1) = ((a + 1) + 1) \div 2
    BY <2>3, WidthIs
  <2>5. ((a + 1) + 1) \div 2 = a \div 2 + 1
    OBVIOUS
  <2>6. QED
    BY <2>2, <2>4, <2>5
<1>3. Nat \subseteq T
  <2> HIDE DEF T
  <2> QED
    BY <1>1, <1>2, NatAll
<1>4. QED
  BY <1>3

LEMMA WidthRises ==
  ASSUME NEW n \in Nat, NEW l \in Nat
  PROVE  Width(n, l) = Above(n, l) \/ Width(n, l) = Above(n, l) + 1
<1> DEFINE T == {k \in Nat : Width(n, k) = Above(n, k) \/ Width(n, k) = Above(n, k) + 1}
<1>1. 0 \in T
  BY WidthIs, AboveIs
<1>2. ASSUME NEW k \in Nat, k \in T PROVE k + 1 \in T
  <2>1. PICK a \in Nat : a = Above(n, k)
    BY AboveIs
  <2>2. Above(n, k + 1) = a \div 2
    BY <2>1, AboveIs
  <2>3. PICK w \in Nat : w = Width(n, k)
    BY WidthIs
  <2>4. Width(n, k + 1) = (w + 1) \div 2
    BY <2>3, WidthIs
  <2>5. w = a \/ w = a + 1
    BY <1>2, <2>1, <2>3
  <2>6. (w + 1) \div 2 = a \div 2 \/ (w + 1) \div 2 = a \div 2 + 1
    BY <2>5
  <2>7. QED
    BY <2>2, <2>4, <2>6
<1>3. Nat \subseteq T
  <2> HIDE DEF T
  <2> QED
    BY <1>1, <1>2, NatAll
<1>4. QED
  BY <1>3

LEMMA AboveIsWithin ==
  ASSUME NEW n \in Nat, NEW i \in 0 .. n - 1, NEW l \in Nat
  PROVE  Above(i, l) < Width(n, l)
<1> i \in Nat
  OBVIOUS
<1> DEFINE T == {k \in Nat : Above(i, k) < Width(n, k)}
<1>1. 0 \in T
  BY WidthIs, AboveIs
<1>2. ASSUME NEW k \in Nat, k \in T PROVE k + 1 \in T
  <2>1. PICK a \in Nat : a = Above(i, k)
    BY AboveIs
  <2>2. Above(i, k + 1) = a \div 2
    BY <2>1, AboveIs
  <2>3. PICK w \in Nat : w = Width(n, k)
    BY WidthIs
  <2>4. Width(n, k + 1) = (w + 1) \div 2
    BY <2>3, WidthIs
  <2>5. a < w
    BY <1>2, <2>1, <2>3
  <2>6. a \div 2 < (w + 1) \div 2
    BY <2>5
  <2>7. QED
    BY <2>2, <2>4, <2>6
<1>3. Nat \subseteq T
  <2> HIDE DEF T
  <2> QED
    BY <1>1, <1>2, NatAll
<1>4. QED
  BY <1>3

(* Above the last round there is one node.                                 *)
LEMMA WidthAtTop ==
  ASSUME NEW n \in Nat \ {0}, NEW l \in Nat, l >= Rounds(n)
  PROVE  Width(n, l) = 1
<1>0. \A k \in Nat : Width(n, k) \in Nat /\ 0 < Width(n, k)
  <2> SUFFICES ASSUME NEW k \in Nat PROVE Width(n, k) \in Nat /\ 0 < Width(n, k)
    OBVIOUS
  <2>1. 0 * Pow2(k) < n
    BY PowIs
  <2>2. QED
    BY <2>1, Covers, WidthIs
<1>1. PICK r \in Nat : r = Rounds(n)
  BY RoundsIs
<1> DEFINE T == {k \in Nat : Width(n, r + k) = 1}
<1>2. 0 \in T
  <2>1. Width(n, r) <= 1
    BY <1>1, RoundsIs
  <2>2. r + 0 = r
    OBVIOUS
  <2>3. Width(n, r) = 1
    BY <1>0, <2>1
  <2>4. QED
    BY <2>2, <2>3
<1>3. ASSUME NEW k \in Nat, k \in T PROVE k + 1 \in T
  <2>1. r + (k + 1) = (r + k) + 1 /\ r + k \in Nat
    OBVIOUS
  <2>2. Width(n, (r + k) + 1) = (1 + 1) \div 2
    BY <1>3, <2>1, WidthIs
  <2>3. (1 + 1) \div 2 = 1
    OBVIOUS
  <2>4. QED
    BY <2>1, <2>2, <2>3
<1>4. Nat \subseteq T
  <2> HIDE DEF T
  <2> QED
    BY <1>2, <1>3, NatAll
<1>5. PICK k \in Nat : l = r + k
  <2>1. l - r \in Nat /\ l = r + (l - r)
    BY <1>1
  <2>2. QED
    BY <2>1
<1>6. QED
  BY <1>4, <1>5

LEMMA RoundsRise ==
  ASSUME NEW n \in Nat
  PROVE  Rounds(n) <= Rounds(n + 1)
<1>1. PICK r \in Nat, s \in Nat : r = Rounds(n) /\ s = Rounds(n + 1)
  BY RoundsIs
<1>2. Width(n + 1, s) <= 1
  BY <1>1, RoundsIs
<1>3. Above(n, s) \in Nat /\ Width(n + 1, s) = Above(n, s) + 1
  BY AboveIs, WidthOfNext
<1>4. Width(n, s) <= 1
  BY <1>2, <1>3, WidthRises
<1>5. ~(s < r)
  <2> SUFFICES ASSUME s < r PROVE FALSE
    OBVIOUS
  <2>1. s \in 0 .. r - 1
    OBVIOUS
  <2>2. Width(n, s) > 1 /\ Width(n, s) \in Nat
    BY <1>1, <2>1, RoundsIs, WidthIs
  <2>3. QED
    BY <1>4, <2>2
<1>6. QED
  BY <1>1, <1>5

----------------------------------------------------------------------------
(* Hashes: a set with the leaves and every hash of two of its members.     *)

LeafHashes == LeafValues \cup {<<m>> : m \in Nat}

IsClosed(H) ==
  /\ LeafHashes \subseteq H
  /\ \A x, y \in H : hashPair(x, y) \in H /\ batchHash(x, y) \in H

Grown(H) == H \cup {hashPair(z[1], z[2]) : z \in H \X H} \cup {batchHash(z[1], z[2]) : z \in H \X H}

Grows(g, n) == g[0] = LeafHashes /\ \A k \in 0 .. n - 1 : g[k + 1] = Grown(g[k])

LEMMA HashesExist == \E H : IsClosed(H)
<1> DEFINE T == {n \in Nat : \E g : Grows(g, n)}
<1>1. 0 \in T
  <2>1. PICK g : g = [k \in 0 .. 0 |-> LeafHashes]
    OBVIOUS
  <2>2. Grows(g, 0)
    BY <2>1 DEF Grows
  <2>3. QED
    BY <2>2
<1>2. ASSUME NEW n \in Nat, n \in T PROVE n + 1 \in T
  <2>1. PICK g : Grows(g, n)
    BY <1>2
  <2>2. PICK h : h = [k \in 0 .. n + 1 |-> IF k <= n THEN g[k] ELSE Grown(g[n])]
    OBVIOUS
  <2>3. h[0] = LeafHashes
    BY <2>1, <2>2 DEF Grows
  <2>4. ASSUME NEW k \in 0 .. (n + 1) - 1 PROVE h[k + 1] = Grown(h[k])
    <3>1. CASE k = n
      <4>1. k \in 0 .. n + 1 /\ k <= n /\ k + 1 \in 0 .. n + 1 /\ ~(k + 1 <= n)
        BY <3>1
      <4>2. QED
        BY <2>2, <3>1, <4>1
    <3>2. CASE k # n
      <4>1. k \in 0 .. n + 1 /\ k <= n /\ k + 1 \in 0 .. n + 1 /\ k + 1 <= n /\ k \in 0 .. n - 1
        BY <3>2
      <4>2. h[k + 1] = g[k + 1] /\ h[k] = g[k]
        BY <2>2, <4>1
      <4>3. g[k + 1] = Grown(g[k])
        BY <2>1, <4>1 DEF Grows
      <4>4. QED
        BY <4>2, <4>3
    <3>3. QED
      BY <3>1, <3>2
  <2>5. Grows(h, n + 1)
    BY <2>3, <2>4 DEF Grows
  <2>6. QED
    BY <2>5
<1>3. \A n \in Nat : \E g : Grows(g, n)
  <2>1. Nat \subseteq T
    <3> HIDE DEF T
    <3> QED
      BY <1>1, <1>2, NatAll
  <2>2. QED
    BY <2>1
<1>4. PICK f : f = [n \in Nat |-> CHOOSE g : Grows(g, n)]
  OBVIOUS
<1>5. \A n \in Nat : Grows(f[n], n)
  BY <1>3, <1>4
<1>6. ASSUME NEW n \in Nat, NEW m \in Nat, n <= m PROVE f[m][n] = f[n][n]
  <2> DEFINE U == {k \in Nat : k <= n => f[m][k] = f[n][k]}
  <2>1. 0 \in U
    <3>1. f[m][0] = LeafHashes /\ f[n][0] = LeafHashes
      BY <1>5 DEF Grows
    <3>2. QED
      BY <3>1
  <2>2. ASSUME NEW k \in Nat, k \in U PROVE k + 1 \in U
    <3> SUFFICES ASSUME k + 1 <= n PROVE f[m][k + 1] = f[n][k + 1]
      OBVIOUS
    <3>1. k \in 0 .. n - 1 /\ k \in 0 .. m - 1
      BY <1>6
    <3>2. f[m][k + 1] = Grown(f[m][k]) /\ f[n][k + 1] = Grown(f[n][k])
      BY <1>5, <3>1 DEF Grows
    <3>3. QED
      BY <2>2, <3>2
  <2>3. Nat \subseteq U
    <3> HIDE DEF U
    <3> QED
      BY <2>1, <2>2, NatAll
  <2>4. QED
    BY <2>3
<1>7. PICK H : H = UNION {f[n][n] : n \in Nat}
  OBVIOUS
<1>8. ASSUME NEW n \in Nat PROVE f[n + 1][n + 1] = Grown(f[n][n])
  <2>1. n \in 0 .. (n + 1) - 1
    OBVIOUS
  <2>2. f[n + 1][n + 1] = Grown(f[n + 1][n])
    BY <1>5, <2>1 DEF Grows
  <2>3. f[n + 1][n] = f[n][n]
    BY <1>6
  <2>4. QED
    BY <2>2, <2>3
<1>9. \A n, m \in Nat : n <= m => f[n][n] \subseteq f[m][m]
  <2> SUFFICES ASSUME NEW n \in Nat, NEW m \in Nat, n <= m PROVE f[n][n] \subseteq f[m][m]
    OBVIOUS
  <2> DEFINE U == {k \in Nat : f[n][n] \subseteq f[n + k][n + k]}
  <2>1. 0 \in U
    <3>1. n + 0 = n
      OBVIOUS
    <3>2. QED
      BY <3>1
  <2>2. ASSUME NEW k \in Nat, k \in U PROVE k + 1 \in U
    <3>1. n + (k + 1) = (n + k) + 1 /\ n + k \in Nat
      OBVIOUS
    <3>2. f[(n + k) + 1][(n + k) + 1] = Grown(f[n + k][n + k])
      BY <1>8, <3>1
    <3>3. f[n + k][n + k] \subseteq Grown(f[n + k][n + k])
      BY DEF Grown
    <3>4. QED
      BY <2>2, <3>1, <3>2, <3>3
  <2>3. Nat \subseteq U
    <3> HIDE DEF U
    <3> QED
      BY <2>1, <2>2, NatAll
  <2>4. m - n \in U /\ n + (m - n) = m
    BY <2>3
  <2>5. QED
    BY <2>4
<1>10. LeafHashes \subseteq H
  <2>1. f[0][0] = LeafHashes
    BY <1>5 DEF Grows
  <2>2. QED
    BY <1>7, <2>1
<1>11. ASSUME NEW x \in H, NEW y \in H PROVE hashPair(x, y) \in H /\ batchHash(x, y) \in H
  <2>1. PICK n \in Nat : x \in f[n][n]
    BY <1>7
  <2>2. PICK m \in Nat : y \in f[m][m]
    BY <1>7
  <2>3. PICK k \in Nat : n <= k /\ m <= k
    OBVIOUS
  <2>4. x \in f[k][k] /\ y \in f[k][k]
    BY <1>9, <2>1, <2>2, <2>3
  <2>5. PICK z : z = <<x, y>>
    OBVIOUS
  <2>6. z \in f[k][k] \X f[k][k] /\ z[1] = x /\ z[2] = y
    BY <2>4, <2>5
  <2>7. hashPair(x, y) \in Grown(f[k][k]) /\ batchHash(x, y) \in Grown(f[k][k])
    BY <2>6 DEF Grown
  <2>8. QED
    BY <1>7, <1>8, <2>7
<1>12. IsClosed(H)
  BY <1>10, <1>11 DEF IsClosed
<1>13. QED
  BY <1>12

Hashes == CHOOSE H : IsClosed(H)

LEMMA HashesClosed ==
  /\ LeafValues \subseteq Hashes /\ \A m \in Nat : <<m>> \in Hashes
  /\ \A x, y \in Hashes : hashPair(x, y) \in Hashes /\ batchHash(x, y) \in Hashes
<1>1. IsClosed(Hashes)
  BY HashesExist DEF Hashes
<1>2. QED
  BY <1>1 DEF IsClosed, LeafHashes

----------------------------------------------------------------------------
(* Levels.                                                                 *)

(* v is what one more round makes of u.                                    *)
IsParent(u, v) ==
  /\ v \in Seq(Hashes) /\ Len(v) = (Len(u) + 1) \div 2
  /\ \A p \in 0 .. Len(v) - 1 : At(v, p) = hashPair(At(u, 2 * p), RightOf(u, p))

LEMMA NodesAreHashes ==
  ASSUME NEW u \in Seq(Hashes), NEW i \in Nat, i < Len(u)
  PROVE  At(u, i) \in Hashes
BY DEF At

LEMMA RightIsHash ==
  ASSUME NEW u \in Seq(Hashes), NEW p \in Nat, 2 * p < Len(u)
  PROVE  At(u, 2 * p) \in Hashes /\ RightOf(u, p) \in Hashes
BY NodesAreHashes DEF RightOf

LEMMA ParentIs ==
  ASSUME NEW u \in Seq(Hashes)
  PROVE  IsParent(u, ParentLevel(u))
<1>1. PICK n \in Nat : n = Len(u)
  OBVIOUS
<1>2. PICK m \in Nat : m = (n + 1) \div 2
  OBVIOUS
<1>3. PICK v : v = [k \in 1 .. m |-> hashPair(At(u, 2 * (k - 1)), RightOf(u, k - 1))]
  OBVIOUS
<1>4. v = ParentLevel(u)
  BY <1>1, <1>2, <1>3 DEF ParentLevel, CeilHalf
<1>5. ASSUME NEW k \in 1 .. m PROVE v[k] \in Hashes
  <2>1. PICK p \in Nat : p = k - 1
    OBVIOUS
  <2>2. 2 * p < n
    BY <1>2, <2>1
  <2>3. At(u, 2 * p) \in Hashes /\ RightOf(u, p) \in Hashes
    BY <1>1, <2>2, RightIsHash
  <2>4. v[k] = hashPair(At(u, 2 * p), RightOf(u, p))
    BY <1>3, <2>1
  <2>5. QED
    BY <2>3, <2>4, HashesClosed
<1>6. v \in Seq(Hashes) /\ Len(v) = m
  <2>1. v \in [1 .. m -> Hashes]
    BY <1>3, <1>5
  <2>2. QED
    BY <2>1
<1>7. ASSUME NEW p \in 0 .. m - 1 PROVE At(v, p) = hashPair(At(u, 2 * p), RightOf(u, p))
  <2>1. p + 1 \in 1 .. m /\ (p + 1) - 1 = p
    OBVIOUS
  <2>2. v[p + 1] = hashPair(At(u, 2 * ((p + 1) - 1)), RightOf(u, (p + 1) - 1))
    BY <1>3, <2>1
  <2>3. QED
    BY <2>1, <2>2 DEF At
<1>8. QED
  BY <1>1, <1>2, <1>4, <1>6, <1>7 DEF IsParent

LEMMA LevelIs ==
  ASSUME NEW s \in Seq(Hashes)
  PROVE  /\ LevelAt(s, 0) = s
         /\ \A l \in Nat : /\ LevelAt(s, l) \in Seq(Hashes) /\ Len(LevelAt(s, l)) = Width(Len(s), l)
                           /\ IsParent(LevelAt(s, l), LevelAt(s, l + 1))
<1> DEFINE Here(f) == f = [l \in Nat |-> IF l = 0 THEN s ELSE ParentLevel(f[l - 1])]
<1> DEFINE step == [l \in Nat |-> [u \in Seq(Hashes) |-> ParentLevel(u)]]
<1>0. \A u \in Seq(Hashes) : ParentLevel(u) \in Seq(Hashes)
  BY ParentIs DEF IsParent
<1>1. step \in Steps(Seq(Hashes))
  BY <1>0 DEF Steps
<1>2. PICK f \in [Nat -> Seq(Hashes)] : f[0] = s /\ \A l \in Nat : f[l + 1] = step[l][f[l]]
  <2> HIDE DEF step
  <2>1. \E f \in [Nat -> Seq(Hashes)] : Iterates(f, s, step)
    BY <1>1, Iterated
  <2>2. QED
    BY <2>1 DEF Iterates
<1>3. Here(f)
  <2>1. ASSUME NEW l \in Nat, l # 0 PROVE f[l] = ParentLevel(f[l - 1])
    <3>1. PICK m \in Nat : m = l - 1 /\ m + 1 = l
      BY <2>1
    <3>2. QED
      BY <1>2, <3>1
  <2>2. QED
    BY <1>2, <2>1
<1>4. \A l : LevelAt(s, l) = (CHOOSE g : Here(g))[l]
  BY DEF LevelAt
<1>5. PICK g : Here(g) /\ \A l : LevelAt(s, l) = g[l]
  <2>1. \E g : Here(g)
    BY <1>3
  <2> HIDE DEF Here
  <2>2. QED
    BY <1>4, <2>1
<1>6. g[0] = s /\ \A l \in Nat : g[l + 1] = ParentLevel(g[l])
  BY <1>5
<1> DEFINE T == {l \in Nat : g[l] \in Seq(Hashes) /\ Len(g[l]) = Width(Len(s), l)}
<1>70. PICK n \in Nat : n = Len(s)
  OBVIOUS
<1>7. 0 \in T
  <2>1. Width(Len(s), 0) = Len(s)
    BY <1>70, WidthIs
  <2>2. QED
    BY <1>6, <2>1
<1>8. ASSUME NEW l \in Nat, l \in T PROVE l + 1 \in T
  <2>1. PICK u \in Seq(Hashes) : u = g[l]
    BY <1>8
  <2>2. PICK v : v = g[l + 1] /\ v = ParentLevel(u)
    BY <1>6, <2>1
  <2>3. v \in Seq(Hashes) /\ Len(v) = (Len(u) + 1) \div 2
    BY <2>2, ParentIs DEF IsParent
  <2>4. Width(Len(s), l + 1) = (Width(Len(s), l) + 1) \div 2
    BY <1>70, WidthIs
  <2>5. Len(u) = Width(Len(s), l)
    BY <1>8, <2>1
  <2>6. Len(v) = Width(Len(s), l + 1)
    BY <2>3, <2>4, <2>5
  <2>7. g[l + 1] \in Seq(Hashes) /\ Len(g[l + 1]) = Width(Len(s), l + 1)
    BY <2>2, <2>3, <2>6, Zenon
  <2>8. l + 1 \in Nat
    OBVIOUS
  <2>9. QED
    BY <2>7, <2>8, Zenon
<1>9. Nat \subseteq T
  <2> HIDE DEF T
  <2> QED
    BY <1>7, <1>8, NatAll
<1>10. \A l \in Nat : g[l] \in Seq(Hashes) /\ Len(g[l]) = Width(Len(s), l) /\ IsParent(g[l], g[l + 1])
  <2> SUFFICES ASSUME NEW l \in Nat PROVE IsParent(g[l], g[l + 1])
    BY <1>9
  <2>1. g[l] \in Seq(Hashes) /\ g[l + 1] = ParentLevel(g[l])
    BY <1>6, <1>9
  <2>2. QED
    BY <2>1, ParentIs
<1>11. QED
  BY <1>5, <1>6, <1>10

(* A leaf more leaves the nodes before those above it as they are.         *)
SameUpTo(u, v, a) == \A j \in 0 .. a - 1 : At(v, j) = At(u, j)

LEMMA ParentsSame ==
  ASSUME NEW u \in Seq(Hashes), NEW v \in Seq(Hashes), NEW x, NEW y, IsParent(u, x), IsParent(v, y),
         NEW a \in Nat, a <= Len(u), a <= Len(v), SameUpTo(u, v, a)
  PROVE  SameUpTo(x, y, a \div 2)
<1> SUFFICES ASSUME NEW p \in 0 .. (a \div 2) - 1 PROVE At(y, p) = At(x, p)
  BY DEF SameUpTo
<1>1. 2 * p \in 0 .. a - 1 /\ 2 * p + 1 \in 0 .. a - 1 /\ p \in Nat
  OBVIOUS
<1>2. At(v, 2 * p) = At(u, 2 * p) /\ At(v, 2 * p + 1) = At(u, 2 * p + 1)
  BY <1>1 DEF SameUpTo
<1>3. 2 * p + 1 < Len(u) /\ 2 * p + 1 < Len(v)
  BY <1>1
<1>4. RightOf(u, p) = At(u, 2 * p + 1) /\ RightOf(v, p) = At(v, 2 * p + 1)
  BY <1>3 DEF RightOf
<1>5. p \in 0 .. ((Len(u) + 1) \div 2) - 1 /\ p \in 0 .. ((Len(v) + 1) \div 2) - 1
  BY <1>3
<1>6. At(x, p) = hashPair(At(u, 2 * p), RightOf(u, p))
  BY <1>5 DEF IsParent
<1>7. At(y, p) = hashPair(At(v, 2 * p), RightOf(v, p))
  BY <1>5 DEF IsParent
<1>8. QED
  BY <1>2, <1>4, <1>6, <1>7

LEMMA LevelsGrow ==
  ASSUME NEW s \in Seq(Hashes), NEW x \in Hashes, NEW n \in Nat, n = Len(s), NEW l \in Nat
  PROVE  /\ Append(s, x) \in Seq(Hashes)
         /\ Len(LevelAt(Append(s, x), l)) = Above(n, l) + 1
         /\ Len(LevelAt(s, l)) = Above(n, l) \/ Len(LevelAt(s, l)) = Above(n, l) + 1
         /\ SameUpTo(LevelAt(s, l), LevelAt(Append(s, x), l), Above(n, l))
<1>1. PICK t : t = Append(s, x)
  OBVIOUS
<1> t \in Seq(Hashes) /\ Len(t) = n + 1
  BY <1>1
<1>2. \A k \in Nat : /\ Above(n, k) \in Nat /\ Len(LevelAt(t, k)) = Above(n, k) + 1
                     /\ Len(LevelAt(s, k)) = Above(n, k) \/ Len(LevelAt(s, k)) = Above(n, k) + 1
  <2> SUFFICES ASSUME NEW k \in Nat
               PROVE  /\ Above(n, k) \in Nat /\ Len(LevelAt(t, k)) = Above(n, k) + 1
                      /\ Len(LevelAt(s, k)) = Above(n, k) \/ Len(LevelAt(s, k)) = Above(n, k) + 1
    OBVIOUS
  <2>1. Len(LevelAt(s, k)) = Width(n, k)
    BY LevelIs
  <2>2. Len(LevelAt(t, k)) = Width(n + 1, k)
    BY LevelIs
  <2>3. Width(n + 1, k) = Above(n, k) + 1
    BY WidthOfNext
  <2>4. Width(n, k) = Above(n, k) \/ Width(n, k) = Above(n, k) + 1
    BY WidthRises
  <2>5. Above(n, k) \in Nat
    BY AboveIs
  <2>6. QED
    BY <2>1, <2>2, <2>3, <2>4, <2>5
<1> DEFINE T == {k \in Nat : SameUpTo(LevelAt(s, k), LevelAt(t, k), Above(n, k))}
<1>3. 0 \in T
  <2>1. LevelAt(s, 0) = s /\ LevelAt(t, 0) = t /\ Above(n, 0) = n
    BY LevelIs, AboveIs
  <2>2. SameUpTo(s, t, n)
    BY <1>1 DEF SameUpTo, At
  <2>3. QED
    BY <2>1, <2>2
<1>4. ASSUME NEW k \in Nat, k \in T PROVE k + 1 \in T
  <2>1. PICK u \in Seq(Hashes) : u = LevelAt(s, k)
    BY LevelIs
  <2>2. PICK v \in Seq(Hashes) : v = LevelAt(t, k)
    BY LevelIs
  <2>3. IsParent(u, LevelAt(s, k + 1)) /\ IsParent(v, LevelAt(t, k + 1))
    BY <2>1, <2>2, LevelIs
  <2>4. PICK a \in Nat : a = Above(n, k)
    BY AboveIs
  <2>5. a <= Len(u) /\ a <= Len(v)
    <3>1. Len(v) = a + 1
      BY <1>2, <2>2, <2>4
    <3>2. Len(u) = a \/ Len(u) = a + 1
      BY <1>2, <2>1, <2>4
    <3>3. QED
      BY <3>1, <3>2
  <2>6. SameUpTo(u, v, a)
    BY <1>4, <2>1, <2>2, <2>4
  <2>7. SameUpTo(LevelAt(s, k + 1), LevelAt(t, k + 1), a \div 2)
    BY <2>3, <2>5, <2>6, ParentsSame
  <2>8. Above(n, k + 1) = a \div 2
    BY <2>4, AboveIs
  <2>9. QED
    BY <2>7, <2>8
<1>5. Nat \subseteq T
  <2> HIDE DEF T
  <2> QED
    BY <1>3, <1>4, NatAll
<1>6. QED
  BY <1>1, <1>2, <1>5

(* Writing the last node of a level.                                       *)
LEMMA WrittenIs ==
  ASSUME NEW v \in Seq(Hashes), NEW w \in Seq(Hashes), NEW a \in Nat, Len(w) = a + 1,
         Len(v) = a \/ Len(v) = a + 1, SameUpTo(v, w, a)
  PROVE  Written(v, a, At(w, a)) = w
<1>1. \A j \in 1 .. a : w[j] = v[j]
  <2> SUFFICES ASSUME NEW j \in 1 .. a PROVE w[j] = v[j]
    OBVIOUS
  <2>1. j - 1 \in 0 .. a - 1 /\ (j - 1) + 1 = j
    OBVIOUS
  <2>2. At(w, j - 1) = At(v, j - 1)
    BY <2>1 DEF SameUpTo
  <2>3. QED
    BY <2>1, <2>2 DEF At
<1>2. CASE Len(v) = a
  <2>1. Written(v, a, At(w, a)) = Append(v, w[a + 1])
    BY <1>2 DEF Written, At
  <2>2. PICK z : z = Append(v, w[a + 1])
    OBVIOUS
  <2>3. w[a + 1] \in Hashes
    OBVIOUS
  <2>4. z \in Seq(Hashes) /\ Len(z) = a + 1 /\ z[a + 1] = w[a + 1] /\ \A j \in 1 .. a : z[j] = v[j]
    BY <1>2, <2>2, <2>3
  <2>5. \A j \in 1 .. a + 1 : z[j] = w[j]
    BY <1>1, <2>4
  <2>6. z = w
    BY <2>4, <2>5
  <2>7. QED
    BY <2>1, <2>2, <2>6
<1>3. CASE Len(v) = a + 1
  <2>1. Written(v, a, At(w, a)) = [v EXCEPT ![a + 1] = w[a + 1]]
    BY <1>3 DEF Written, At
  <2>2. PICK z : z = [v EXCEPT ![a + 1] = w[a + 1]]
    OBVIOUS
  <2>3. w[a + 1] \in Hashes
    OBVIOUS
  <2>4. z \in Seq(Hashes) /\ Len(z) = a + 1 /\ z[a + 1] = w[a + 1] /\ \A j \in 1 .. a : z[j] = v[j]
    BY <1>3, <2>2, <2>3
  <2>5. \A j \in 1 .. a + 1 : z[j] = w[j]
    BY <1>1, <2>4
  <2>6. z = w
    BY <2>4, <2>5
  <2>7. QED
    BY <2>1, <2>2, <2>6
<1>4. QED
  BY <1>2, <1>3

----------------------------------------------------------------------------
(* The incremental tree.                                                   *)

(* Level k of a tree of the leaves s: it has levels up to the one above    *)
(* its root.                                                               *)
Kept(s, k) == IF s # << >> /\ k <= currentHeight(Len(s)) THEN LevelAt(s, k) ELSE << >>

Levels == [1 .. MaxDepth + 1 -> Seq(Hashes)]
IsTreeOf(levels, s) == \A k \in 0 .. MaxDepth : levels[k + 1] = Kept(s, k)

LEMMA HeightIs ==
  ASSUME NEW n \in Nat
  PROVE  /\ currentHeight(n) \in Nat
         /\ n > 0 => currentHeight(n) = Rounds(n) + 1 /\ Rounds(n) \in Nat
         /\ currentHeight(n) <= currentHeight(n + 1) /\ currentHeight(n + 1) > 0
<1>1. Rounds(n) \in Nat /\ Rounds(n + 1) \in Nat /\ Rounds(n) <= Rounds(n + 1)
  BY RoundsIs, RoundsRise
<1>2. QED
  BY <1>1 DEF currentHeight

LEMMA KeptFits ==
  ASSUME NEW s \in Seq(Hashes), NEW x \in Hashes, NEW n \in Nat, n = Len(s), NEW k \in Nat
  PROVE  /\ Kept(s, k) \in Seq(Hashes)
         /\ Len(Kept(s, k)) = Above(n, k) \/ Len(Kept(s, k)) = Above(n, k) + 1
         /\ SameUpTo(Kept(s, k), LevelAt(Append(s, x), k), Above(n, k))
<1>1. CASE s # << >> /\ k <= currentHeight(n)
  BY <1>1, LevelsGrow, LevelIs DEF Kept
<1>2. CASE ~(s # << >> /\ k <= currentHeight(n))
  <2>1. Kept(s, k) = << >>
    BY <1>2 DEF Kept
  <2>2. Above(n, k) = 0
    <3>1. CASE n = 0
      <4>1. ~(0 < Width(0, k)) /\ Width(0, k) \in Nat
        <5>1. ~(0 * Pow2(k) < 0)
          BY PowIs
        <5>2. QED
          BY <5>1, Covers, WidthIs
      <4>2. Width(n, k) = Above(n, k) \/ Width(n, k) = Above(n, k) + 1
        BY WidthRises
      <4>3. Above(n, k) \in Nat
        BY AboveIs
      <4>4. QED
        BY <3>1, <4>1, <4>2, <4>3
    <3>2. CASE n # 0
      <4>1. s # << >>
        BY <3>2
      <4>2. currentHeight(n) = Rounds(n) + 1 /\ Rounds(n) \in Nat /\ k > currentHeight(n)
        BY <1>2, <3>2, <4>1, HeightIs
      <4>3. PICK m \in Nat : m + 1 = k /\ m >= Rounds(n)
        <5>1. k - 1 \in Nat /\ (k - 1) + 1 = k /\ k - 1 >= Rounds(n)
          BY <4>2
        <5>2. QED
          BY <5>1
      <4>4. Width(n, m) = 1
        BY <3>2, <4>3, WidthAtTop
      <4>5. PICK a \in Nat : a = Above(n, m)
        BY AboveIs
      <4>6. 1 = a \/ 1 = a + 1
        BY <4>4, <4>5, WidthRises
      <4>7. Above(n, m + 1) = a \div 2
        BY <4>5, AboveIs
      <4>8. a \div 2 = 0
        BY <4>6
      <4>9. QED
        BY <4>3, <4>7, <4>8
    <3>3. QED
      BY <3>1, <3>2
  <2>3. << >> \in Seq(Hashes) /\ Len(<< >>) = 0
    OBVIOUS
  <2>4. QED
    BY <2>1, <2>2, <2>3 DEF SameUpTo
<1>3. QED
  BY <1>1, <1>2

LEMMA UpdateIs ==
  ASSUME NEW levels \in Levels, NEW s \in Seq(Hashes), IsTreeOf(levels, s), NEW x \in Hashes,
         NEW n \in Nat, n = Len(s)
  PROVE  /\ updatePath([levels EXCEPT ![1] = Append(@, x)], n + 1) \in Levels
         /\ IsTreeOf(updatePath([levels EXCEPT ![1] = Append(@, x)], n + 1), Append(s, x))
<1>0. MaxDepth \in Nat \ {0}
  BY IncrementalAssumption DEF IncrementalAssumption
<1>1. PICK t : t = Append(s, x)
  OBVIOUS
<1> t \in Seq(Hashes) /\ Len(t) = n + 1 /\ t # << >>
  BY <1>1
<1>2. PICK R \in Nat : R = RoundsFor(n + 1) /\ R <= MaxDepth
                       /\ \A k \in 0 .. MaxDepth : k <= R <=> k <= currentHeight(n + 1)
  <2>1. currentHeight(n + 1) \in Nat
    BY HeightIs
  <2>2. CASE currentHeight(n + 1) > MaxDepth
    <3>1. RoundsFor(n + 1) = MaxDepth
      BY <2>2 DEF RoundsFor
    <3>2. QED
      BY <1>0, <2>1, <2>2, <3>1
  <2>3. CASE ~(currentHeight(n + 1) > MaxDepth)
    <3>1. RoundsFor(n + 1) = currentHeight(n + 1)
      BY <2>3 DEF RoundsFor
    <3>2. QED
      BY <1>0, <2>1, <2>3, <3>1
  <2>4. QED
    BY <2>2, <2>3
<1>3. PICK lv : lv = [levels EXCEPT ![1] = Append(@, x)]
  OBVIOUS
<1>4. levels[1] = s
  <2>1. Kept(s, 0) = s
    <3>1. LevelAt(s, 0) = s
      BY LevelIs
    <3>2. s = << >> \/ 0 <= currentHeight(Len(s))
      BY HeightIs
    <3>3. QED
      BY <3>1, <3>2 DEF Kept
  <2>2. 0 \in 0 .. MaxDepth /\ 0 + 1 = 1
    BY <1>0
  <2>3. QED
    BY <2>1, <2>2 DEF IsTreeOf
<1>5. lv \in Levels /\ lv[1] = t /\ \A k \in 2 .. MaxDepth + 1 : lv[k] = levels[k]
  BY <1>0, <1>1, <1>3, <1>4 DEF Levels
<1>6. PICK w : w = [k \in 1 .. MaxDepth + 1 |-> LevelAt(t, k - 1)]
  OBVIOUS
<1>7. w \in Levels /\ w[1] = t /\ \A k \in 1 .. MaxDepth + 1 : w[k] = LevelAt(t, k - 1)
  <2>1. \A k \in 1 .. MaxDepth + 1 : k - 1 \in Nat
    BY <1>0
  <2>2. \A k \in 1 .. MaxDepth + 1 : LevelAt(t, k - 1) \in Seq(Hashes)
    BY <2>1, LevelIs
  <2>3. LevelAt(t, 0) = t
    BY LevelIs
  <2>4. 1 \in 1 .. MaxDepth + 1 /\ 1 - 1 = 0
    BY <1>0
  <2>5. QED
    BY <1>6, <2>2, <2>3, <2>4 DEF Levels
<1>8. ASSUME NEW k \in 1 .. MaxDepth
      PROVE  /\ Written(lv[k + 1], Above(n, k), At(w[k + 1], Above(n, k))) = w[k + 1]
             /\ hashPair(At(w[k], 2 * Above(n, k)), RightOf(w[k], Above(n, k))) = At(w[k + 1], Above(n, k))
  <2>1. k \in Nat /\ k \in 0 .. MaxDepth /\ k + 1 \in 2 .. MaxDepth + 1 /\ k + 1 \in 1 .. MaxDepth + 1 /\ k \in 1 .. MaxDepth + 1
        /\ (k + 1) - 1 = k
    BY <1>0
  <2>2. lv[k + 1] = Kept(s, k)
    BY <1>5, <2>1 DEF IsTreeOf
  <2>3. w[k + 1] = LevelAt(t, k)
    BY <1>7, <2>1
  <2>4. PICK a \in Nat : a = Above(n, k)
    BY <2>1, AboveIs
  <2>5. PICK v \in Seq(Hashes) : v = lv[k + 1]
    BY <2>1, <2>2, KeptFits
  <2>6. PICK u \in Seq(Hashes) : u = w[k + 1] /\ Len(u) = a + 1
    <3>1. LevelAt(t, k) \in Seq(Hashes)
      BY <2>1, LevelIs
    <3>2. Len(LevelAt(t, k)) = Above(n, k) + 1
      BY <1>1, <2>1, LevelsGrow
    <3>3. QED
      BY <2>3, <2>4, <3>1, <3>2
  <2>7. (Len(v) = a \/ Len(v) = a + 1) /\ SameUpTo(v, u, a)
    BY <1>1, <2>1, <2>2, <2>3, <2>4, <2>5, <2>6, KeptFits
  <2>8. Written(v, a, At(u, a)) = u
    BY <2>6, <2>7, WrittenIs
  <2>9. PICK m \in Nat : m = k - 1 /\ m + 1 = k
    BY <2>1
  <2>10. w[k] = LevelAt(t, m)
    BY <1>7, <2>1, <2>9
  <2>11. IsParent(w[k], u)
    BY <2>3, <2>6, <2>9, <2>10, LevelIs
  <2>12. hashPair(At(w[k], 2 * a), RightOf(w[k], a)) = At(u, a)
    <3>1. a \in 0 .. Len(u) - 1
      BY <2>6
    <3>2. QED
      BY <2>11, <3>1 DEF IsParent
  <2>13. QED
    BY <2>4, <2>5, <2>6, <2>8, <2>12
<1> DEFINE Upto(j) == [k \in 1 .. MaxDepth + 1 |-> IF k - 1 <= j THEN w[k] ELSE lv[k]]
<1>9. Upto(0) = lv
  <2>1. \A k \in 1 .. MaxDepth + 1 : (IF k - 1 <= 0 THEN w[k] ELSE lv[k]) = lv[k]
    <3> SUFFICES ASSUME NEW k \in 1 .. MaxDepth + 1, k - 1 <= 0 PROVE w[k] = lv[k]
      OBVIOUS
    <3>1. k = 1
      OBVIOUS
    <3>2. QED
      BY <1>5, <1>7, <3>1
  <2>2. lv = [k \in 1 .. MaxDepth + 1 |-> lv[k]]
    BY <1>5 DEF Levels
  <2>3. QED
    BY <2>1, <2>2
<1>10. ASSUME NEW k \in 1 .. R PROVE Upto(k) = ParentWritten(Upto(k - 1), k - 1, n)
  <2>1. k \in 1 .. MaxDepth /\ k + 1 \in 1 .. MaxDepth + 1 /\ k \in 1 .. MaxDepth + 1 /\ k \in Nat
    BY <1>0, <1>2
  <2>2. PICK g : g = Upto(k - 1)
    OBVIOUS
  <2>3. DOMAIN g = 1 .. MaxDepth + 1 /\ g[k] = w[k] /\ g[k + 1] = lv[k + 1]
    <3>1. k - 1 <= k - 1 /\ ~((k + 1) - 1 <= k - 1)
      BY <2>1
    <3>2. QED
      BY <2>1, <2>2, <3>1
  <2>4. (k - 1) + 1 = k /\ (k - 1) + 2 = k + 1
    BY <2>1
  <2>5. At(g, k - 1) = w[k]
    BY <2>3, <2>4 DEF At
  <2>6. ParentWritten(g, k - 1, n) =
          [g EXCEPT ![k + 1] = Written(g[k + 1], Above(n, k), hashPair(At(w[k], 2 * Above(n, k)), RightOf(w[k], Above(n, k))))]
    BY <2>4, <2>5 DEF ParentWritten
  <2>7. ParentWritten(g, k - 1, n) = [g EXCEPT ![k + 1] = w[k + 1]]
    BY <1>8, <2>1, <2>3, <2>6
  <2>8. \A j \in 1 .. MaxDepth + 1 : Upto(k)[j] = IF j = k + 1 THEN w[k + 1] ELSE g[j]
    <3> SUFFICES ASSUME NEW j \in 1 .. MaxDepth + 1 PROVE Upto(k)[j] = IF j = k + 1 THEN w[k + 1] ELSE g[j]
      OBVIOUS
    <3>1. CASE j = k + 1
      <4>1. j - 1 <= k
        BY <3>1, <2>1
      <4>2. QED
        BY <3>1, <4>1
    <3>2. CASE j # k + 1
      <4>1. j - 1 <= k <=> j - 1 <= k - 1
        BY <2>1, <3>2
      <4>2. g[j] = IF j - 1 <= k - 1 THEN w[j] ELSE lv[j]
        BY <2>2
      <4>3. Upto(k)[j] = IF j - 1 <= k THEN w[j] ELSE lv[j]
        OBVIOUS
      <4>4. QED
        BY <3>2, <4>1, <4>2, <4>3
    <3>3. QED
      BY <3>1, <3>2
  <2>9. DOMAIN Upto(k) = 1 .. MaxDepth + 1 /\ Upto(k) = [j \in 1 .. MaxDepth + 1 |-> Upto(k)[j]]
    OBVIOUS
  <2>10. PICK G : G = Upto(k)
    OBVIOUS
  <2>11. DOMAIN G = 1 .. MaxDepth + 1 /\ G = [j \in 1 .. MaxDepth + 1 |-> G[j]]
    BY <2>9, <2>10
  <2>12. \A j \in 1 .. MaxDepth + 1 : G[j] = IF j = k + 1 THEN w[k + 1] ELSE g[j]
    BY <2>8, <2>10
  <2>13. g = [j \in 1 .. MaxDepth + 1 |-> g[j]]
    BY <2>2
  <2> HIDE DEF Upto
  <2>14. G = [g EXCEPT ![k + 1] = w[k + 1]]
    BY <2>11, <2>12, <2>13
  <2>15. QED
    BY <2>2, <2>7, <2>10, <2>14
<1>11. updatePath(lv, n + 1) = Upto(R)
  <2> DEFINE Here(f) == f = [k \in 0 .. R |-> IF k = 0 THEN lv ELSE ParentWritten(f[k - 1], k - 1, n)]
  <2>0. (n + 1) - 1 = n
    OBVIOUS
  <2>1. updatePath(lv, n + 1) = (CHOOSE f : Here(f))[R]
    BY <1>2, <2>0 DEF updatePath
  <2>2. \E f : Here(f)
    <3>1. PICK f : f = [k \in 0 .. R |-> Upto(k)]
      OBVIOUS
    <3>2. \A k \in 0 .. R : f[k] = Upto(k)
      BY <3>1
    <3> HIDE DEF Upto
    <3>3. ASSUME NEW k \in 0 .. R PROVE f[k] = IF k = 0 THEN lv ELSE ParentWritten(f[k - 1], k - 1, n)
      <4>1. CASE k = 0
        BY <1>9, <3>2, <4>1
      <4>2. CASE k # 0
        <5>1. k \in 1 .. R /\ k - 1 \in 0 .. R
          BY <4>2
        <5>2. QED
          BY <1>10, <3>2, <4>2, <5>1
      <4>3. QED
        BY <4>1, <4>2
    <3>4. Here(f)
      <4>1. f = [k \in 0 .. R |-> f[k]]
        BY <3>1
      <4>2. QED
        BY <3>3, <4>1
    <3>5. QED
      BY <3>4
  <2>3. PICK f : Here(f) /\ updatePath(lv, n + 1) = f[R]
    <3> HIDE DEF Here
    <3> QED
      BY <2>1, <2>2
  <2> DEFINE T == {k \in Nat : k <= R => f[k] = Upto(k)}
  <2>4. 0 \in T
    <3> HIDE DEF Upto
    <3>1. f[0] = lv
      BY <2>3
    <3>2. QED
      BY <1>9, <3>1
  <2>5. ASSUME NEW k \in Nat, k \in T PROVE k + 1 \in T
    <3> HIDE DEF Upto
    <3> SUFFICES ASSUME k + 1 <= R PROVE f[k + 1] = Upto(k + 1)
      OBVIOUS
    <3>1. k + 1 \in 0 .. R /\ k + 1 # 0 /\ k + 1 \in 1 .. R /\ (k + 1) - 1 = k
      OBVIOUS
    <3>2. f[k + 1] = ParentWritten(f[k], k, n)
      BY <2>3, <3>1
    <3>3. Upto(k + 1) = ParentWritten(Upto(k), k, n)
      BY <1>10, <3>1
    <3>4. f[k] = Upto(k)
      BY <2>5
    <3>5. QED
      BY <3>2, <3>3, <3>4
  <2>6. R \in T
    <3>1. Nat \subseteq T
      <4> HIDE DEF T
      <4> QED
        BY <2>4, <2>5, NatAll
    <3> HIDE DEF T
    <3>2. QED
      BY <3>1
  <2> HIDE DEF Upto
  <2>7. f[R] = Upto(R)
    BY <2>6
  <2>8. QED
    BY <2>3, <2>7
<1>12. Upto(R) \in Levels
  BY <1>5, <1>7 DEF Levels
<1>13. ASSUME NEW k \in 0 .. MaxDepth PROVE Upto(R)[k + 1] = Kept(t, k)
  <2>1. k + 1 \in 1 .. MaxDepth + 1 /\ (k + 1) - 1 = k /\ k \in Nat
    BY <1>0
  <2>2. Upto(R)[k + 1] = IF k <= R THEN w[k + 1] ELSE lv[k + 1]
    BY <2>1
  <2> HIDE DEF Upto
  <2>3. CASE k <= R
    BY <1>2, <1>7, <2>1, <2>2, <2>3 DEF Kept
  <2>4. CASE ~(k <= R)
    <3>1. k + 1 \in 2 .. MaxDepth + 1
      BY <1>2, <2>1, <2>4
    <3>2. lv[k + 1] = Kept(s, k)
      BY <1>5, <3>1 DEF IsTreeOf
    <3>3. ~(k <= currentHeight(n + 1)) /\ currentHeight(n) <= currentHeight(n + 1)
      BY <1>2, <2>4, HeightIs
    <3>4. ~(k <= currentHeight(n))
      <4>1. currentHeight(n) \in Nat
        BY HeightIs
      <4>2. currentHeight(n + 1) \in Nat
        <5>1. n + 1 \in Nat
          OBVIOUS
        <5>2. QED
          BY <5>1, HeightIs
      <4>3. QED
        BY <2>1, <3>3, <4>1, <4>2
    <3>5. Kept(s, k) = << >> /\ Kept(t, k) = << >>
      BY <3>3, <3>4 DEF Kept
    <3>6. QED
      BY <2>2, <2>4, <3>2, <3>5
  <2>5. QED
    BY <2>3, <2>4
<1>14. QED
  <2> HIDE DEF Upto
  <2> QED
    BY <1>1, <1>3, <1>11, <1>12, <1>13 DEF IsTreeOf

(* The trees the program can hold: the leaves, and the levels above them.  *)
Trees ==
  {t \in [levels : Levels, leafCount : Nat] :
     /\ t.levels[1] \in Seq(LeafValues) /\ Len(t.levels[1]) = t.leafCount
     /\ IsTreeOf(t.levels, t.levels[1])}

LEMMA LeavesAreHashes ==
  ASSUME NEW s \in Seq(LeafValues)
  PROVE  s \in Seq(Hashes)
BY HashesClosed

LEMMA NewIsTree == NewIncrementalTree \in Trees /\ Leaves(NewIncrementalTree) = << >>
<1>0. MaxDepth \in Nat \ {0}
  BY IncrementalAssumption DEF IncrementalAssumption
<1>1. PICK lv : lv = [k \in 1 .. MaxDepth + 1 |-> << >>]
  OBVIOUS
<1>2. lv \in Levels /\ lv[1] = << >>
  BY <1>0, <1>1 DEF Levels
<1>3. ASSUME NEW k \in 0 .. MaxDepth PROVE lv[k + 1] = Kept(<< >>, k)
  BY <1>0, <1>1 DEF Kept
<1>4. PICK t : t = [levels |-> lv, leafCount |-> 0]
  OBVIOUS
<1>5. t \in Trees
  <2>1. t.levels = lv /\ t.leafCount = 0 /\ t \in [levels : Levels, leafCount : Nat]
    BY <1>2, <1>4
  <2>2. IsTreeOf(lv, << >>)
    BY <1>3 DEF IsTreeOf
  <2>3. << >> \in Seq(LeafValues) /\ Len(<< >>) = 0
    OBVIOUS
  <2>4. QED
    BY <1>2, <2>1, <2>2, <2>3 DEF Trees
<1>6. QED
  BY <1>1, <1>2, <1>4, <1>5 DEF NewIncrementalTree, Leaves, At

LEMMA LeafAppendedIs ==
  ASSUME NEW t \in Trees, NEW leaf \in LeafValues
  PROVE  /\ LeafAppended(t, leaf) \in Trees
         /\ Leaves(LeafAppended(t, leaf)) = Append(Leaves(t), leaf)
         /\ LeafAppended(t, leaf).leafCount = t.leafCount + 1
<1>0. MaxDepth \in Nat \ {0}
  BY IncrementalAssumption DEF IncrementalAssumption
<1>1. PICK s \in Seq(LeafValues) : s = t.levels[1]
  BY DEF Trees
<1>2. PICK n \in Nat : n = t.leafCount
  BY DEF Trees
<1>3. PICK lv \in Levels : lv = t.levels
  BY DEF Trees
<1>4. Len(s) = n /\ IsTreeOf(lv, s)
  BY <1>1, <1>2, <1>3 DEF Trees
<1>5. s \in Seq(Hashes) /\ leaf \in Hashes
  BY LeavesAreHashes, HashesClosed
<1>6. PICK new : new = updatePath([lv EXCEPT ![1] = Append(@, leaf)], n + 1)
  OBVIOUS
<1>7. new \in Levels /\ IsTreeOf(new, Append(s, leaf))
  BY <1>4, <1>5, <1>6, UpdateIs
<1>8. PICK r : r = Append(s, leaf)
  OBVIOUS
<1> r \in Seq(LeafValues) /\ Len(r) = n + 1 /\ r # << >> /\ r \in Seq(Hashes)
  BY <1>4, <1>5, <1>8
<1>9. new[1] = r
  <2>1. 0 \in 0 .. MaxDepth /\ 0 + 1 = 1
    BY <1>0
  <2>2. new[1] = Kept(r, 0)
    BY <1>7, <1>8, <2>1 DEF IsTreeOf
  <2>3. 0 <= currentHeight(Len(r))
    <3>1. currentHeight(n) \in Nat /\ currentHeight(n) <= currentHeight(n + 1) /\ currentHeight(n + 1) > 0
      BY <1>2, HeightIs
    <3>2. n + 1 \in Nat
      OBVIOUS
    <3>3. currentHeight(n + 1) \in Nat
      BY <3>2, HeightIs
    <3>4. QED
      BY <3>3
  <2>4. Kept(r, 0) = LevelAt(r, 0)
    BY <2>3 DEF Kept
  <2>5. LevelAt(r, 0) = r
    BY LevelIs
  <2>6. QED
    BY <2>2, <2>4, <2>5
<1>10. PICK u : u = [levels |-> new, leafCount |-> n + 1]
  OBVIOUS
<1>11. LeafAppended(t, leaf) = u
  BY <1>2, <1>3, <1>6, <1>10 DEF LeafAppended
<1>12. u.levels = new /\ u.leafCount = n + 1 /\ u \in [levels : Levels, leafCount : Nat]
  BY <1>7, <1>10
<1>13. u \in Trees
  BY <1>7, <1>8, <1>9, <1>12 DEF Trees
<1>14. Leaves(u) = r /\ Leaves(t) = s
  BY <1>1, <1>9, <1>12 DEF Leaves, At
<1>15. QED
  BY <1>2, <1>8, <1>11, <1>12, <1>13, <1>14

LEMMA HeightRises ==
  ASSUME NEW n \in Nat, NEW m \in 0 .. n
  PROVE  currentHeight(m) <= currentHeight(n)
<1> m \in Nat
  OBVIOUS
<1> DEFINE T == {k \in Nat : currentHeight(m) <= currentHeight(m + k)}
<1>1. 0 \in T
  <2>1. m + 0 = m
    OBVIOUS
  <2>2. currentHeight(m) \in Nat
    BY HeightIs
  <2>3. QED
    BY <2>1, <2>2
<1>2. ASSUME NEW k \in Nat, k \in T PROVE k + 1 \in T
  <2>1. m + k \in Nat /\ m + (k + 1) = (m + k) + 1
    OBVIOUS
  <2>2. currentHeight(m + k) <= currentHeight((m + k) + 1)
    BY <2>1, HeightIs
  <2>3. currentHeight(m) \in Nat /\ currentHeight(m + k) \in Nat /\ currentHeight((m + k) + 1) \in Nat
    <3>1. (m + k) + 1 \in Nat
      OBVIOUS
    <3>2. QED
      BY <2>1, <3>1, HeightIs
  <2>4. currentHeight(m) <= currentHeight((m + k) + 1)
    BY <1>2, <2>2, <2>3
  <2>5. QED
    BY <2>1, <2>4
<1>3. Nat \subseteq T
  <2> HIDE DEF T
  <2> QED
    BY <1>1, <1>2, NatAll
<1>4. n - m \in T /\ m + (n - m) = n
  BY <1>3
<1>5. QED
  BY <1>4

(* u is t with the first m of leaves appended; all of them, unless the     *)
(* last one made the path overflow.                                        *)
IsAppended(u, t, leaves, m, k) ==
  /\ u \in Trees /\ m \in 0 .. k /\ u.leafCount = t.leafCount + m
  /\ \A j \in 1 .. t.leafCount : Leaves(u)[j] = Leaves(t)[j]
  /\ \A j \in 1 .. m : Leaves(u)[t.leafCount + j] = leaves[j]
  /\ m # k => m > 0 /\ Panics(u.leafCount)

LEMMA TreeLeaves ==
  ASSUME NEW t \in Trees
  PROVE  Leaves(t) \in Seq(LeafValues) /\ Len(Leaves(t)) = t.leafCount /\ t.leafCount \in Nat
BY DEF Trees, Leaves, At

LEMMA AppendLeavesIs ==
  ASSUME NEW t \in Trees, NEW leaves \in Seq(LeafValues)
  PROVE  \E m \in Nat : IsAppended(AppendLeaves(t, leaves), t, leaves, m, Len(leaves))
<1>1. PICK N \in Nat : N = Len(leaves)
  OBVIOUS
<1> DEFINE More(u, k) == IF u.leafCount > t.leafCount /\ Panics(u.leafCount) THEN u ELSE LeafAppended(u, leaves[k])
<1> DEFINE Here(f) == f = [k \in 0 .. N |-> IF k = 0 THEN t ELSE More(f[k - 1], k)]
<1> DEFINE step == [k \in Nat |-> [u \in Trees |-> IF k < N THEN More(u, k + 1) ELSE u]]
<1>2. ASSUME NEW u \in Trees, NEW k \in 1 .. N PROVE More(u, k) \in Trees
  <2>1. leaves[k] \in LeafValues
    BY <1>1
  <2>2. LeafAppended(u, leaves[k]) \in Trees
    BY <2>1, LeafAppendedIs
  <2>3. QED
    BY <2>2
<1>3. step \in Steps(Trees)
  <2> HIDE DEF More
  <2>1. \A k \in Nat : \A u \in Trees : (IF k < N THEN More(u, k + 1) ELSE u) \in Trees
    <3> SUFFICES ASSUME NEW k \in Nat, NEW u \in Trees, k < N PROVE More(u, k + 1) \in Trees
      OBVIOUS
    <3>1. k + 1 \in 1 .. N
      OBVIOUS
    <3>2. QED
      BY <1>2, <3>1
  <2>2. QED
    BY <2>1 DEF Steps
<1>4. PICK f \in [0 .. N -> Trees] : Loops(f, t, step, N)
  <2> HIDE DEF step
  <2>1. QED
    BY <1>3, Looped
<1>5. f[0] = t /\ \A k \in 1 .. N : f[k] = More(f[k - 1], k)
  <2>1. f[0] = t /\ \A k \in 1 .. N : f[k] = step[k - 1][f[k - 1]]
    BY <1>4 DEF Loops
  <2> HIDE DEF More
  <2>2. ASSUME NEW k \in 1 .. N PROVE f[k] = More(f[k - 1], k)
    <3>1. k - 1 \in Nat /\ k - 1 \in 0 .. N /\ k - 1 < N /\ (k - 1) + 1 = k
      OBVIOUS
    <3>2. step[k - 1][f[k - 1]] = More(f[k - 1], k)
      BY <3>1
    <3>3. QED
      BY <2>1, <3>2
  <2>3. QED
    BY <2>1, <2>2
<1>6. Here(f)
  <2> HIDE DEF More
  <2>1. \A k \in 0 .. N : f[k] = IF k = 0 THEN t ELSE More(f[k - 1], k)
    <3> SUFFICES ASSUME NEW k \in 0 .. N, k # 0 PROVE f[k] = More(f[k - 1], k)
      BY <1>5
    <3>1. k \in 1 .. N
      OBVIOUS
    <3>2. QED
      BY <1>5, <3>1
  <2>2. QED
    BY <2>1
<1>7. AppendLeaves(t, leaves) = (CHOOSE g : Here(g))[N]
  BY <1>1 DEF AppendLeaves
<1>8. PICK g : Here(g) /\ AppendLeaves(t, leaves) = g[N]
  <2>1. \E g : Here(g)
    BY <1>6
  <2> HIDE DEF Here
  <2>2. QED
    BY <1>7, <2>1
<1>9. g[0] = t /\ \A k \in 1 .. N : g[k] = More(g[k - 1], k)
  <2> HIDE DEF More
  <2>1. \A k \in 1 .. N : k \in 0 .. N /\ k # 0
    OBVIOUS
  <2>2. QED
    BY <1>8, <2>1
<1> DEFINE T == {k \in Nat : k <= N => \E m \in Nat : IsAppended(g[k], t, leaves, m, k)}
<1>10. 0 \in T
  <2>1. IsAppended(t, t, leaves, 0, 0)
    BY TreeLeaves DEF IsAppended
  <2>2. QED
    BY <1>9, <2>1
<1>11. ASSUME NEW k \in Nat, k \in T PROVE k + 1 \in T
  <2> SUFFICES ASSUME k + 1 <= N PROVE \E m \in Nat : IsAppended(g[k + 1], t, leaves, m, k + 1)
    OBVIOUS
  <2>1. PICK m \in Nat : IsAppended(g[k], t, leaves, m, k)
    BY <1>11
  <2>2. PICK u \in Trees : u = g[k]
    BY <2>1 DEF IsAppended
  <2>3. g[k + 1] = More(u, k + 1)
    <3>1. k + 1 \in 1 .. N /\ (k + 1) - 1 = k
      OBVIOUS
    <3> HIDE DEF More
    <3>2. QED
      BY <1>9, <2>2, <3>1
  <2>4. t.leafCount \in Nat /\ u.leafCount = t.leafCount + m /\ m \in 0 .. k
    BY <2>1, <2>2, TreeLeaves DEF IsAppended
  <2>5. CASE u.leafCount > t.leafCount /\ Panics(u.leafCount)
    <3>1. g[k + 1] = u
      BY <2>3, <2>5
    <3>2. IsAppended(u, t, leaves, m, k + 1)
      BY <2>1, <2>2, <2>4, <2>5 DEF IsAppended
    <3>3. QED
      BY <3>1, <3>2
  <2>6. CASE ~(u.leafCount > t.leafCount /\ Panics(u.leafCount))
    <3>1. leaves[k + 1] \in LeafValues
      BY <1>1
    <3>2. PICK v \in Trees : /\ v = g[k + 1] /\ Leaves(v) = Append(Leaves(u), leaves[k + 1])
                             /\ v.leafCount = u.leafCount + 1
      <4>1. g[k + 1] = LeafAppended(u, leaves[k + 1])
        BY <2>3, <2>6
      <4>2. QED
        BY <3>1, <4>1, LeafAppendedIs
    <3>3. m = k
      BY <2>1, <2>2, <2>4, <2>6 DEF IsAppended
    <3>4. PICK n \in Nat : n = t.leafCount
      BY <2>4
    <3>5. PICK s \in Seq(LeafValues) : s = Leaves(u)
      BY TreeLeaves
    <3>50. Len(s) = n + k
      BY <2>4, <3>3, <3>4, <3>5, TreeLeaves
    <3>6. PICK r \in Seq(LeafValues) : r = Leaves(v) /\ r = Append(s, leaves[k + 1])
      BY <3>2, <3>5, TreeLeaves
    <3>7. \A j \in 1 .. n + k : r[j] = s[j]
      BY <3>1, <3>50, <3>6
    <3>8. r[n + (k + 1)] = leaves[k + 1]
      BY <3>1, <3>50, <3>6
    <3>9. \A j \in 1 .. n : r[j] = Leaves(t)[j]
      <4> SUFFICES ASSUME NEW j \in 1 .. n PROVE r[j] = Leaves(t)[j]
        OBVIOUS
      <4>1. s[j] = Leaves(t)[j]
        BY <2>1, <2>2, <3>4, <3>5 DEF IsAppended
      <4>2. j \in 1 .. n + k
        OBVIOUS
      <4>3. QED
        BY <3>7, <4>1, <4>2
    <3>10. \A j \in 1 .. k + 1 : r[n + j] = leaves[j]
      <4> SUFFICES ASSUME NEW j \in 1 .. k + 1 PROVE r[n + j] = leaves[j]
        OBVIOUS
      <4>1. CASE j = k + 1
        BY <3>8, <4>1
      <4>2. CASE j # k + 1
        <5>1. j \in 1 .. m /\ n + j \in 1 .. n + k
          BY <3>3, <4>2
        <5>2. s[n + j] = leaves[j]
          BY <2>1, <2>2, <3>4, <3>5, <5>1 DEF IsAppended
        <5>3. QED
          BY <3>7, <5>1, <5>2
      <4>3. QED
        BY <4>1, <4>2
    <3>11. v.leafCount = n + (k + 1)
      BY <2>4, <3>2, <3>3, <3>4
    <3>12. k + 1 \in 0 .. k + 1
      OBVIOUS
    <3>13. IsAppended(v, t, leaves, k + 1, k + 1)
      BY <3>4, <3>6, <3>9, <3>10, <3>11, <3>12 DEF IsAppended
    <3>14. QED
      BY <3>2, <3>13
  <2>7. QED
    BY <2>5, <2>6
<1>12. Nat \subseteq T
  <2> HIDE DEF T
  <2> QED
    BY <1>10, <1>11, NatAll
<1>13. \E m \in Nat : IsAppended(g[N], t, leaves, m, N)
  BY <1>12
<1>14. QED
  BY <1>1, <1>8, <1>13

----------------------------------------------------------------------------
(* What every sequence of appends, snapshots and restores keeps.           *)
IsLeading(s, r) == Len(s) <= Len(r) /\ \A j \in 1 .. Len(s) : r[j] = s[j]

TreeInv ==
  /\ tree \in Trees /\ tree.leafCount <= maxLeaves
  /\ snapshot \in Trees /\ snapshot.leafCount <= maxLeaves
  /\ IsLeading(Leaves(snapshot), Leaves(tree))
  /\ outcome \in {"ok", "panic", "full"}
  /\ outcome = "panic" => Panics(tree.leafCount)

LEMMA BatchIsSeq ==
  ASSUME NEW leaves \in BoundedSeq(LeafValues, MaxBatch)
  PROVE  leaves \in Seq(LeafValues)
BY IncrementalAssumption DEF BoundedSeq, SeqOf, IncrementalAssumption

LEMMA TreeInvHolds == TreeSpec => []TreeInv
<1>1. ASSUME TreeInit PROVE TreeInv
  <2>1. PICK e : e = NewIncrementalTree
    OBVIOUS
  <2>2. e \in Trees /\ Leaves(e) = << >> /\ e.leafCount = 0
    BY <2>1, NewIsTree DEF NewIncrementalTree
  <2>3. 0 <= maxLeaves
    BY PowIs, IncrementalAssumption DEF maxLeaves, IncrementalAssumption
  <2>4. IsLeading(<< >>, << >>)
    BY DEF IsLeading
  <2>5. QED
    BY <1>1, <2>1, <2>2, <2>3, <2>4 DEF TreeInit, TreeInv
<1>2. ASSUME TreeInv, NEW leaves \in BoundedSeq(LeafValues, MaxBatch), AppendBatch(leaves)
      PROVE  TreeInv'
  <2>1. leaves \in Seq(LeafValues)
    BY BatchIsSeq
  <2>2. tree \in Trees /\ snapshot \in Trees /\ snapshot.leafCount <= maxLeaves /\ IsLeading(Leaves(snapshot), Leaves(tree))
    BY <1>2 DEF TreeInv
  <2>3. PICK u : u = AppendLeaves(tree, leaves)
    OBVIOUS
  <2>4. PICK m \in Nat : IsAppended(u, tree, leaves, m, Len(leaves))
    BY <2>1, <2>2, <2>3, AppendLeavesIs
  <2>5. tree' = u /\ snapshot' = snapshot /\ tree.leafCount + Len(leaves) <= maxLeaves
        /\ outcome' = IF AppendPanics(tree, leaves) THEN "panic" ELSE "ok"
    BY <1>2, <2>3 DEF AppendBatch
  <2>6. u \in Trees /\ m <= Len(leaves) /\ u.leafCount = tree.leafCount + m
    BY <2>1, <2>4 DEF IsAppended
  <2>7. u.leafCount <= maxLeaves
    <3>1. tree.leafCount \in Nat
      BY <2>2, TreeLeaves
    <3>2. maxLeaves \in Nat
      BY PowIs, IncrementalAssumption DEF maxLeaves, IncrementalAssumption
    <3>3. PICK k \in Nat : k = Len(leaves)
      BY <2>1
    <3>4. QED
      BY <2>5, <2>6, <3>1, <3>2, <3>3
  <2>8. IsLeading(Leaves(snapshot), Leaves(u))
    <3>1. PICK s \in Seq(LeafValues) : s = Leaves(snapshot)
      BY <2>2, TreeLeaves
    <3>2. PICK r \in Seq(LeafValues) : r = Leaves(tree) /\ Len(r) = tree.leafCount
      BY <2>2, TreeLeaves
    <3>3. PICK v \in Seq(LeafValues) : v = Leaves(u) /\ Len(v) = u.leafCount
      BY <2>6, TreeLeaves
    <3>4. \A j \in 1 .. Len(r) : v[j] = r[j]
      BY <2>4, <3>2, <3>3 DEF IsAppended
    <3>5. Len(s) <= Len(r) /\ \A j \in 1 .. Len(s) : r[j] = s[j]
      BY <2>2, <3>1, <3>2 DEF IsLeading
    <3>6. Len(r) <= Len(v)
      BY <2>6, <3>2, <3>3
    <3>7. Len(s) <= Len(v) /\ \A j \in 1 .. Len(s) : v[j] = s[j]
      BY <3>4, <3>5, <3>6
    <3>8. QED
      BY <3>1, <3>3, <3>7 DEF IsLeading
  <2>9. outcome' = "panic" => Panics(u.leafCount)
    BY <2>3, <2>5 DEF AppendPanics
  <2>10. outcome' \in {"ok", "panic", "full"}
    BY <2>5
  <2>11. QED
    BY <2>2, <2>5, <2>6, <2>7, <2>8, <2>9, <2>10 DEF TreeInv
<1>3. ASSUME TreeInv, NEW leaves \in BoundedSeq(LeafValues, MaxBatch), AppendRefused(leaves)
      PROVE  TreeInv'
  BY <1>3 DEF TreeInv, AppendRefused
<1>4. ASSUME TreeInv, Snapshot PROVE TreeInv'
  <2>1. IsLeading(Leaves(tree), Leaves(tree))
    <3>1. PICK s \in Seq(LeafValues) : s = Leaves(tree)
      BY <1>4, TreeLeaves DEF TreeInv
    <3>2. QED
      BY <3>1 DEF IsLeading
  <2>2. QED
    BY <1>4, <2>1 DEF TreeInv, Snapshot
<1>5. ASSUME TreeInv, RestoreFromSnapshot PROVE TreeInv'
  <2>1. IsLeading(Leaves(snapshot), Leaves(snapshot))
    <3>1. PICK s \in Seq(LeafValues) : s = Leaves(snapshot)
      BY <1>5, TreeLeaves DEF TreeInv
    <3>2. QED
      BY <3>1 DEF IsLeading
  <2>2. QED
    BY <1>5, <2>1 DEF TreeInv, RestoreFromSnapshot
<1>6. ASSUME TreeInv, UNCHANGED treeVars PROVE TreeInv'
  BY <1>6 DEF TreeInv, treeVars
<1>7. TreeInv /\ [TreeNext]_treeVars => TreeInv'
  BY <1>2, <1>3, <1>4, <1>5, <1>6 DEF TreeNext
<1>8. QED
  BY <1>1, <1>7, PTL DEF TreeSpec

----------------------------------------------------------------------------
(* A tree past half of its capacity.                                       *)
LEMMA PanicsLate ==
  ASSUME NEW n \in Nat, Panics(n)
  PROVE  2 * n > maxLeaves
<1>1. PICK d \in Nat : MaxDepth = d + 1
  <2>1. MaxDepth - 1 \in Nat /\ MaxDepth = (MaxDepth - 1) + 1
    BY IncrementalAssumption DEF IncrementalAssumption
  <2>2. QED
    BY <2>1
<1>2. n # 0 /\ Rounds(n) + 1 > MaxDepth /\ Rounds(n) \in Nat
  BY <1>1, RoundsIs DEF Panics, currentHeight
<1>3. d \in 0 .. Rounds(n) - 1
  BY <1>1, <1>2
<1>4. 1 < Width(n, d)
  <2>1. Width(n, d) > 1 /\ Width(n, d) \in Nat
    BY <1>3, RoundsIs, WidthIs
  <2>2. QED
    BY <2>1
<1>5. 1 * Pow2(d) < n
  BY <1>4, Covers
<1>6. maxLeaves = 2 * Pow2(d) /\ Pow2(d) \in Nat
  BY <1>1, PowIs DEF maxLeaves
<1>7. QED
  BY <1>5, <1>6

(* The rounds are those of the first power of two that covers the leaves.  *)
LEMMA RoundsCover ==
  ASSUME NEW n \in Nat, NEW l \in Nat
  PROVE  Width(n, l) <= 1 <=> Pow2(l) >= n
<1>1. 1 * Pow2(l) < n <=> 1 < Width(n, l)
  BY Covers
<1>2. Pow2(l) \in Nat /\ Width(n, l) \in Nat
  BY PowIs, WidthIs
<1>3. QED
  BY <1>1, <1>2

LEMMA HeightFits ==
  ASSUME NEW n \in Nat, n <= maxLeaves
  PROVE  Rounds(n) \in 0 .. MaxDepth
<1> MaxDepth \in Nat
  BY IncrementalAssumption DEF IncrementalAssumption
<1>1. Width(n, MaxDepth) <= 1
  BY RoundsCover, PowIs DEF maxLeaves
<1>2. Width(n, MaxDepth) \in Nat
  BY WidthIs
<1>20. Rounds(n) \in Nat /\ \A k \in 0 .. Rounds(n) - 1 : Width(n, k) > 1
  BY RoundsIs
<1>3. MaxDepth \notin 0 .. Rounds(n) - 1
  BY <1>1, <1>2, <1>20
<1>4. QED
  BY <1>20, <1>3

(* The root on the way up from the leaves.                                 *)
TopOf(s) == At(LevelAt(s, Rounds(Len(s))), 0)

LEMMA KeptLevel ==
  ASSUME NEW t \in Trees, t.leafCount # 0, t.leafCount <= maxLeaves, NEW k \in 0 .. Rounds(t.leafCount)
  PROVE  At(t.levels, k) = LevelAt(Leaves(t), k)
<1>1. PICK n \in Nat : n = t.leafCount /\ Len(Leaves(t)) = n
  BY TreeLeaves
<1>2. k \in 0 .. MaxDepth /\ k <= currentHeight(n) /\ Rounds(n) \in Nat
  <2>1. Rounds(n) \in 0 .. MaxDepth /\ currentHeight(n) = Rounds(n) + 1
    <3>1. n \in Nat /\ n > 0 /\ n <= maxLeaves
      BY <1>1
    <3>2. Rounds(n) \in 0 .. MaxDepth
      BY <3>1, HeightFits
    <3>3. QED
      BY <3>1, <3>2, HeightIs
  <2>2. QED
    BY <1>1, <2>1, IncrementalAssumption DEF IncrementalAssumption
<1>3. IsTreeOf(t.levels, Leaves(t))
  BY DEF Trees, Leaves, At
<1>4. t.levels[k + 1] = Kept(Leaves(t), k)
  BY <1>2, <1>3 DEF IsTreeOf
<1>5. Leaves(t) # << >>
  BY <1>1
<1>6. QED
  BY <1>1, <1>2, <1>4, <1>5 DEF Kept, At

LEMMA RootIsTop ==
  ASSUME NEW t \in Trees, t.leafCount # 0, t.leafCount <= maxLeaves
  PROVE  rootLocked(t) = TopOf(Leaves(t))
<1>1. PICK n \in Nat : n = t.leafCount /\ Len(Leaves(t)) = n
  BY TreeLeaves
<1>2. currentHeight(n) - 1 = Rounds(n) /\ Rounds(n) \in Nat
  <2>1. n \in Nat /\ n > 0
    BY <1>1
  <2>2. currentHeight(n) = Rounds(n) + 1 /\ Rounds(n) \in Nat
    BY <2>1, HeightIs
  <2>3. QED
    BY <2>2
<1>3. Rounds(n) \in 0 .. Rounds(n)
  BY <1>2
<1>4. At(t.levels, Rounds(n)) = LevelAt(Leaves(t), Rounds(n))
  BY <1>1, <1>3, KeptLevel
<1>5. QED
  BY <1>1, <1>2, <1>4 DEF rootLocked, TopOf

(* The old tree of a consistency proof has the leaves of the snapshot.     *)
LEMMA OldRootIs ==
  ASSUME NEW t \in Trees, NEW o \in Trees, IsLeading(Leaves(o), Leaves(t)),
         o.leafCount # 0, o.leafCount <= maxLeaves, ~Panics(o.leafCount)
  PROVE  rootLocked(OldTree(t, o.leafCount)) = rootLocked(o)
<1>1. PICK s \in Seq(LeafValues) : s = Leaves(o) /\ Len(s) = o.leafCount
  BY TreeLeaves
<1>2. PICK r \in Seq(LeafValues) : r = Leaves(t)
  BY TreeLeaves
<1>3. PICK n \in Nat : n = o.leafCount /\ Len(s) = n
  BY <1>1
<1>4. SubSeq(r, 1, n) = s
  <2>1. Len(s) <= Len(r) /\ \A j \in 1 .. Len(s) : r[j] = s[j]
    BY <1>1, <1>2 DEF IsLeading
  <2>2. QED
    BY <1>3, <2>1
<1>5. PICK e \in Trees : e = NewIncrementalTree /\ e.leafCount = 0
  BY NewIsTree DEF NewIncrementalTree
<1>6. PICK u : u = OldTree(t, n)
  OBVIOUS
<1>7. u = AppendLeaves(e, s)
  BY <1>2, <1>3, <1>4, <1>5, <1>6 DEF OldTree
<1>8. PICK m \in Nat : IsAppended(u, e, s, m, n)
  BY <1>3, <1>5, <1>7, AppendLeavesIs
<1>9. u \in Trees /\ m \in 0 .. n /\ u.leafCount = m
  BY <1>5, <1>8 DEF IsAppended
<1>10. m = n
  <2> SUFFICES ASSUME m # n PROVE FALSE
    OBVIOUS
  <2>1. Panics(m)
    BY <1>8, <1>9 DEF IsAppended
  <2>2. currentHeight(m) <= currentHeight(n) /\ currentHeight(m) \in Nat /\ currentHeight(n) \in Nat
    BY <1>9, HeightRises, HeightIs
  <2>3. MaxDepth \in Nat
    BY IncrementalAssumption DEF IncrementalAssumption
  <2>4. QED
    BY <1>3, <2>1, <2>2, <2>3 DEF Panics
<1>11. Leaves(u) = s
  <2>1. PICK v \in Seq(LeafValues) : v = Leaves(u) /\ Len(v) = n
    BY <1>9, <1>10, TreeLeaves
  <2>2. \A j \in 1 .. n : v[j] = s[j]
    <3> SUFFICES ASSUME NEW j \in 1 .. n PROVE v[j] = s[j]
      OBVIOUS
    <3>1. Leaves(u)[e.leafCount + j] = s[j] /\ 0 + j = j
      BY <1>8, <1>10 DEF IsAppended
    <3>2. QED
      BY <1>5, <2>1, <3>1
  <2>3. v = s
    BY <1>3, <2>1, <2>2
  <2>4. QED
    BY <2>1, <2>3
<1>12. rootLocked(u) = TopOf(Leaves(u))
  BY <1>3, <1>9, <1>10, RootIsTop
<1>13. rootLocked(o) = TopOf(Leaves(o))
  BY RootIsTop
<1>14. QED
  BY <1>1, <1>3, <1>6, <1>11, <1>12, <1>13

(* The root of a consistency proof for the size of the last snapshot is    *)
(* the root the tree had then, whatever was appended or restored since     *)
(* (incremental.go:389).                                                   *)
THEOREM OldRootAlwaysStands == TreeSpec => []OldRootIsSnapshotRoot
<1>1. ASSUME TreeInv PROVE OldRootIsSnapshotRoot
  <2>1. tree \in Trees /\ snapshot \in Trees /\ snapshot.leafCount <= maxLeaves /\ IsLeading(Leaves(snapshot), Leaves(tree))
    BY <1>1 DEF TreeInv
  <2>2. SUFFICES ASSUME snapshot.leafCount > 0, ~Panics(snapshot.leafCount)
                 PROVE  rootLocked(OldTree(tree, snapshot.leafCount)) = rootLocked(snapshot)
    BY DEF OldRootIsSnapshotRoot
  <2>3. snapshot.leafCount # 0
    BY <2>2
  <2>4. QED
    BY <2>1, <2>2, <2>3, OldRootIs
<1>2. QED
  BY <1>1, TreeInvHolds, PTL

----------------------------------------------------------------------------
(* The reference definition, from the top.                                 *)
Right(n, l, i) == IF (2 * i + 1) * Pow2(l) < n THEN 2 * i + 1 ELSE 2 * i

NextNodes(n, l, v) ==
  [i \in 0 .. n - 1 |->
     IF 2 * i \notin 0 .. n - 1 THEN v[i] ELSE hashPair(v[2 * i], v[Right(n, l, i)])]

LEMMA NextNodesAre ==
  ASSUME NEW n \in Nat, NEW l \in Nat, NEW v \in [0 .. n - 1 -> Hashes]
  PROVE  NextNodes(n, l, v) \in [0 .. n - 1 -> Hashes]
<1> SUFFICES ASSUME NEW i \in 0 .. n - 1, 2 * i \in 0 .. n - 1
             PROVE  hashPair(v[2 * i], v[Right(n, l, i)]) \in Hashes
  BY DEF NextNodes
<1>1. Right(n, l, i) \in 0 .. n - 1
  <2>1. CASE (2 * i + 1) * Pow2(l) < n
    <3>1. PICK j \in Nat : j = 2 * i + 1
      OBVIOUS
    <3>2. PICK p \in Nat \ {0} : p = Pow2(l)
      BY PowIs
    <3>3. j * p < n
      BY <2>1, <3>1, <3>2
    <3>4. j <= j * p
      BY <3>2
    <3>5. j < n
      <4>1. PICK q \in Nat : q = j * p
        OBVIOUS
      <4>2. QED
        BY <3>3, <3>4, <4>1
    <3>6. QED
      BY <2>1, <3>1, <3>5 DEF Right
  <2>2. CASE ~((2 * i + 1) * Pow2(l) < n)
    BY <2>2 DEF Right
  <2>3. QED
    BY <2>1, <2>2
<1>2. QED
  BY <1>1, HashesClosed

LEMMA NodesAre ==
  ASSUME NEW s \in Seq(Hashes), NEW n \in Nat, n = Len(s)
  PROVE  /\ \A i \in 0 .. n - 1 : NodesAt(s, 0)[i] = At(s, i)
         /\ \A l \in Nat : NodesAt(s, l + 1) = NextNodes(n, l, NodesAt(s, l))
<1> DEFINE V == [0 .. n - 1 -> Hashes]
<1> DEFINE first == [i \in 0 .. n - 1 |-> At(s, i)]
<1> DEFINE Here(f) == f = [l \in Nat |-> IF l = 0 THEN first ELSE NextNodes(n, l - 1, f[l - 1])]
<1> DEFINE step == [l \in Nat |-> [v \in V |-> NextNodes(n, l, v)]]
<1>1. step \in Steps(V)
  BY NextNodesAre DEF Steps
<1>2. first \in V
  BY NodesAreHashes
<1>3. PICK f \in [Nat -> V] : f[0] = first /\ \A l \in Nat : f[l + 1] = step[l][f[l]]
  <2> HIDE DEF step, first, V
  <2>1. \E f \in [Nat -> V] : Iterates(f, first, step)
    BY <1>1, <1>2, Iterated
  <2>2. QED
    BY <2>1 DEF Iterates
<1>4. Here(f)
  <2> HIDE DEF first, V
  <2>1. ASSUME NEW l \in Nat, l # 0 PROVE f[l] = NextNodes(n, l - 1, f[l - 1])
    <3>1. PICK m \in Nat : m = l - 1 /\ m + 1 = l
      BY <2>1
    <3>2. f[m] \in V
      OBVIOUS
    <3>3. QED
      BY <1>3, <3>1, <3>2
  <2>2. QED
    BY <1>3, <2>1
<1>5. \A l : NodesAt(s, l) = (CHOOSE g : Here(g))[l]
  BY DEF NodesAt, NextNodes, Right
<1>6. PICK g : Here(g) /\ \A l : NodesAt(s, l) = g[l]
  <2>1. \E g : Here(g)
    BY <1>4
  <2> HIDE DEF Here
  <2>2. QED
    BY <1>5, <2>1
<1>7. g[0] = first /\ \A l \in Nat : g[l + 1] = NextNodes(n, l, g[l])
  <2> HIDE DEF first
  <2>1. \A l \in Nat : l + 1 \in Nat /\ l + 1 # 0 /\ (l + 1) - 1 = l
    OBVIOUS
  <2>2. g[0] = first
    BY <1>6
  <2>3. ASSUME NEW l \in Nat PROVE g[l + 1] = NextNodes(n, l, g[l])
    <3>1. PICK m \in Nat : m = l + 1 /\ m # 0 /\ m - 1 = l
      BY <2>1
    <3>2. g[m] = NextNodes(n, m - 1, g[m - 1])
      BY <1>6, <3>1
    <3>3. QED
      BY <3>1, <3>2
  <2>4. QED
    BY <2>2, <2>3
<1>8. QED
  BY <1>6, <1>7

LEMMA WidthIsWithin ==
  ASSUME NEW n \in Nat, NEW l \in Nat
  PROVE  Width(n, l) <= n
<1> DEFINE T == {k \in Nat : Width(n, k) <= n}
<1>1. 0 \in T
  BY WidthIs
<1>2. ASSUME NEW k \in Nat, k \in T PROVE k + 1 \in T
  <2>1. PICK w \in Nat : w = Width(n, k) /\ Width(n, k + 1) = (w + 1) \div 2
    <3>1. Width(n, k) \in Nat /\ Width(n, k + 1) = (Width(n, k) + 1) \div 2
      BY WidthIs
    <3>2. QED
      BY <3>1
  <2>2. (w + 1) \div 2 <= n
    BY <1>2, <2>1
  <2>3. QED
    BY <2>1, <2>2
<1>3. Nat \subseteq T
  <2> HIDE DEF T
  <2> QED
    BY <1>1, <1>2, NatAll
<1>4. QED
  BY <1>3

LEMMA NodesAreLevels ==
  ASSUME NEW s \in Seq(Hashes), NEW l \in Nat
  PROVE  \A i \in Nat : i < Width(Len(s), l) => NodesAt(s, l)[i] = At(LevelAt(s, l), i)
<1>1. PICK n \in Nat : n = Len(s)
  OBVIOUS
<1> DEFINE T == {k \in Nat : \A i \in Nat : i < Width(n, k) => NodesAt(s, k)[i] = At(LevelAt(s, k), i)}
<1>2. 0 \in T
  <2>1. Width(n, 0) = n /\ LevelAt(s, 0) = s
    BY WidthIs, LevelIs
  <2>2. \A i \in 0 .. n - 1 : NodesAt(s, 0)[i] = At(s, i)
    BY <1>1, NodesAre
  <2>3. QED
    BY <2>1, <2>2
<1>3. ASSUME NEW k \in Nat, k \in T PROVE k + 1 \in T
  <2> SUFFICES ASSUME NEW i \in Nat, i < Width(n, k + 1)
               PROVE  NodesAt(s, k + 1)[i] = At(LevelAt(s, k + 1), i)
    OBVIOUS
  <2>1. PICK w \in Nat : w = Width(n, k) /\ Width(n, k + 1) = (w + 1) \div 2
    <3>1. Width(n, k) \in Nat /\ Width(n, k + 1) = (Width(n, k) + 1) \div 2
      BY WidthIs
    <3>2. QED
      BY <3>1
  <2>2. w <= n
    BY <2>1, WidthIsWithin
  <2>3. 2 * i < w
    BY <2>1
  <2>4. i \in 0 .. n - 1 /\ 2 * i \in 0 .. n - 1
    BY <2>2, <2>3
  <2>5. PICK v : v = NodesAt(s, k)
    OBVIOUS
  <2>6. PICK u \in Seq(Hashes) : u = LevelAt(s, k)
    BY LevelIs
  <2>7. Len(u) = w
    BY <1>1, <2>1, <2>6, LevelIs
  <2>8. \A j \in Nat : j < w => v[j] = At(u, j)
    BY <1>3, <2>1, <2>5, <2>6
  <2>9. NodesAt(s, k + 1)[i] = hashPair(v[2 * i], v[Right(n, k, i)])
    <3>1. NodesAt(s, k + 1) = NextNodes(n, k, v)
      BY <1>1, <2>5, NodesAre
    <3>2. QED
      BY <2>4, <3>1 DEF NextNodes
  <2>10. v[2 * i] = At(u, 2 * i)
    <3>1. 2 * i \in Nat
      OBVIOUS
    <3>2. QED
      BY <2>3, <2>8, <3>1
  <2>11. v[Right(n, k, i)] = RightOf(u, i)
    <3>1. PICK j \in Nat : j = 2 * i + 1
      OBVIOUS
    <3>2. j * Pow2(k) < n <=> j < w
      BY <2>1, Covers
    <3>3. CASE j < w
      <4>1. Right(n, k, i) = j /\ RightOf(u, i) = At(u, j)
        BY <2>7, <3>1, <3>2, <3>3 DEF Right, RightOf
      <4>2. QED
        BY <2>8, <3>3, <4>1
    <3>4. CASE ~(j < w)
      <4>1. Right(n, k, i) = 2 * i /\ RightOf(u, i) = At(u, 2 * i)
        BY <2>7, <3>1, <3>2, <3>4 DEF Right, RightOf
      <4>2. QED
        BY <2>10, <4>1
    <3>5. QED
      BY <3>3, <3>4
  <2>12. IsParent(u, LevelAt(s, k + 1))
    BY <2>6, LevelIs
  <2>13. At(LevelAt(s, k + 1), i) = hashPair(At(u, 2 * i), RightOf(u, i))
    <3>1. PICK x : x = LevelAt(s, k + 1)
      OBVIOUS
    <3>2. i \in 0 .. Len(x) - 1
      BY <2>1, <2>7, <2>12, <3>1 DEF IsParent
    <3>3. QED
      BY <2>12, <3>1, <3>2 DEF IsParent
  <2>14. QED
    BY <2>9, <2>10, <2>11, <2>13
<1>4. Nat \subseteq T
  <2> HIDE DEF T
  <2> QED
    BY <1>2, <1>3, NatAll
<1>5. QED
  BY <1>1, <1>4

LEMMA HeightIsRounds ==
  ASSUME NEW n \in Nat
  PROVE  HeightOf(n) = Rounds(n)
<1>1. PICK r \in 0 .. n : r = Rounds(n) /\ Width(n, r) <= 1 /\ \A k \in 0 .. r - 1 : Width(n, k) > 1
  BY RoundsIs
<1>2. \A k \in Nat : Width(n, k) \in Nat /\ Pow2(k) \in Nat
  BY WidthIs, PowIs
<1>3. \A k \in Nat : Width(n, k) <= 1 <=> Pow2(k) >= n
  BY RoundsCover
<1>4. Pow2(r) >= n /\ \A k \in 0 .. r - 1 : Pow2(k) < n
  <2>1. Pow2(r) >= n
    BY <1>1, <1>3
  <2>2. ASSUME NEW k \in 0 .. r - 1 PROVE Pow2(k) < n
    <3>1. k \in Nat /\ Width(n, k) > 1
      BY <1>1
    <3>2. ~(Width(n, k) <= 1)
      BY <1>2, <3>1
    <3>3. QED
      BY <1>2, <1>3, <3>1, <3>2
  <2>3. QED
    BY <2>1, <2>2
<1>5. PICK h \in 0 .. n : h = HeightOf(n) /\ Pow2(h) >= n /\ \A k \in 0 .. h - 1 : Pow2(k) < n
  BY <1>4 DEF HeightOf
<1>6. ~(h < r)
  <2> SUFFICES ASSUME h < r PROVE FALSE
    OBVIOUS
  <2>1. h \in 0 .. r - 1 /\ h \in Nat
    OBVIOUS
  <2>2. Pow2(h) < n /\ Pow2(h) >= n /\ Pow2(h) \in Nat
    BY <1>2, <1>4, <1>5, <2>1
  <2>3. QED
    BY <2>2
<1>7. ~(r < h)
  <2> SUFFICES ASSUME r < h PROVE FALSE
    OBVIOUS
  <2>1. r \in 0 .. h - 1 /\ r \in Nat
    OBVIOUS
  <2>2. Pow2(r) < n /\ Pow2(r) >= n /\ Pow2(r) \in Nat
    BY <1>2, <1>4, <1>5, <2>1
  <2>3. QED
    BY <2>2
<1>8. QED
  BY <1>1, <1>5, <1>6, <1>7

LEMMA TopIsRoot ==
  ASSUME NEW s \in Seq(Hashes), Len(s) # 0
  PROVE  RootOf(s) = TopOf(s)
<1>1. PICK n \in Nat \ {0} : n = Len(s)
  OBVIOUS
<1>2. PICK r \in Nat : r = Rounds(n)
  BY RoundsIs
<1>3. Width(n, r) = 1
  BY <1>2, WidthAtTop
<1>4. HeightOf(n) = r
  BY <1>2, HeightIsRounds
<1>5. NodesAt(s, r)[0] = At(LevelAt(s, r), 0)
  <2>1. 0 \in Nat /\ 0 < Width(Len(s), r)
    BY <1>1, <1>3
  <2>2. QED
    BY <2>1, NodesAreLevels
<1>6. QED
  BY <1>1, <1>2, <1>4, <1>5 DEF RootOf, TopOf

LEMMA BuiltRoots ==
  ASSUME NEW s \in Seq(Hashes)
  PROVE  TreeRoot(buildTree(s)) = TopOf(s) /\ buildMerkleRoot(s) = TopOf(s)
<1>1. PICK r \in Nat : r = Rounds(Len(s))
  <2>1. PICK n \in Nat : n = Len(s)
    OBVIOUS
  <2>2. QED
    BY <2>1, RoundsIs
<1>2. PICK b : b = [l \in 1 .. r + 1 |-> LevelAt(s, l - 1)]
  OBVIOUS
<1>3. b = buildTree(s)
  BY <1>1, <1>2 DEF buildTree
<1>4. Len(b) = r + 1
  BY <1>2
<1>5. r + 1 \in 1 .. r + 1 /\ (r + 1) - 1 = r
  BY <1>1
<1>6. b[r + 1] = LevelAt(s, r)
  BY <1>2, <1>5
<1>7. QED
  BY <1>1, <1>3, <1>4, <1>6 DEF TreeRoot, Last, TopOf, buildMerkleRoot

LEMMA TreeShape ==
  ASSUME TreeInv
  PROVE  TreeTypeOK
<1>0. MaxDepth \in Nat \ {0} /\ maxLeaves \in Nat
  BY PowIs, IncrementalAssumption DEF maxLeaves, IncrementalAssumption
<1>1. PICK t \in Trees : t = tree /\ t.leafCount <= maxLeaves
  BY DEF TreeInv
<1>2. PICK s \in Seq(LeafValues) : s = Leaves(t) /\ Len(s) = t.leafCount
  BY TreeLeaves
<1>3. PICK n \in Nat : n = t.leafCount /\ Len(s) = n
  BY <1>2
<1>4. PICK h \in Nat : h = currentHeight(n)
  BY HeightIs
<1>5. s \in BoundedSeq(LeafValues, maxLeaves)
  <2>1. n \in 0 .. maxLeaves /\ s \in [1 .. n -> LeafValues]
    BY <1>0, <1>1, <1>3
  <2>2. QED
    BY <2>1 DEF BoundedSeq, SeqOf
<1>6. s \in Seq(Hashes)
  BY LeavesAreHashes
<1>7. \A k \in 0 .. MaxDepth : At(t.levels, k) = Kept(s, k)
  BY <1>2 DEF Trees, IsTreeOf, Leaves, At
<1>8. ASSUME NEW k \in 1 .. MaxDepth
      PROVE  Len(At(t.levels, k)) =
               CASE k < h -> CeilHalf(Len(At(t.levels, k - 1)))
                 [] k = h /\ n > 0 -> 1
                 [] OTHER -> 0
  <2>1. k \in Nat /\ k \in 0 .. MaxDepth /\ k - 1 \in 0 .. MaxDepth /\ k - 1 \in Nat /\ (k - 1) + 1 = k
    BY <1>0
  <2>2. At(t.levels, k) = Kept(s, k) /\ At(t.levels, k - 1) = Kept(s, k - 1)
    BY <1>7, <2>1
  <2>3. CASE n = 0
    <3>1. s = << >>
      BY <1>3, <2>3
    <3>2. h = 0
      BY <1>4, <2>3 DEF currentHeight
    <3>3. Kept(s, k) = << >>
      BY <3>1 DEF Kept
    <3>4. QED
      BY <2>1, <2>2, <2>3, <3>2, <3>3
  <2>4. CASE n # 0
    <3>1. s # << >>
      BY <1>3, <2>4
    <3>2. h = Rounds(n) + 1 /\ Rounds(n) \in Nat
      BY <1>4, <2>4, HeightIs
    <3>3. Len(LevelAt(s, k)) = Width(n, k) /\ Len(LevelAt(s, k - 1)) = Width(n, k - 1)
      BY <1>3, <1>6, <2>1, LevelIs
    <3>4. CASE k < h
      <4>1. Kept(s, k) = LevelAt(s, k) /\ Kept(s, k - 1) = LevelAt(s, k - 1)
        BY <1>3, <1>4, <2>1, <3>1, <3>4 DEF Kept
      <4>2. Width(n, k) = (Width(n, k - 1) + 1) \div 2
        BY <2>1, WidthIs
      <4>3. QED
        BY <2>2, <3>3, <3>4, <4>1, <4>2 DEF CeilHalf
    <3>5. CASE k = h
      <4>1. Kept(s, k) = LevelAt(s, k)
        BY <1>3, <1>4, <2>1, <3>1, <3>5 DEF Kept
      <4>2. Width(n, k) = 1
        <5>1. k >= Rounds(n) /\ n \in Nat \ {0}
          BY <2>4, <3>2, <3>5
        <5>2. QED
          BY <2>1, <5>1, WidthAtTop
      <4>3. n > 0 /\ ~(k < h)
        BY <1>4, <2>4, <3>5
      <4>4. QED
        BY <2>2, <3>3, <3>5, <4>1, <4>2, <4>3
    <3>6. CASE k > h
      <4>1. ~(k <= currentHeight(Len(s)))
        BY <1>3, <1>4, <2>1, <3>6
      <4>2. Kept(s, k) = << >>
        BY <4>1 DEF Kept
      <4>3. ~(k < h) /\ k # h
        BY <1>4, <2>1, <3>6
      <4>4. QED
        BY <2>2, <4>2, <4>3
    <3>7. QED
      BY <1>4, <2>1, <3>4, <3>5, <3>6
  <2>5. QED
    BY <2>3, <2>4
<1>9. outcome \in {"ok", "panic", "full"} /\ n \in 0 .. maxLeaves
  BY <1>0, <1>1, <1>3 DEF TreeInv
<1>10. QED
  BY <1>1, <1>2, <1>3, <1>4, <1>5, <1>8, <1>9 DEF TreeTypeOK

(* The tree kept up to date leaf by leaf, over batches, panics and         *)
(* restored snapshots, has the shape and the root of the leaves appended so*)
(* far, which the certificates' tree and the offline verifier rebuild, and *)
(* only the later half of its capacity is out of reach                     *)
(* (incremental.go:103-138).                                               *)
THEOREM RootsAlwaysAgree == TreeSpec => []RootsAgree
<1>1. ASSUME TreeInv PROVE RootsAgree
  <2>1. TreeTypeOK
    BY <1>1, TreeShape
  <2>2. PICK t \in Trees : t = tree /\ t.leafCount <= maxLeaves
    BY <1>1 DEF TreeInv
  <2>3. PICK s \in Seq(LeafValues) : s = Leaves(t) /\ Len(s) = t.leafCount
    BY TreeLeaves
  <2>4. s \in Seq(Hashes)
    BY LeavesAreHashes
  <2>5. t.leafCount > 0 => rootLocked(t) = TopOf(s) /\ RootOf(s) = TopOf(s)
    <3> SUFFICES ASSUME t.leafCount > 0 PROVE rootLocked(t) = TopOf(s) /\ RootOf(s) = TopOf(s)
      OBVIOUS
    <3>1. t.leafCount # 0 /\ Len(s) # 0
      BY <2>3
    <3>2. rootLocked(t) = TopOf(s)
      BY <2>2, <2>3, <3>1, RootIsTop
    <3>3. RootOf(s) = TopOf(s)
      BY <2>4, <3>1, TopIsRoot
    <3>4. QED
      BY <3>2, <3>3
  <2>6. RootIsReference
    BY <2>2, <2>3, <2>5 DEF RootIsReference
  <2>7. TreesAgree
    BY <2>2, <2>3, <2>4, <2>5, BuiltRoots DEF TreesAgree
  <2>8. PanicsBeyondHalf
    <3> SUFFICES ASSUME outcome = "panic" PROVE 2 * t.leafCount > maxLeaves
      BY <2>2 DEF PanicsBeyondHalf
    <3>1. Panics(t.leafCount)
      BY <1>1, <2>2 DEF TreeInv
    <3>2. t.leafCount \in Nat
      BY TreeLeaves
    <3>3. QED
      BY <3>1, <3>2, PanicsLate
  <2>9. QED
    BY <2>1, <2>6, <2>7, <2>8 DEF RootsAgree
<1>2. QED
  BY <1>1, TreeInvHolds, PTL

----------------------------------------------------------------------------
(* Proofs of the incremental tree.                                         *)

LEMMA Chained ==
  ASSUME NEW f, NEW g, NEW N \in Nat, \A k \in 1 .. N : f[k] = g[k] <=> f[k - 1] = g[k - 1]
  PROVE  f[N] = g[N] <=> f[0] = g[0]
<1> DEFINE T == {k \in Nat : k <= N => (f[k] = g[k] <=> f[0] = g[0])}
<1>1. 0 \in T
  OBVIOUS
<1>2. ASSUME NEW k \in Nat, k \in T PROVE k + 1 \in T
  <2> SUFFICES ASSUME k + 1 <= N PROVE f[k + 1] = g[k + 1] <=> f[0] = g[0]
    OBVIOUS
  <2>1. k + 1 \in 1 .. N /\ (k + 1) - 1 = k
    OBVIOUS
  <2>2. f[k + 1] = g[k + 1] <=> f[k] = g[k]
    BY <2>1
  <2>3. f[k] = g[k] <=> f[0] = g[0]
    BY <1>2
  <2>4. QED
    BY <2>2, <2>3
<1>3. Nat \subseteq T
  <2> HIDE DEF T
  <2> QED
    BY <1>1, <1>2, NatAll
<1>4. QED
  BY <1>3

ClimbsTo(f, leaf, path, N) == f[0] = leaf /\ \A k \in 1 .. N : f[k] = Climb(f[k - 1], path[k])

LEMMA VerifyIs ==
  ASSUME NEW leaf \in Hashes, NEW path, NEW N \in Nat, N = Len(path),
         \A k \in 1 .. N : path[k].hash \in Hashes, NEW root
  PROVE  \E f : ClimbsTo(f, leaf, path, N) /\ (VerifyProof(leaf, path, root) <=> f[N] = root)
<1> DEFINE Here(f) == f = [k \in 0 .. N |-> IF k = 0 THEN leaf ELSE Climb(f[k - 1], path[k])]
<1> DEFINE step == [k \in Nat |-> [x \in Hashes |-> IF k < N THEN Climb(x, path[k + 1]) ELSE x]]
<1>1. step \in Steps(Hashes)
  <2>1. \A k \in Nat : \A x \in Hashes : (IF k < N THEN Climb(x, path[k + 1]) ELSE x) \in Hashes
    <3> SUFFICES ASSUME NEW k \in Nat, NEW x \in Hashes, k < N PROVE Climb(x, path[k + 1]) \in Hashes
      OBVIOUS
    <3>1. path[k + 1].hash \in Hashes
      <4>1. k + 1 \in 1 .. N
        OBVIOUS
      <4>2. QED
        BY <4>1
    <3>2. QED
      BY <3>1, HashesClosed DEF Climb
  <2>2. QED
    BY <2>1 DEF Steps
<1>2. PICK f \in [0 .. N -> Hashes] : Loops(f, leaf, step, N)
  <2> HIDE DEF step
  <2>1. QED
    BY <1>1, Looped
<1>3. ClimbsTo(f, leaf, path, N)
  <2>1. f[0] = leaf /\ \A k \in 1 .. N : f[k] = step[k - 1][f[k - 1]]
    BY <1>2 DEF Loops
  <2>2. ASSUME NEW k \in 1 .. N PROVE f[k] = Climb(f[k - 1], path[k])
    <3>1. k - 1 \in Nat /\ k - 1 \in 0 .. N /\ k - 1 < N /\ (k - 1) + 1 = k
      OBVIOUS
    <3>2. step[k - 1][f[k - 1]] = Climb(f[k - 1], path[k])
      BY <3>1
    <3>3. QED
      BY <2>1, <3>2
  <2>3. QED
    BY <2>1, <2>2 DEF ClimbsTo
<1>4. Here(f)
  <2>1. \A k \in 0 .. N : f[k] = IF k = 0 THEN leaf ELSE Climb(f[k - 1], path[k])
    <3> SUFFICES ASSUME NEW k \in 0 .. N, k # 0 PROVE f[k] = Climb(f[k - 1], path[k])
      BY <1>3 DEF ClimbsTo
    <3>1. k \in 1 .. N
      OBVIOUS
    <3>2. QED
      BY <1>3, <3>1 DEF ClimbsTo
  <2>2. QED
    BY <2>1
<1>5. VerifyProof(leaf, path, root) <=> (CHOOSE g : Here(g))[N] = root
  BY DEF VerifyProof
<1>6. PICK g : Here(g) /\ (VerifyProof(leaf, path, root) <=> g[N] = root)
  <2>1. \E g : Here(g)
    BY <1>4
  <2> HIDE DEF Here
  <2>2. QED
    BY <1>5, <2>1
<1>7. ClimbsTo(g, leaf, path, N)
  <2>1. g[0] = leaf
    BY <1>6
  <2>2. \A k \in 1 .. N : k \in 0 .. N /\ k # 0
    OBVIOUS
  <2>3. \A k \in 1 .. N : g[k] = Climb(g[k - 1], path[k])
    BY <1>6, <2>2
  <2>4. QED
    BY <2>1, <2>3 DEF ClimbsTo
<1>8. QED
  BY <1>6, <1>7

(* The sibling, or the node itself where it is the lonely last one.        *)
Beside(u, a) == IF Sibling(a) < Len(u) THEN Sibling(a) ELSE a

LEMMA ClimbIs ==
  ASSUME NEW u \in Seq(Hashes), NEW v, IsParent(u, v), NEW a \in Nat, a < Len(u)
  PROVE  /\ PathNode(u, a, Beside(u, a)).hash \in Hashes
         /\ \A x : Climb(x, PathNode(u, a, Beside(u, a))) = At(v, a \div 2) <=> x = At(u, a)
<1>1. PICK p \in Nat : p = a \div 2
  OBVIOUS
<1>2. At(v, p) = hashPair(At(u, 2 * p), RightOf(u, p))
  <2>1. p \in 0 .. Len(v) - 1
    BY <1>1 DEF IsParent
  <2>2. QED
    BY <2>1 DEF IsParent
<1>3. PICK node : node = PathNode(u, a, Beside(u, a))
  OBVIOUS
<1>4. CASE a % 2 = 0
  <2>1. a = 2 * p
    BY <1>1, <1>4
  <2>2. node.position = "right" /\ node.hash = At(u, Beside(u, a))
    BY <1>3, <1>4 DEF PathNode, Position
  <2>3. At(u, Beside(u, a)) = RightOf(u, p)
    BY <1>4, <2>1 DEF Beside, Sibling, RightOf
  <2>4. RightOf(u, p) \in Hashes
    BY <2>1, RightIsHash
  <2>5. \A x : Climb(x, node) = hashPair(x, RightOf(u, p))
    BY <2>2, <2>3 DEF Climb
  <2>6. \A x : hashPair(x, RightOf(u, p)) = hashPair(At(u, a), RightOf(u, p)) <=> x = At(u, a)
    BY DEF hashPair
  <2>7. At(v, p) = hashPair(At(u, a), RightOf(u, p))
    BY <1>2, <2>1
  <2>8. QED
    BY <1>1, <1>3, <2>2, <2>3, <2>4, <2>5, <2>6, <2>7
<1>5. CASE a % 2 = 1
  <2>1. a = 2 * p + 1
    BY <1>1, <1>5
  <2>2. node.position = "left" /\ node.hash = At(u, Beside(u, a))
    BY <1>3, <1>5 DEF PathNode, Position
  <2>3. Beside(u, a) = 2 * p
    BY <1>5, <2>1 DEF Beside, Sibling
  <2>4. RightOf(u, p) = At(u, a)
    BY <2>1 DEF RightOf
  <2>5. At(u, 2 * p) \in Hashes
    <3>1. 2 * p < Len(u)
      BY <2>1
    <3>2. QED
      BY <3>1, RightIsHash
  <2>6. \A x : Climb(x, node) = hashPair(At(u, 2 * p), x)
    BY <2>2, <2>3 DEF Climb
  <2>7. \A x : hashPair(At(u, 2 * p), x) = hashPair(At(u, 2 * p), At(u, a)) <=> x = At(u, a)
    BY DEF hashPair
  <2>8. QED
    BY <1>1, <1>2, <1>3, <2>2, <2>3, <2>4, <2>5, <2>6, <2>7
<1>6. a % 2 = 0 \/ a % 2 = 1
  OBVIOUS
<1>7. QED
  BY <1>4, <1>5, <1>6

LEMMA ProofIs ==
  ASSUME NEW t \in Trees, t.leafCount <= maxLeaves, NEW i \in 0 .. t.leafCount - 1, NEW leaf \in LeafValues
  PROVE  VerifyProof(leaf, GetIncrementalProof(t, i), rootLocked(t)) <=> leaf = At(Leaves(t), i)
<1>1. PICK n \in Nat \ {0} : n = t.leafCount
  <2>1. t.leafCount \in Nat
    BY TreeLeaves
  <2>2. QED
    BY <2>1
<1>2. PICK s \in Seq(LeafValues) : s = Leaves(t) /\ Len(s) = n
  BY <1>1, TreeLeaves
<1>3. s \in Seq(Hashes) /\ leaf \in Hashes
  BY LeavesAreHashes, HashesClosed
<1>4. PICK R \in Nat : R = Rounds(n) /\ currentHeight(n) - 1 = R
  <2>1. n > 0
    BY <1>1
  <2>2. currentHeight(n) = Rounds(n) + 1 /\ Rounds(n) \in Nat
    BY <2>1, HeightIs
  <2>3. QED
    BY <2>2
<1>5. i \in Nat /\ i \in 0 .. n - 1
  BY <1>1
<1>6. PICK path : path = GetIncrementalProof(t, i)
  OBVIOUS
<1>7. path = [k \in 1 .. R |-> PathNode(At(t.levels, k - 1), Above(i, k - 1), Beside(At(t.levels, k - 1), Above(i, k - 1)))]
  BY <1>1, <1>4, <1>6 DEF GetIncrementalProof, Beside
<1>8. Len(path) = R
  BY <1>7
<1>9. PICK g : g = [k \in 0 .. R |-> At(LevelAt(s, k), Above(i, k))]
  OBVIOUS
<1>10. ASSUME NEW k \in 1 .. R
       PROVE  path[k].hash \in Hashes /\ \A x : Climb(x, path[k]) = g[k] <=> x = g[k - 1]
  <2>1. PICK l \in Nat : l = k - 1 /\ l + 1 = k /\ l \in 0 .. R /\ k \in 0 .. R
    OBVIOUS
  <2>2. PICK u \in Seq(Hashes) : u = LevelAt(s, l)
    BY <1>3, LevelIs
  <2>3. IsParent(u, LevelAt(s, l + 1))
    BY <1>3, <2>2, LevelIs
  <2>4. PICK a \in Nat : a = Above(i, l)
    BY <1>5, AboveIs
  <2>5. a < Len(u)
    <3>1. Len(u) = Width(n, l)
      BY <1>2, <1>3, <2>2, LevelIs
    <3>2. a < Width(n, l)
      BY <1>5, <2>4, AboveIsWithin
    <3>3. QED
      BY <3>1, <3>2
  <2>6. Above(i, k) = a \div 2
    BY <1>5, <2>1, <2>4, AboveIs
  <2>7. At(t.levels, l) = u
    BY <1>1, <1>2, <1>4, <2>1, <2>2, KeptLevel
  <2>8. path[k] = PathNode(u, a, Beside(u, a))
    BY <1>7, <2>1, <2>4, <2>7
  <2>9. g[k] = At(LevelAt(s, k), a \div 2) /\ g[k - 1] = At(u, a)
    BY <1>9, <2>1, <2>2, <2>4, <2>6
  <2>10. /\ PathNode(u, a, Beside(u, a)).hash \in Hashes
         /\ \A x : Climb(x, PathNode(u, a, Beside(u, a))) = At(LevelAt(s, k), a \div 2) <=> x = At(u, a)
    BY <2>1, <2>3, <2>5, ClimbIs
  <2>11. QED
    BY <2>8, <2>9, <2>10
<1>11. PICK f : /\ ClimbsTo(f, leaf, path, R)
                /\ VerifyProof(leaf, path, rootLocked(t)) <=> f[R] = rootLocked(t)
  BY <1>3, <1>8, <1>10, VerifyIs
<1>12. \A k \in 1 .. R : f[k] = g[k] <=> f[k - 1] = g[k - 1]
  <2> SUFFICES ASSUME NEW k \in 1 .. R PROVE f[k] = g[k] <=> f[k - 1] = g[k - 1]
    OBVIOUS
  <2>1. f[k] = Climb(f[k - 1], path[k])
    BY <1>11 DEF ClimbsTo
  <2>2. QED
    BY <1>10, <2>1
<1>13. f[R] = g[R] <=> f[0] = g[0]
  BY <1>12, Chained
<1>14. f[0] = leaf /\ g[0] = At(s, i)
  <2>1. LevelAt(s, 0) = s /\ Above(i, 0) = i /\ 0 \in 0 .. R
    BY <1>3, <1>5, LevelIs, AboveIs
  <2>2. QED
    BY <1>9, <1>11, <2>1 DEF ClimbsTo
<1>15. g[R] = rootLocked(t)
  <2>1. Width(n, R) = 1
    BY <1>4, WidthAtTop
  <2>2. Above(i, R) < Width(n, R) /\ Above(i, R) \in Nat
    BY <1>5, AboveIsWithin, AboveIs
  <2>3. Above(i, R) = 0
    BY <2>1, <2>2
  <2>4. rootLocked(t) = TopOf(s)
    BY <1>1, <1>2, RootIsTop
  <2>5. QED
    BY <1>2, <1>4, <1>9, <2>3, <2>4 DEF TopOf
<1>16. QED
  BY <1>2, <1>6, <1>11, <1>13, <1>14, <1>15

----------------------------------------------------------------------------
(* Proofs of a batch.                                                      *)

LEMMA PaddedToIs ==
  ASSUME NEW n \in Nat \ {0}
  PROVE  PaddedTo(n) \in n .. 2 * n /\ \E h \in Nat : PaddedTo(n) = Pow2(h)
<1>1. PICK r \in 0 .. n : r = Rounds(n) /\ Width(n, r) <= 1 /\ \A k \in 0 .. r - 1 : Width(n, k) > 1
  BY RoundsIs
<1>2. PICK q \in Nat \ {0} : q = Pow2(r)
  BY PowIs
<1>3. q >= n
  BY <1>1, <1>2, RoundsCover
<1>4. q <= 2 * n
  <2>1. CASE r = 0
    BY <1>2, <2>1, PowIs
  <2>2. CASE r # 0
    <3>1. PICK k \in Nat : k = r - 1 /\ r = k + 1 /\ k \in 0 .. r - 1
      BY <2>2
    <3>2. Width(n, k) > 1
      BY <1>1, <3>1
    <3>3. ~(Pow2(k) >= n)
      <4>1. ~(Width(n, k) <= 1)
        BY <3>2, WidthIs
      <4>2. QED
        BY <4>1, RoundsCover
    <3>4. Pow2(k) \in Nat /\ Pow2(r) = 2 * Pow2(k)
      BY <3>1, PowIs
    <3>5. QED
      BY <1>2, <3>3, <3>4
  <2>3. QED
    BY <2>1, <2>2
<1>5. PICK D : D = {p \in n .. 2 * n : IsPowerOfTwo(p)}
  OBVIOUS
<1>6. q \in D
  <2>1. r \in 0 .. q /\ q \in n .. 2 * n
    BY <1>1, <1>3, <1>4
  <2>2. QED
    BY <1>2, <1>5, <2>1 DEF IsPowerOfTwo
<1>7. PICK p \in D : \A x \in D : p <= x
  <2>1. D \subseteq Nat
    BY <1>5
  <2>2. QED
    BY <1>6, <2>1, NatLeast
<1>8. p \in n .. 2 * n /\ IsPowerOfTwo(p)
  BY <1>5, <1>7
<1>9. \A x \in n .. p - 1 : ~IsPowerOfTwo(x)
  <2> SUFFICES ASSUME NEW x \in n .. p - 1, IsPowerOfTwo(x) PROVE FALSE
    OBVIOUS
  <2>1. x \in n .. 2 * n /\ ~(p <= x)
    BY <1>8
  <2>2. QED
    BY <1>5, <1>7, <2>1
<1>10. PaddedTo(n) \in n .. 2 * n /\ IsPowerOfTwo(PaddedTo(n))
  BY <1>8, <1>9 DEF PaddedTo
<1>11. QED
  BY <1>10 DEF IsPowerOfTwo

LEMMA WidthOfPower ==
  ASSUME NEW h \in Nat
  PROVE  /\ \A l \in Nat : l <= h => Width(Pow2(h), l) = Pow2(h - l)
         /\ Rounds(Pow2(h)) = h
<1>1. PICK p \in Nat \ {0} : p = Pow2(h)
  BY PowIs
<1> DEFINE T == {l \in Nat : l <= h => Width(p, l) = Pow2(h - l)}
<1>2. 0 \in T
  <2>1. h - 0 = h /\ Width(p, 0) = p
    BY WidthIs
  <2>2. QED
    BY <1>1, <2>1
<1>3. ASSUME NEW l \in Nat, l \in T PROVE l + 1 \in T
  <2> SUFFICES ASSUME l + 1 <= h PROVE Width(p, l + 1) = Pow2(h - (l + 1))
    OBVIOUS
  <2>1. PICK d \in Nat : d = h - (l + 1) /\ d + 1 = h - l
    OBVIOUS
  <2>2. PICK e \in Nat : e = Pow2(d) /\ Pow2(d + 1) = 2 * e
    BY PowIs
  <2>3. Width(p, l) = 2 * e
    BY <1>3, <2>1, <2>2
  <2>4. Width(p, l + 1) = (2 * e + 1) \div 2
    <3>1. Width(p, l + 1) = (Width(p, l) + 1) \div 2
      BY WidthIs
    <3>2. QED
      BY <2>3, <3>1
  <2>5. (2 * e + 1) \div 2 = e
    OBVIOUS
  <2>6. QED
    BY <2>1, <2>2, <2>4, <2>5
<1>4. \A l \in Nat : l <= h => Width(p, l) = Pow2(h - l)
  <2>1. Nat \subseteq T
    <3> HIDE DEF T
    <3> QED
      BY <1>2, <1>3, NatAll
  <2>2. QED
    BY <2>1
<1>5. PICK r \in Nat : r = Rounds(p) /\ Width(p, r) <= 1 /\ \A k \in 0 .. r - 1 : Width(p, k) > 1
  BY RoundsIs
<1>6. ~(h < r)
  <2> SUFFICES ASSUME h < r PROVE FALSE
    OBVIOUS
  <2>1. Width(p, h) > 1
    BY <1>5
  <2>2. h - h = 0
    OBVIOUS
  <2>3. Width(p, h) = 1
    BY <1>4, <2>2, PowIs
  <2>4. QED
    BY <2>1, <2>3
<1>7. ~(r < h)
  <2> SUFFICES ASSUME r < h PROVE FALSE
    OBVIOUS
  <2>1. PICK d \in Nat : d + 1 = h - r
    <3>1. (h - r) - 1 \in Nat /\ ((h - r) - 1) + 1 = h - r
      OBVIOUS
    <3>2. QED
      BY <3>1
  <2>2. PICK e \in Nat \ {0} : e = Pow2(d) /\ Pow2(d + 1) = 2 * e
    BY PowIs
  <2>3. Width(p, r) = 2 * e
    BY <1>4, <2>1, <2>2
  <2>4. QED
    BY <1>5, <2>2, <2>3
<1>8. QED
  BY <1>1, <1>4, <1>5, <1>6, <1>7

IsBatchParent(u, v) ==
  /\ v \in Seq(Hashes) /\ Len(v) = Len(u) \div 2
  /\ \A p \in 0 .. Len(v) - 1 : At(v, p) = batchHash(At(u, 2 * p), At(u, 2 * p + 1))

LEMMA BatchParentIs ==
  ASSUME NEW u \in Seq(Hashes)
  PROVE  IsBatchParent(u, BatchParents(u))
<1>1. PICK n \in Nat : n = Len(u)
  OBVIOUS
<1>2. PICK m \in Nat : m = n \div 2
  OBVIOUS
<1>3. PICK v : v = [k \in 1 .. m |-> batchHash(At(u, 2 * k - 2), At(u, 2 * k - 1))]
  OBVIOUS
<1>4. v = BatchParents(u)
  BY <1>1, <1>2, <1>3 DEF BatchParents
<1>5. ASSUME NEW k \in 1 .. m PROVE v[k] \in Hashes
  <2>1. 2 * k - 2 \in Nat /\ 2 * k - 1 \in Nat /\ 2 * k - 2 < n /\ 2 * k - 1 < n
    BY <1>2
  <2>2. At(u, 2 * k - 2) \in Hashes /\ At(u, 2 * k - 1) \in Hashes
    BY <1>1, <2>1, NodesAreHashes
  <2>3. QED
    BY <1>3, <2>2, HashesClosed
<1>6. v \in Seq(Hashes) /\ Len(v) = m
  <2>1. v \in [1 .. m -> Hashes]
    BY <1>3, <1>5
  <2>2. QED
    BY <2>1
<1>7. ASSUME NEW p \in 0 .. m - 1 PROVE At(v, p) = batchHash(At(u, 2 * p), At(u, 2 * p + 1))
  <2>1. p + 1 \in 1 .. m /\ 2 * (p + 1) - 2 = 2 * p /\ 2 * (p + 1) - 1 = 2 * p + 1
    OBVIOUS
  <2>2. v[p + 1] = batchHash(At(u, 2 * (p + 1) - 2), At(u, 2 * (p + 1) - 1))
    BY <1>3, <2>1
  <2>3. QED
    BY <2>1, <2>2 DEF At
<1>8. QED
  BY <1>1, <1>2, <1>4, <1>6, <1>7 DEF IsBatchParent

LEMMA BatchLevelIs ==
  ASSUME NEW s \in Seq(Hashes)
  PROVE  /\ BatchLevelAt(s, 0) = s
         /\ \A l \in Nat : BatchLevelAt(s, l) \in Seq(Hashes) /\ IsBatchParent(BatchLevelAt(s, l), BatchLevelAt(s, l + 1))
<1> DEFINE Here(f) == f = [l \in Nat |-> IF l = 0 THEN s ELSE BatchParents(f[l - 1])]
<1> DEFINE step == [l \in Nat |-> [u \in Seq(Hashes) |-> BatchParents(u)]]
<1>0. \A u \in Seq(Hashes) : BatchParents(u) \in Seq(Hashes)
  BY BatchParentIs DEF IsBatchParent
<1>1. step \in Steps(Seq(Hashes))
  BY <1>0 DEF Steps
<1>2. PICK f \in [Nat -> Seq(Hashes)] : f[0] = s /\ \A l \in Nat : f[l + 1] = step[l][f[l]]
  <2> HIDE DEF step
  <2>1. \E f \in [Nat -> Seq(Hashes)] : Iterates(f, s, step)
    BY <1>1, Iterated
  <2>2. QED
    BY <2>1 DEF Iterates
<1>3. Here(f)
  <2>1. ASSUME NEW l \in Nat, l # 0 PROVE f[l] = BatchParents(f[l - 1])
    <3>1. PICK m \in Nat : m = l - 1 /\ m + 1 = l
      BY <2>1
    <3>2. QED
      BY <1>2, <3>1
  <2>2. QED
    BY <1>2, <2>1
<1>4. \A l : BatchLevelAt(s, l) = (CHOOSE g : Here(g))[l]
  BY DEF BatchLevelAt
<1>5. PICK g : Here(g) /\ \A l : BatchLevelAt(s, l) = g[l]
  <2>1. \E g : Here(g)
    BY <1>3
  <2> HIDE DEF Here
  <2>2. QED
    BY <1>4, <2>1
<1>6. g[0] = s /\ \A l \in Nat : g[l + 1] = BatchParents(g[l])
  BY <1>5
<1> DEFINE T == {l \in Nat : g[l] \in Seq(Hashes)}
<1>7. Nat \subseteq T
  <2>1. 0 \in T
    BY <1>6
  <2>2. ASSUME NEW l \in Nat, l \in T PROVE l + 1 \in T
    <3>1. g[l] \in Seq(Hashes) /\ g[l + 1] = BatchParents(g[l])
      BY <1>6, <2>2
    <3>2. g[l + 1] \in Seq(Hashes)
      BY <1>0, <3>1
    <3>3. QED
      BY <3>2
  <2> HIDE DEF T
  <2>3. QED
    BY <2>1, <2>2, NatAll
<1>8. \A l \in Nat : g[l] \in Seq(Hashes) /\ IsBatchParent(g[l], g[l + 1])
  <2> SUFFICES ASSUME NEW l \in Nat PROVE IsBatchParent(g[l], g[l + 1])
    BY <1>7
  <2>1. g[l] \in Seq(Hashes) /\ g[l + 1] = BatchParents(g[l])
    BY <1>6, <1>7
  <2>2. QED
    BY <2>1, BatchParentIs
<1>9. QED
  BY <1>5, <1>6, <1>8

LEMMA BatchWidthIs ==
  ASSUME NEW s \in Seq(Hashes), NEW h \in Nat, Len(s) = Pow2(h), NEW l \in Nat, l <= h
  PROVE  Len(BatchLevelAt(s, l)) = Pow2(h - l)
<1> DEFINE T == {k \in Nat : k <= h => Len(BatchLevelAt(s, k)) = Pow2(h - k)}
<1>1. 0 \in T
  <2>1. h - 0 = h
    OBVIOUS
  <2>2. QED
    BY <2>1, BatchLevelIs
<1>2. ASSUME NEW k \in Nat, k \in T PROVE k + 1 \in T
  <2> SUFFICES ASSUME k + 1 <= h PROVE Len(BatchLevelAt(s, k + 1)) = Pow2(h - (k + 1))
    OBVIOUS
  <2>1. PICK d \in Nat : d = h - (k + 1) /\ d + 1 = h - k
    OBVIOUS
  <2>2. PICK e \in Nat : e = Pow2(d) /\ Pow2(d + 1) = 2 * e
    BY PowIs
  <2>3. Len(BatchLevelAt(s, k)) = 2 * e
    BY <1>2, <2>1, <2>2
  <2>4. Len(BatchLevelAt(s, k + 1)) = (2 * e) \div 2
    BY <2>3, BatchLevelIs DEF IsBatchParent
  <2>5. (2 * e) \div 2 = e
    OBVIOUS
  <2>6. QED
    BY <2>1, <2>2, <2>4, <2>5
<1>3. Nat \subseteq T
  <2> HIDE DEF T
  <2> QED
    BY <1>1, <1>2, NatAll
<1>4. QED
  BY <1>3

BatchClimb(x, y, a) == IF a % 2 = 0 THEN batchHash(x, y) ELSE batchHash(y, x)

BatchClimbsTo(f, leaf, proof, i, N) ==
  f[0] = leaf /\ \A k \in 1 .. N : f[k] = BatchClimb(f[k - 1], proof[k], Above(i, k - 1))

LEMMA VerifyBatchIs ==
  ASSUME NEW leaf \in Hashes, NEW proof, NEW N \in Nat, N = Len(proof), NEW i \in Nat,
         \A k \in 1 .. N : proof[k] \in Hashes, NEW root
  PROVE  \E f : BatchClimbsTo(f, leaf, proof, i, N) /\ (VerifyBatchProof(root, leaf, proof, i) <=> f[N] = root)
<1> DEFINE Body(f, k) ==
      CASE k = 0 -> leaf
        [] k > 0 /\ Above(i, k - 1) % 2 = 0 -> batchHash(f[k - 1], proof[k])
        [] k > 0 /\ Above(i, k - 1) % 2 = 1 -> batchHash(proof[k], f[k - 1])
<1> DEFINE Here(f) == f = [k \in 0 .. N |-> Body(f, k)]
<1> DEFINE step == [k \in Nat |-> [x \in Hashes |-> IF k < N THEN BatchClimb(x, proof[k + 1], Above(i, k)) ELSE x]]
<1>0. ASSUME NEW f, NEW k \in 1 .. N PROVE Body(f, k) = BatchClimb(f[k - 1], proof[k], Above(i, k - 1))
  <2>1. PICK a \in Nat : a = Above(i, k - 1)
    <3>1. k - 1 \in Nat
      OBVIOUS
    <3>2. QED
      BY <3>1, AboveIs
  <2>2. k # 0 /\ k > 0
    OBVIOUS
  <2>3. CASE a % 2 = 0
    <3>1. a % 2 # 1
      BY <2>3
    <3>2. QED
      BY <2>1, <2>2, <2>3, <3>1 DEF BatchClimb
  <2>4. CASE a % 2 = 1
    <3>1. a % 2 # 0
      BY <2>4
    <3>2. QED
      BY <2>1, <2>2, <2>4, <3>1 DEF BatchClimb
  <2>5. a % 2 = 0 \/ a % 2 = 1
    OBVIOUS
  <2>6. QED
    BY <2>3, <2>4, <2>5
<1>1. step \in Steps(Hashes)
  <2>1. \A k \in Nat : \A x \in Hashes : (IF k < N THEN BatchClimb(x, proof[k + 1], Above(i, k)) ELSE x) \in Hashes
    <3> SUFFICES ASSUME NEW k \in Nat, NEW x \in Hashes, k < N PROVE BatchClimb(x, proof[k + 1], Above(i, k)) \in Hashes
      OBVIOUS
    <3>1. proof[k + 1] \in Hashes
      <4>1. k + 1 \in 1 .. N
        OBVIOUS
      <4>2. QED
        BY <4>1
    <3>2. QED
      BY <3>1, HashesClosed DEF BatchClimb
  <2>2. QED
    BY <2>1 DEF Steps
<1>2. PICK f \in [0 .. N -> Hashes] : Loops(f, leaf, step, N)
  <2> HIDE DEF step
  <2>1. QED
    BY <1>1, Looped
<1>3. BatchClimbsTo(f, leaf, proof, i, N)
  <2>1. f[0] = leaf /\ \A k \in 1 .. N : f[k] = step[k - 1][f[k - 1]]
    BY <1>2 DEF Loops
  <2>2. ASSUME NEW k \in 1 .. N PROVE f[k] = BatchClimb(f[k - 1], proof[k], Above(i, k - 1))
    <3>1. k - 1 \in Nat /\ k - 1 \in 0 .. N /\ k - 1 < N /\ (k - 1) + 1 = k
      OBVIOUS
    <3>2. step[k - 1][f[k - 1]] = BatchClimb(f[k - 1], proof[k], Above(i, k - 1))
      BY <3>1
    <3>3. QED
      BY <2>1, <3>2
  <2>3. QED
    BY <2>1, <2>2 DEF BatchClimbsTo
<1>4. Here(f)
  <2>1. Body(f, 0) = leaf
    OBVIOUS
  <2>2. \A k \in 0 .. N : f[k] = Body(f, k)
    <3> SUFFICES ASSUME NEW k \in 0 .. N, k # 0 PROVE f[k] = Body(f, k)
      BY <1>3, <2>1 DEF BatchClimbsTo
    <3>1. k \in 1 .. N
      OBVIOUS
    <3> HIDE DEF Body
    <3>2. QED
      BY <1>0, <1>3, <3>1 DEF BatchClimbsTo
  <2> HIDE DEF Body
  <2>3. QED
    BY <2>2
<1>5. VerifyBatchProof(root, leaf, proof, i) <=> (CHOOSE g : Here(g))[N] = root
  BY DEF VerifyBatchProof
<1>6. PICK g : Here(g) /\ (VerifyBatchProof(root, leaf, proof, i) <=> g[N] = root)
  <2>1. \E g : Here(g)
    BY <1>4
  <2> HIDE DEF Here
  <2>2. QED
    BY <1>5, <2>1
<1>7. BatchClimbsTo(g, leaf, proof, i, N)
  <2>1. Body(g, 0) = leaf
    OBVIOUS
  <2> HIDE DEF Body
  <2>2. g[0] = leaf
    BY <1>6, <2>1
  <2>3. \A k \in 1 .. N : k \in 0 .. N
    OBVIOUS
  <2>4. \A k \in 1 .. N : g[k] = Body(g, k)
    BY <1>6, <2>3
  <2>5. \A k \in 1 .. N : g[k] = BatchClimb(g[k - 1], proof[k], Above(i, k - 1))
    BY <1>0, <2>4
  <2>6. QED
    BY <2>2, <2>5 DEF BatchClimbsTo
<1>8. QED
  BY <1>6, <1>7

LEMMA BatchClimbIs ==
  ASSUME NEW u \in Seq(Hashes), NEW e \in Nat, Len(u) = 2 * e, NEW v, IsBatchParent(u, v),
         NEW a \in Nat, a < Len(u)
  PROVE  /\ At(u, Sibling(a)) \in Hashes
         /\ \A x : BatchClimb(x, At(u, Sibling(a)), a) = At(v, a \div 2) <=> x = At(u, a)
<1>1. PICK p \in Nat : p = a \div 2
  OBVIOUS
<1>2. At(v, p) = batchHash(At(u, 2 * p), At(u, 2 * p + 1))
  <2>1. p \in 0 .. Len(v) - 1
    BY <1>1 DEF IsBatchParent
  <2>2. QED
    BY <2>1 DEF IsBatchParent
<1>3. CASE a % 2 = 0
  <2>1. a = 2 * p /\ Sibling(a) = 2 * p + 1
    BY <1>1, <1>3 DEF Sibling
  <2>2. 2 * p + 1 < Len(u) /\ 2 * p + 1 \in Nat
    BY <2>1
  <2>3. At(u, Sibling(a)) \in Hashes
    BY <2>1, <2>2, NodesAreHashes
  <2>4. \A x : BatchClimb(x, At(u, Sibling(a)), a) = batchHash(x, At(u, 2 * p + 1))
    BY <1>3, <2>1 DEF BatchClimb
  <2>5. \A x : batchHash(x, At(u, 2 * p + 1)) = batchHash(At(u, a), At(u, 2 * p + 1)) <=> x = At(u, a)
    BY DEF batchHash
  <2>6. At(v, a \div 2) = batchHash(At(u, a), At(u, 2 * p + 1))
    BY <1>1, <1>2, <2>1
  <2>7. QED
    BY <2>3, <2>4, <2>5, <2>6
<1>4. CASE a % 2 = 1
  <2>1. a = 2 * p + 1 /\ Sibling(a) = 2 * p
    BY <1>1, <1>4 DEF Sibling
  <2>2. 2 * p < Len(u) /\ 2 * p \in Nat
    BY <2>1
  <2>3. At(u, Sibling(a)) \in Hashes
    BY <2>1, <2>2, NodesAreHashes
  <2>4. \A x : BatchClimb(x, At(u, Sibling(a)), a) = batchHash(At(u, 2 * p), x)
    BY <1>4, <2>1 DEF BatchClimb
  <2>5. \A x : batchHash(At(u, 2 * p), x) = batchHash(At(u, 2 * p), At(u, a)) <=> x = At(u, a)
    BY DEF batchHash
  <2>6. At(v, a \div 2) = batchHash(At(u, 2 * p), At(u, a))
    BY <1>1, <1>2, <2>1
  <2>7. QED
    BY <2>3, <2>4, <2>5, <2>6
<1>5. a % 2 = 0 \/ a % 2 = 1
  OBVIOUS
<1>6. QED
  BY <1>3, <1>4, <1>5

LEMMA PaddedIs ==
  ASSUME NEW s \in Seq(Hashes), NEW n \in Nat \ {0}, n = Len(s)
  PROVE  /\ Padded(s) \in Seq(Hashes) /\ Len(Padded(s)) = PaddedTo(n)
         /\ \A i \in 0 .. n - 1 : At(Padded(s), i) = At(s, i)
<1>1. PICK p \in Nat : p = PaddedTo(n) /\ n <= p
  <2>1. PaddedTo(n) \in n .. 2 * n
    BY PaddedToIs
  <2>2. QED
    BY <2>1
<1>2. PICK v : v = [k \in 1 .. p |-> IF k <= n THEN s[k] ELSE Last(s)]
  OBVIOUS
<1>3. v = Padded(s)
  BY <1>1, <1>2 DEF Padded
<1>4. \A k \in 1 .. p : v[k] \in Hashes
  <2>1. Last(s) \in Hashes
    BY DEF Last
  <2>2. QED
    BY <1>2, <2>1
<1>5. v \in Seq(Hashes) /\ Len(v) = p
  <2>1. v \in [1 .. p -> Hashes]
    BY <1>2, <1>4
  <2>2. QED
    BY <2>1
<1>6. ASSUME NEW i \in 0 .. n - 1 PROVE At(v, i) = At(s, i)
  <2>1. i + 1 \in 1 .. p /\ i + 1 <= n
    BY <1>1
  <2>2. QED
    BY <1>2, <2>1 DEF At
<1>7. QED
  BY <1>1, <1>3, <1>5, <1>6

LEMMA BatchProofIs ==
  ASSUME NEW s \in Seq(Hashes), NEW i \in 0 .. Len(s) - 1, NEW leaf \in Hashes
  PROVE  VerifyBatchProof(TreeRoot(buildBatchMerkleTree(s)), leaf,
                          getBatchMerkleProof(buildBatchMerkleTree(s), i), i)
           <=> leaf = At(s, i)
<1>1. PICK n \in Nat \ {0} : n = Len(s)
  OBVIOUS
<1>2. i \in Nat /\ i \in 0 .. n - 1
  BY <1>1
<1>3. PICK h \in Nat : PaddedTo(n) = Pow2(h)
  BY PaddedToIs
<1>4. PICK w \in Seq(Hashes) : w = Padded(s)
  BY <1>1, PaddedIs
<1>5. PICK p \in Nat \ {0} : p = Pow2(h) /\ Len(w) = p /\ i \in 0 .. p - 1
  <2>1. Len(w) = PaddedTo(n) /\ PaddedTo(n) \in n .. 2 * n
    BY <1>1, <1>4, PaddedIs, PaddedToIs
  <2>2. QED
    BY <1>2, <1>3, <2>1
<1>6. Rounds(p) = h
  BY <1>5, WidthOfPower
<1>7. PICK nodes : nodes = [l \in 1 .. h + 1 |-> BatchLevelAt(w, l - 1)]
  OBVIOUS
<1>8. buildBatchMerkleTree(s) = nodes
  BY <1>4, <1>5, <1>6, <1>7 DEF buildBatchMerkleTree
<1>9. Len(nodes) = h + 1 /\ \A l \in 0 .. h : At(nodes, l) = BatchLevelAt(w, l)
  <2>1. \A l \in 0 .. h : l + 1 \in 1 .. h + 1 /\ (l + 1) - 1 = l
    OBVIOUS
  <2>2. QED
    BY <1>7, <2>1 DEF At
<1>10. PICK proof : proof = getBatchMerkleProof(nodes, i)
  OBVIOUS
<1>11. proof = [k \in 1 .. h |-> At(At(nodes, k - 1), Sibling(Above(i, k - 1)))]
  BY <1>9, <1>10 DEF getBatchMerkleProof
<1>12. Len(proof) = h
  BY <1>11
<1>13. PICK g : g = [k \in 0 .. h |-> At(BatchLevelAt(w, k), Above(i, k))]
  OBVIOUS
<1>14. ASSUME NEW k \in 1 .. h
       PROVE  proof[k] \in Hashes /\ \A x : BatchClimb(x, proof[k], Above(i, k - 1)) = g[k] <=> x = g[k - 1]
  <2>1. PICK l \in Nat : l = k - 1 /\ l + 1 = k /\ l \in 0 .. h /\ k \in 0 .. h
    OBVIOUS
  <2>2. PICK u \in Seq(Hashes) : u = BatchLevelAt(w, l)
    BY BatchLevelIs
  <2>3. IsBatchParent(u, BatchLevelAt(w, l + 1))
    BY <2>2, BatchLevelIs
  <2>4. PICK a \in Nat : a = Above(i, l)
    BY <1>2, AboveIs
  <2>5. PICK d \in Nat : d + 1 = h - l
    <3>1. (h - l) - 1 \in Nat /\ ((h - l) - 1) + 1 = h - l
      BY <2>1
    <3>2. QED
      BY <3>1
  <2>6. PICK e \in Nat : e = Pow2(d) /\ Pow2(h - l) = 2 * e
    BY <2>5, PowIs
  <2>7. Len(u) = 2 * e
    BY <1>5, <2>1, <2>2, <2>6, BatchWidthIs
  <2>8. a < Len(u)
    <3>1. Width(p, l) = Pow2(h - l)
      BY <1>5, <2>1, WidthOfPower
    <3>2. a < Width(p, l)
      BY <1>5, <2>4, AboveIsWithin
    <3>3. QED
      BY <2>6, <2>7, <3>1, <3>2
  <2>9. Above(i, k) = a \div 2
    BY <1>2, <2>1, <2>4, AboveIs
  <2>10. proof[k] = At(u, Sibling(a))
    BY <1>9, <1>11, <2>1, <2>2, <2>4
  <2>11. g[k] = At(BatchLevelAt(w, k), a \div 2) /\ g[k - 1] = At(u, a)
    BY <1>13, <2>1, <2>2, <2>4, <2>9
  <2>12. /\ At(u, Sibling(a)) \in Hashes
         /\ \A x : BatchClimb(x, At(u, Sibling(a)), a) = At(BatchLevelAt(w, k), a \div 2) <=> x = At(u, a)
    BY <2>1, <2>3, <2>7, <2>8, BatchClimbIs
  <2>13. QED
    BY <2>1, <2>4, <2>10, <2>11, <2>12
<1>15. PICK root : root = TreeRoot(nodes)
  OBVIOUS
<1>16. PICK f : /\ BatchClimbsTo(f, leaf, proof, i, h)
                /\ VerifyBatchProof(root, leaf, proof, i) <=> f[h] = root
  <2>1. \A k \in 1 .. h : proof[k] \in Hashes
    BY <1>14
  <2>2. \E f : BatchClimbsTo(f, leaf, proof, i, h) /\ (VerifyBatchProof(root, leaf, proof, i) <=> f[h] = root)
    BY <1>2, <1>12, <2>1, VerifyBatchIs
  <2>3. QED
    BY <2>2
<1>17. \A k \in 1 .. h : f[k] = g[k] <=> f[k - 1] = g[k - 1]
  <2> SUFFICES ASSUME NEW k \in 1 .. h PROVE f[k] = g[k] <=> f[k - 1] = g[k - 1]
    OBVIOUS
  <2>1. f[k] = BatchClimb(f[k - 1], proof[k], Above(i, k - 1))
    BY <1>16 DEF BatchClimbsTo
  <2>2. QED
    BY <1>14, <2>1
<1>18. f[h] = g[h] <=> f[0] = g[0]
  BY <1>17, Chained
<1>19. f[0] = leaf /\ g[0] = At(s, i)
  <2>1. BatchLevelAt(w, 0) = w /\ Above(i, 0) = i /\ 0 \in 0 .. h
    BY <1>2, BatchLevelIs, AboveIs
  <2>2. At(w, i) = At(s, i)
    BY <1>1, <1>2, <1>4, PaddedIs
  <2>3. QED
    BY <1>13, <1>16, <2>1, <2>2 DEF BatchClimbsTo
<1>20. g[h] = root
  <2>1. Width(p, h) = Pow2(h - h) /\ h - h = 0
    BY <1>5, WidthOfPower
  <2>2. Width(p, h) = 1
    BY <2>1, PowIs
  <2>3. Above(i, h) < Width(p, h) /\ Above(i, h) \in Nat
    BY <1>2, <1>5, AboveIsWithin, AboveIs
  <2>4. Above(i, h) = 0
    BY <2>2, <2>3
  <2>5. nodes[Len(nodes)] = BatchLevelAt(w, h)
    BY <1>9 DEF At
  <2>6. QED
    BY <1>13, <1>15, <2>4, <2>5 DEF TreeRoot, Last
<1>21. QED
  BY <1>8, <1>10, <1>15, <1>16, <1>18, <1>19, <1>20

(* The incremental tree's proof of every leaf verifies against its root,   *)
(* and the proof of every item of a batch against the root that is         *)
(* anchored; no other leaf verifies with them (incremental.go:192,         *)
(* anchor/batch.go:363).                                                   *)
THEOREM ProofsAlwaysVerify == TreeSpec => []AllProofsVerify
<1>1. ASSUME TreeInv PROVE AllProofsVerify
  <2>1. PICK t \in Trees : t = tree /\ t.leafCount <= maxLeaves
    BY <1>1 DEF TreeInv
  <2>2. PICK s \in Seq(LeafValues) : s = Leaves(t) /\ Len(s) = t.leafCount
    BY TreeLeaves
  <2>3. ProofsVerify
    <3>1. \A i \in 0 .. t.leafCount - 1, leaf \in LeafValues :
            VerifyProof(leaf, GetIncrementalProof(t, i), rootLocked(t)) <=> leaf = At(Leaves(t), i)
      BY <2>1, ProofIs
    <3>2. QED
      BY <2>1, <3>1 DEF ProofsVerify
  <2>4. BatchProofsVerify
    <3>1. \A i \in 0 .. Len(s) - 1, leaf \in LeafValues :
            VerifyBatchProof(TreeRoot(buildBatchMerkleTree(s)), leaf,
                             getBatchMerkleProof(buildBatchMerkleTree(s), i), i)
              <=> leaf = At(s, i)
      <4>1. s \in Seq(Hashes) /\ LeafValues \subseteq Hashes
        BY LeavesAreHashes, HashesClosed
      <4>2. QED
        BY <4>1, BatchProofIs
    <3>2. QED
      BY <2>1, <2>2, <3>1 DEF BatchProofsVerify
  <2>5. QED
    BY <2>3, <2>4 DEF AllProofsVerify
<1>2. QED
  BY <1>1, TreeInvHolds, PTL

----------------------------------------------------------------------------
(* Trees of equally many leaves.                                           *)
LEMMA ParentsTell ==
  ASSUME NEW u \in Seq(Hashes), NEW v \in Seq(Hashes), Len(u) = Len(v), NEW x, IsParent(u, x), IsParent(v, x)
  PROVE  u = v
<1>1. PICK n \in Nat : n = Len(u) /\ n = Len(v)
  OBVIOUS
<1>2. ASSUME NEW j \in 1 .. n PROVE u[j] = v[j]
  <2>1. PICK i \in Nat : i = j - 1 /\ i + 1 = j /\ i < n
    <3>1. j - 1 \in Nat /\ (j - 1) + 1 = j /\ j - 1 < n
      OBVIOUS
    <3>2. QED
      BY <3>1
  <2>2. PICK p \in Nat : p = i \div 2 /\ (i = 2 * p \/ i = 2 * p + 1)
    <3>1. i \div 2 \in Nat /\ (i = 2 * (i \div 2) \/ i = 2 * (i \div 2) + 1)
      OBVIOUS
    <3>2. QED
      BY <3>1
  <2>3. p \in 0 .. Len(x) - 1
    BY <1>1, <2>1, <2>2 DEF IsParent
  <2>4. hashPair(At(u, 2 * p), RightOf(u, p)) = hashPair(At(v, 2 * p), RightOf(v, p))
    BY <2>3 DEF IsParent
  <2>5. At(u, 2 * p) = At(v, 2 * p) /\ RightOf(u, p) = RightOf(v, p)
    BY <2>4 DEF hashPair
  <2>6. CASE i = 2 * p
    BY <2>1, <2>5, <2>6 DEF At
  <2>7. CASE i = 2 * p + 1
    <3>1. RightOf(u, p) = At(u, i) /\ RightOf(v, p) = At(v, i)
      BY <1>1, <2>1, <2>7 DEF RightOf
    <3>2. QED
      BY <2>1, <2>5, <3>1 DEF At
  <2>8. QED
    BY <2>2, <2>6, <2>7
<1>3. QED
  BY <1>1, <1>2

LEMMA LevelsTell ==
  ASSUME NEW s \in Seq(Hashes), NEW t \in Seq(Hashes), Len(s) = Len(t),
         NEW l \in Nat, LevelAt(s, l) = LevelAt(t, l)
  PROVE  s = t
<1> DEFINE T == {k \in Nat : LevelAt(s, k) = LevelAt(t, k) => s = t}
<1>1. 0 \in T
  BY LevelIs
<1>2. ASSUME NEW k \in Nat, k \in T PROVE k + 1 \in T
  <2> SUFFICES ASSUME LevelAt(s, k + 1) = LevelAt(t, k + 1) PROVE s = t
    OBVIOUS
  <2>1. PICK u \in Seq(Hashes) : u = LevelAt(s, k) /\ Len(u) = Width(Len(s), k) /\ IsParent(u, LevelAt(s, k + 1))
    BY LevelIs
  <2>2. PICK v \in Seq(Hashes) : v = LevelAt(t, k) /\ Len(v) = Width(Len(t), k) /\ IsParent(v, LevelAt(t, k + 1))
    BY LevelIs
  <2>3. Len(u) = Len(v) /\ IsParent(v, LevelAt(s, k + 1))
    BY <2>1, <2>2
  <2>4. u = v
    BY <2>1, <2>3, ParentsTell
  <2>5. QED
    BY <1>2, <2>1, <2>2, <2>4
<1>3. Nat \subseteq T
  <2> HIDE DEF T
  <2> QED
    BY <1>1, <1>2, NatAll
<1>4. QED
  BY <1>3

LEMMA TopsTell ==
  ASSUME NEW s \in Seq(Hashes), NEW t \in Seq(Hashes), Len(s) = Len(t), Len(s) # 0, TopOf(s) = TopOf(t)
  PROVE  s = t
<1>1. PICK n \in Nat \ {0} : n = Len(s) /\ n = Len(t)
  OBVIOUS
<1>2. PICK r \in Nat : r = Rounds(n)
  BY RoundsIs
<1>3. Width(n, r) = 1
  BY <1>2, WidthAtTop
<1>4. PICK u \in Seq(Hashes) : u = LevelAt(s, r) /\ Len(u) = 1
  BY <1>1, <1>3, LevelIs
<1>5. PICK v \in Seq(Hashes) : v = LevelAt(t, r) /\ Len(v) = 1
  BY <1>1, <1>3, LevelIs
<1>6. u[1] = v[1]
  <2>1. At(u, 0) = At(v, 0)
    BY <1>1, <1>2, <1>4, <1>5 DEF TopOf
  <2>2. QED
    BY <2>1 DEF At
<1>7. u = v
  BY <1>4, <1>5, <1>6
<1>8. QED
  BY <1>4, <1>5, <1>7, LevelsTell

(* The root of one leaf is that leaf, and of more than one a pair.         *)
LEMMA TopLooks ==
  ASSUME NEW s \in Seq(Hashes), Len(s) # 0
  PROVE  /\ Len(s) = 1 => TopOf(s) = s[1]
         /\ Len(s) > 1 => \E a, b : TopOf(s) = hashPair(a, b)
<1>1. PICK n \in Nat \ {0} : n = Len(s)
  OBVIOUS
<1>2. PICK r \in Nat : r = Rounds(n) /\ \A k \in 0 .. r - 1 : Width(n, k) > 1
  BY RoundsIs
<1>3. Width(n, r) = 1 /\ Width(n, 0) = n
  BY <1>2, WidthAtTop, WidthIs
<1>4. CASE n = 1
  <2>1. r = 0
    <3> SUFFICES ASSUME r # 0 PROVE FALSE
      OBVIOUS
    <3>1. 0 \in 0 .. r - 1
      OBVIOUS
    <3>2. QED
      BY <1>2, <1>3, <1>4, <3>1
  <2>2. TopOf(s) = At(s, 0)
    BY <1>1, <1>2, <2>1, LevelIs DEF TopOf
  <2>3. QED
    BY <1>1, <1>4, <2>2 DEF At
<1>5. CASE n > 1
  <2>1. PICK l \in Nat : r = l + 1
    <3>1. r # 0
      BY <1>3, <1>5
    <3>2. r - 1 \in Nat /\ r = (r - 1) + 1
      BY <3>1
    <3>3. QED
      BY <3>2
  <2>2. PICK v : v = LevelAt(s, r) /\ v \in Seq(Hashes) /\ Len(v) = 1
    BY <1>1, <1>3, LevelIs
  <2>3. IsParent(LevelAt(s, l), v)
    BY <2>1, <2>2, LevelIs
  <2>4. At(v, 0) = hashPair(At(LevelAt(s, l), 2 * 0), RightOf(LevelAt(s, l), 0))
    <3>1. 0 \in 0 .. Len(v) - 1
      BY <2>2
    <3>2. QED
      BY <2>3, <3>1 DEF IsParent
  <2>5. QED
    BY <1>1, <1>2, <1>5, <2>2, <2>4 DEF TopOf
<1>6. QED
  BY <1>1, <1>4, <1>5

----------------------------------------------------------------------------
(* Nodes of a level, as values.                                            *)

IsNodeAt(s, v, l) == \E x \in Nat : x < Width(Len(s), l) /\ v = At(LevelAt(s, l), x)

LEMMA NodeParts ==
  ASSUME NEW s \in Seq(Hashes), NEW l \in Nat, NEW v, IsNodeAt(s, v, l + 1)
  PROVE  \E a, b : v = hashPair(a, b) /\ IsNodeAt(s, a, l) /\ IsNodeAt(s, b, l)
<1>1. PICK x \in Nat : x < Width(Len(s), l + 1) /\ v = At(LevelAt(s, l + 1), x)
  BY DEF IsNodeAt
<1>2. PICK u \in Seq(Hashes) : u = LevelAt(s, l) /\ Len(u) = Width(Len(s), l) /\ IsParent(u, LevelAt(s, l + 1))
  BY LevelIs
<1>3. Len(LevelAt(s, l + 1)) = Width(Len(s), l + 1)
  BY LevelIs
<1>4. PICK m \in Nat : m = Len(u)
  OBVIOUS
<1>5. Len(LevelAt(s, l + 1)) = (m + 1) \div 2 /\ x < (m + 1) \div 2
  BY <1>1, <1>2, <1>3, <1>4 DEF IsParent
<1>6. v = hashPair(At(u, 2 * x), RightOf(u, x))
  <2>1. x \in 0 .. Len(LevelAt(s, l + 1)) - 1
    BY <1>5
  <2>2. QED
    BY <1>1, <1>2, <2>1 DEF IsParent
<1>7. 2 * x < m /\ 2 * x \in Nat /\ 2 * x + 1 \in Nat
  BY <1>5
<1>8. IsNodeAt(s, At(u, 2 * x), l)
  BY <1>2, <1>4, <1>7 DEF IsNodeAt
<1>9. IsNodeAt(s, RightOf(u, x), l)
  <2>1. CASE 2 * x + 1 < m
    <3>1. RightOf(u, x) = At(u, 2 * x + 1)
      BY <1>4, <2>1 DEF RightOf
    <3>2. QED
      BY <1>2, <1>4, <1>7, <2>1, <3>1 DEF IsNodeAt
  <2>2. CASE ~(2 * x + 1 < m)
    <3>1. RightOf(u, x) = At(u, 2 * x)
      BY <1>4, <2>2 DEF RightOf
    <3>2. QED
      BY <1>8, <3>1
  <2>3. QED
    BY <2>1, <2>2
<1>10. QED
  BY <1>6, <1>8, <1>9

(* Leaves that are no pairs.                                               *)
Flat(s) == \A j \in 1 .. Len(s) : \A a, b : s[j] # hashPair(a, b)

LEMMA NodeOnce ==
  ASSUME NEW s \in Seq(Hashes), Flat(s), NEW l \in Nat, NEW v, IsNodeAt(s, v, l), NEW j \in Nat, j > l
  PROVE  ~IsNodeAt(s, v, j)
<1> DEFINE T == {k \in Nat : \A w : \A m \in Nat : m > k /\ IsNodeAt(s, w, k) => ~IsNodeAt(s, w, m)}
<1>1. 0 \in T
  <2> SUFFICES ASSUME NEW w, NEW m \in Nat, m > 0, IsNodeAt(s, w, 0), IsNodeAt(s, w, m) PROVE FALSE
    OBVIOUS
  <2>1. PICK x \in Nat : x < Width(Len(s), 0) /\ w = At(LevelAt(s, 0), x)
    BY DEF IsNodeAt
  <2>2. x + 1 \in 1 .. Len(s) /\ w = s[x + 1]
    <3>1. Width(Len(s), 0) = Len(s) /\ LevelAt(s, 0) = s
      BY LevelIs, WidthIs
    <3>2. QED
      BY <2>1, <3>1 DEF At
  <2>3. PICK d \in Nat : m = d + 1
    <3>1. m - 1 \in Nat /\ m = (m - 1) + 1
      OBVIOUS
    <3>2. QED
      BY <3>1
  <2>4. PICK a, b : w = hashPair(a, b) /\ IsNodeAt(s, a, d)
    BY <2>3, NodeParts
  <2>5. QED
    BY <2>2, <2>4 DEF Flat
<1>2. ASSUME NEW k \in Nat, k \in T PROVE k + 1 \in T
  <2> SUFFICES ASSUME NEW w, NEW m \in Nat, m > k + 1, IsNodeAt(s, w, k + 1), IsNodeAt(s, w, m) PROVE FALSE
    OBVIOUS
  <2>1. PICK d \in Nat : m = d + 1 /\ d > k
    <3>1. m - 1 \in Nat /\ m = (m - 1) + 1 /\ m - 1 > k
      OBVIOUS
    <3>2. QED
      BY <3>1
  <2>2. PICK a, b : w = hashPair(a, b) /\ IsNodeAt(s, a, k)
    BY NodeParts
  <2>3. PICK c, e : w = hashPair(c, e) /\ IsNodeAt(s, c, d)
    BY <2>1, NodeParts
  <2>4. a = c
    BY <2>2, <2>3 DEF hashPair
  <2>5. QED
    BY <1>2, <2>1, <2>2, <2>3, <2>4
<1>3. Nat \subseteq T
  <2> HIDE DEF T
  <2> QED
    BY <1>1, <1>2, NatAll
<1>4. QED
  BY <1>3

----------------------------------------------------------------------------
(* The path of a proof, and the climb along it.                            *)

PathNodes == [hash : Hashes, position : {"left", "right"}]

(* F[j] is the first j of the sequences, one after the other.              *)
Joins(F, seqs, R) == F[0] = << >> /\ \A j \in 1 .. R : F[j] = F[j - 1] \o seqs[j]

LEMMA Joined ==
  ASSUME NEW S, NEW R \in Nat, NEW seqs \in [1 .. R -> Seq(S)]
  PROVE  \E F \in [0 .. R -> Seq(S)] : Joins(F, seqs, R) /\ FlattenSeq(seqs) = F[R]
<1> DEFINE Here(f) == f = [j \in 1 .. R |-> IF j = 1 THEN seqs[j] ELSE f[j - 1] \o seqs[j]]
<1> DEFINE step == [k \in Nat |-> [x \in Seq(S) |-> IF k < R THEN x \o seqs[k + 1] ELSE x]]
<1>0. Len(seqs) = R
  OBVIOUS
<1>1. step \in Steps(Seq(S))
  <2>1. ASSUME NEW k \in Nat, NEW x \in Seq(S) PROVE (IF k < R THEN x \o seqs[k + 1] ELSE x) \in Seq(S)
    <3>1. CASE k < R
      <4>1. k + 1 \in 1 .. R
        BY <3>1
      <4>2. seqs[k + 1] \in Seq(S)
        BY <4>1
      <4>3. QED
        BY <3>1, <4>2
    <3>2. QED
      BY <3>1
  <2>2. QED
    BY <2>1 DEF Steps
<1>2. PICK f \in [0 .. R -> Seq(S)] : Loops(f, << >>, step, R)
  <2> HIDE DEF step
  <2>1. << >> \in Seq(S)
    OBVIOUS
  <2>2. QED
    BY <1>1, <2>1, Looped
<1>3. ASSUME NEW j \in 1 .. R PROVE f[j] = f[j - 1] \o seqs[j]
  <2>1. j - 1 \in Nat /\ j - 1 < R /\ (j - 1) + 1 = j /\ j - 1 \in 0 .. R
    OBVIOUS
  <2>2. f[j] = step[j - 1][f[j - 1]]
    BY <1>2 DEF Loops
  <2>3. QED
    BY <2>1, <2>2
<1>4. f[0] = << >>
  BY <1>2 DEF Loops
<1>5. Joins(f, seqs, R)
  BY <1>3, <1>4 DEF Joins
<1>6. CASE R = 0
  <2>1. FlattenSeq(seqs) = seqs
    BY <1>0, <1>6 DEF FlattenSeq
  <2>2. seqs = << >>
    BY <1>6
  <2>3. QED
    BY <1>4, <1>5, <1>6, <2>1, <2>2
<1>7. CASE R # 0
  <2>1. PICK h : h = [j \in 1 .. R |-> f[j]]
    OBVIOUS
  <2>2. Here(h)
    <3>1. ASSUME NEW j \in 1 .. R PROVE h[j] = IF j = 1 THEN seqs[j] ELSE h[j - 1] \o seqs[j]
      <4>1. CASE j = 1
        <5>1. f[1] = << >> \o seqs[1]
          <6>1. 1 \in 1 .. R /\ 1 - 1 = 0
            BY <4>1
          <6>2. f[1] = f[1 - 1] \o seqs[1]
            BY <1>3, <6>1
          <6>3. QED
            BY <1>4, <6>1, <6>2
        <5>2. seqs[1] \in Seq(S)
          BY <4>1
        <5>3. << >> \o seqs[1] = seqs[1]
          BY <5>2
        <5>4. QED
          BY <2>1, <4>1, <5>1, <5>3
      <4>2. CASE j # 1
        <5>1. j - 1 \in 1 .. R
          BY <4>2
        <5>2. QED
          BY <1>3, <2>1, <4>2, <5>1
      <4>3. QED
        BY <4>1, <4>2
    <3>2. QED
      BY <2>1, <3>1
  <2>3. FlattenSeq(seqs) = (CHOOSE g : Here(g))[R]
    BY <1>0, <1>7 DEF FlattenSeq
  <2>4. PICK g : Here(g) /\ FlattenSeq(seqs) = g[R]
    <3>1. \E g : Here(g)
      BY <2>2
    <3> HIDE DEF Here
    <3>2. QED
      BY <2>3, <3>1
  <2> DEFINE T == {k \in Nat : k + 1 <= R => g[k + 1] = f[k + 1]}
  <2>5. 0 \in T
    <3>1. 1 \in 1 .. R
      BY <1>7
    <3>2. g[1] = seqs[1]
      BY <2>4, <3>1
    <3>3. h[1] = seqs[1] /\ h[1] = f[1]
      BY <2>1, <2>2, <3>1
    <3>4. QED
      BY <3>2, <3>3
  <2>6. ASSUME NEW k \in Nat, k \in T PROVE k + 1 \in T
    <3> SUFFICES ASSUME (k + 1) + 1 <= R PROVE g[(k + 1) + 1] = f[(k + 1) + 1]
      OBVIOUS
    <3>1. PICK j \in 1 .. R : j = (k + 1) + 1 /\ j # 1 /\ j - 1 = k + 1
      <4>1. (k + 1) + 1 \in 1 .. R /\ (k + 1) + 1 # 1 /\ ((k + 1) + 1) - 1 = k + 1
        OBVIOUS
      <4>2. QED
        BY <4>1
    <3>2. g[j] = g[j - 1] \o seqs[j]
      BY <2>4, <3>1
    <3>3. g[k + 1] = f[k + 1]
      BY <2>6
    <3>4. QED
      BY <1>3, <3>1, <3>2, <3>3
  <2>7. Nat \subseteq T
    <3> HIDE DEF T
    <3> QED
      BY <2>5, <2>6, NatAll
  <2>8. R - 1 \in T /\ (R - 1) + 1 = R
    <3>1. R - 1 \in Nat /\ (R - 1) + 1 = R
      BY <1>7
    <3> HIDE DEF T
    <3>2. QED
      BY <2>7, <3>1
  <2>9. FlattenSeq(seqs) = f[R]
    BY <2>4, <2>8
  <2>10. QED
    BY <1>5, <2>9
<1>8. QED
  BY <1>6, <1>7

LEMMA JoinLooks ==
  ASSUME NEW S, NEW a \in Seq(S), NEW b \in Seq(S)
  PROVE  /\ Len(a) \in Nat /\ Len(a \o b) = Len(a) + Len(b)
         /\ \A i \in 1 .. Len(a) + Len(b) : (a \o b)[i] = IF i <= Len(a) THEN a[i] ELSE b[i - Len(a)]
OBVIOUS

LEMMA OneMore ==
  ASSUME NEW S, NEW a \in Seq(S), NEW b \in Seq(S), Len(b) = 1
  PROVE  Len(a \o b) = Len(a) + 1 /\ (a \o b)[Len(a) + 1] = b[1] /\ Len(a) \in Nat
<1>1. PICK n \in Nat : n = Len(a)
  OBVIOUS
<1>2. Len(a \o b) = n + 1 /\ \A i \in 1 .. n + 1 : (a \o b)[i] = IF i <= n THEN a[i] ELSE b[i - n]
  BY <1>1, JoinLooks
<1>3. n + 1 \in 1 .. n + 1 /\ ~(n + 1 <= n) /\ (n + 1) - n = 1
  OBVIOUS
<1>4. QED
  BY <1>1, <1>2, <1>3

IsLead(s, t) == Len(s) <= Len(t) /\ \A m \in 1 .. Len(s) : t[m] = s[m]

LEMMA JoinsLead ==
  ASSUME NEW S, NEW R \in Nat, NEW seqs \in [1 .. R -> Seq(S)], NEW F \in [0 .. R -> Seq(S)], Joins(F, seqs, R),
         NEW l \in 0 .. R
  PROVE  IsLead(F[l], F[R])
<1> DEFINE T == {k \in Nat : l + k <= R => IsLead(F[l], F[l + k])}
<1>1. 0 \in T
  <2>1. l + 0 = l
    OBVIOUS
  <2>2. IsLead(F[l], F[l])
    BY DEF IsLead
  <2>3. QED
    BY <2>1, <2>2
<1>2. ASSUME NEW k \in Nat, k \in T PROVE k + 1 \in T
  <2> SUFFICES ASSUME l + (k + 1) <= R PROVE IsLead(F[l], F[l + (k + 1)])
    OBVIOUS
  <2>1. PICK j \in 1 .. R : j = l + (k + 1) /\ j - 1 = l + k /\ j - 1 \in 0 .. R /\ l + k <= R
    <3>1. l + (k + 1) \in 1 .. R /\ (l + (k + 1)) - 1 = l + k /\ l + k \in 0 .. R /\ l + k <= R
      OBVIOUS
    <3>2. QED
      BY <3>1
  <2>2. PICK a \in Seq(S), b \in Seq(S), c \in Seq(S) : a = F[l] /\ b = F[j - 1] /\ c = seqs[j]
    BY <2>1
  <2>3. IsLead(a, b)
    BY <1>2, <2>1, <2>2
  <2>4. F[j] = b \o c
    BY <2>1, <2>2 DEF Joins
  <2>5. Len(b \o c) = Len(b) + Len(c) /\ \A m \in 1 .. Len(b) : (b \o c)[m] = b[m]
    OBVIOUS
  <2>6. Len(a) \in Nat /\ Len(b) \in Nat /\ Len(c) \in Nat
    OBVIOUS
  <2>7. IsLead(a, b \o c)
    BY <2>3, <2>5, <2>6 DEF IsLead
  <2>8. QED
    BY <2>1, <2>2, <2>4, <2>7
<1>3. Nat \subseteq T
  <2> HIDE DEF T
  <2> QED
    BY <1>1, <1>2, NatAll
<1>4. R - l \in T /\ l + (R - l) = R
  <2>1. R - l \in Nat /\ l + (R - l) = R
    OBVIOUS
  <2> HIDE DEF T
  <2>2. QED
    BY <1>3, <2>1
<1>5. l + (R - l) <= R
  BY <1>4
<1>6. QED
  BY <1>4, <1>5

VerifiesBy(leaf, path, N, root) ==
  \E f : ClimbsTo(f, leaf, path, N) /\ (VerifyProof(leaf, path, root) <=> f[N] = root)

LEMMA PathVerifies ==
  ASSUME NEW leaf \in Hashes, NEW path \in Seq(PathNodes), NEW N \in Nat, N = Len(path), NEW root
  PROVE  VerifiesBy(leaf, path, N, root)
<1>1. \A k \in 1 .. N : path[k].hash \in Hashes
  <2> SUFFICES ASSUME NEW k \in 1 .. N PROVE path[k].hash \in Hashes
    OBVIOUS
  <2>1. path[k] \in PathNodes
    OBVIOUS
  <2>2. QED
    BY <2>1 DEF PathNodes
<1>2. \E f : ClimbsTo(f, leaf, path, N) /\ (VerifyProof(leaf, path, root) <=> f[N] = root)
  BY <1>1, VerifyIs
<1>3. QED
  BY <1>2 DEF VerifiesBy

(* A climb level by level: one that has no node is passed over.            *)
Ascends(c, leaf, seqs, R) ==
  /\ c[0] = leaf
  /\ \A j \in 1 .. R : c[j] = IF seqs[j] = << >> THEN c[j - 1] ELSE Climb(c[j - 1], seqs[j][1])

VerifiesAlong(leaf, seqs, R, root) ==
  \E c : Ascends(c, leaf, seqs, R) /\ (VerifyProof(leaf, FlattenSeq(seqs), root) <=> c[R] = root)

LEMMA FlattenVerifies ==
  ASSUME NEW leaf \in Hashes, NEW R \in Nat, NEW seqs \in [1 .. R -> Seq(PathNodes)],
         \A j \in 1 .. R : seqs[j] = << >> \/ Len(seqs[j]) = 1, NEW root
  PROVE  VerifiesAlong(leaf, seqs, R, root)
<1>1. PICK F \in [0 .. R -> Seq(PathNodes)] : Joins(F, seqs, R) /\ FlattenSeq(seqs) = F[R]
  BY Joined
<1>2. PICK path \in Seq(PathNodes) : path = F[R]
  <2>1. R \in 0 .. R
    OBVIOUS
  <2>2. QED
    BY <2>1
<1>3. PICK N \in Nat : N = Len(path)
  OBVIOUS
<1>5. PICK f : ClimbsTo(f, leaf, path, N) /\ (VerifyProof(leaf, path, root) <=> f[N] = root)
  <2>1. VerifiesBy(leaf, path, N, root)
    BY <1>3, PathVerifies
  <2>2. QED
    BY <2>1 DEF VerifiesBy
<1>6. PICK c : c = [l \in 0 .. R |-> f[Len(F[l])]]
  OBVIOUS
<1>7. c[0] = leaf
  <2>1. 0 \in 0 .. R /\ F[0] = << >> /\ Len(<< >>) = 0
    BY <1>1 DEF Joins
  <2>2. f[0] = leaf
    BY <1>5 DEF ClimbsTo
  <2>3. QED
    BY <1>6, <2>1, <2>2
<1>8. ASSUME NEW j \in 1 .. R PROVE c[j] = IF seqs[j] = << >> THEN c[j - 1] ELSE Climb(c[j - 1], seqs[j][1])
  <2>1. j - 1 \in 0 .. R /\ j \in 0 .. R
    OBVIOUS
  <2>2. PICK a \in Seq(PathNodes), b \in Seq(PathNodes) : a = F[j - 1] /\ b = seqs[j]
    BY <2>1
  <2>3. F[j] = a \o b
    BY <1>1, <2>2 DEF Joins
  <2>4. c[j] = f[Len(a \o b)] /\ c[j - 1] = f[Len(a)]
    BY <1>6, <2>1, <2>2, <2>3
  <2>5. CASE b = << >>
    <3>1. a \o b = a
      BY <2>5
    <3>2. QED
      BY <2>2, <2>4, <2>5, <3>1
  <2>6. CASE b # << >>
    <3>1. Len(b) = 1
      BY <2>2, <2>6
    <3>2. Len(a \o b) = Len(a) + 1 /\ (a \o b)[Len(a) + 1] = b[1] /\ Len(a) \in Nat
      BY <3>1, OneMore
    <3>3. IsLead(a \o b, path)
      BY <1>1, <1>2, <2>1, <2>3, JoinsLead
    <3>4. PICK k \in Nat : k = Len(a) + 1 /\ k - 1 = Len(a)
      BY <3>2
    <3>5. k \in 1 .. N /\ path[k] = b[1]
      <4>1. PICK t : t = a \o b /\ Len(t) = k /\ t[k] = b[1]
        BY <3>2, <3>4
      <4>2. k >= 1 /\ k \in 1 .. k
        BY <3>2, <3>4
      <4>3. k <= N /\ path[k] = t[k]
        BY <1>3, <3>3, <4>1, <4>2 DEF IsLead
      <4>4. QED
        BY <4>1, <4>2, <4>3
    <3>6. f[k] = Climb(f[k - 1], path[k])
      BY <1>5, <3>5 DEF ClimbsTo
    <3>7. QED
      BY <2>2, <2>4, <2>6, <3>2, <3>4, <3>5, <3>6
  <2>7. QED
    BY <2>5, <2>6
<1>9. c[R] = f[N]
  <2>1. R \in 0 .. R
    OBVIOUS
  <2>2. QED
    BY <1>2, <1>3, <1>6, <2>1
<1>10. QED
  BY <1>1, <1>2, <1>5, <1>7, <1>8, <1>9 DEF Ascends, VerifiesAlong

LEMMA AboveLooks ==
  ASSUME NEW n \in Nat \ {0}, NEW k \in 0 .. n - 1, NEW l \in Nat
  PROVE  Above(k, l) \in Nat /\ Above(k, l) < Width(n, l) /\ Above(k, l + 1) = Above(k, l) \div 2
<1>1. k \in Nat
  OBVIOUS
<1>2. Above(k, l) \in Nat /\ Above(k, l + 1) = Above(k, l) \div 2
  BY <1>1, AboveIs
<1>3. Above(k, l) < Width(n, l)
  BY AboveIsWithin
<1>4. QED
  BY <1>2, <1>3

(* What GetProof takes from a level.                                       *)
StepAt(s, k, l) ==
  IF Sibling(Above(k, l)) < Len(LevelAt(s, l))
    THEN <<PathNode(LevelAt(s, l), Above(k, l), Sibling(Above(k, l)))>>
    ELSE << >>

LEMMA StepIs ==
  ASSUME NEW s \in Seq(Hashes), NEW k \in 0 .. Len(s) - 1, NEW l \in Nat
  PROVE  /\ StepAt(s, k, l) \in Seq(PathNodes)
         /\ StepAt(s, k, l) = << >> \/ Len(StepAt(s, k, l)) = 1
         /\ StepAt(s, k, l) = << >> <=> Sibling(Above(k, l)) >= Len(LevelAt(s, l))
         /\ StepAt(s, k, l) # << >> =>
              StepAt(s, k, l)[1] = PathNode(LevelAt(s, l), Above(k, l), Beside(LevelAt(s, l), Above(k, l)))
<1>1. PICK u \in Seq(Hashes) : u = LevelAt(s, l)
  BY LevelIs
<1>2. PICK a \in Nat : a = Above(k, l)
  <2>1. k \in Nat
    OBVIOUS
  <2>2. QED
    BY <2>1, AboveIs
<1>3. Sibling(a) \in Nat
  BY DEF Sibling
<1>4. CASE Sibling(a) < Len(u)
  <2>1. PICK node : node = PathNode(u, a, Sibling(a))
    OBVIOUS
  <2>2. At(u, Sibling(a)) \in Hashes
    BY <1>3, <1>4, NodesAreHashes
  <2>3. node \in PathNodes
    BY <2>1, <2>2 DEF PathNode, Position, PathNodes
  <2>4. StepAt(s, k, l) = <<node>>
    BY <1>1, <1>2, <1>4, <2>1 DEF StepAt
  <2>5. Beside(u, a) = Sibling(a)
    BY <1>4 DEF Beside
  <2>6. <<node>> \in Seq(PathNodes) /\ Len(<<node>>) = 1 /\ <<node>> # << >> /\ <<node>>[1] = node
    BY <2>3
  <2>7. ~(Sibling(a) >= Len(u))
    BY <1>3, <1>4
  <2>8. QED
    BY <1>1, <1>2, <2>1, <2>4, <2>5, <2>6, <2>7
<1>5. CASE ~(Sibling(a) < Len(u))
  <2>1. StepAt(s, k, l) = << >>
    BY <1>1, <1>2, <1>5 DEF StepAt
  <2>2. Sibling(a) >= Len(u)
    BY <1>3, <1>5
  <2>3. QED
    BY <1>1, <1>2, <2>1, <2>2
<1>6. QED
  BY <1>4, <1>5

LEMMA TreeProofIs ==
  ASSUME NEW s \in Seq(Hashes), NEW R \in Nat, R = Rounds(Len(s)), NEW k \in Nat
  PROVE  GetProof(buildTree(s), k) = FlattenSeq([j \in 1 .. R |-> StepAt(s, k, j - 1)])
<1>1. PICK nodes : nodes = [l \in 1 .. R + 1 |-> LevelAt(s, l - 1)]
  OBVIOUS
<1>2. nodes = buildTree(s) /\ Len(nodes) = R + 1 /\ (R + 1) - 1 = R
  BY <1>1 DEF buildTree
<1>3. ASSUME NEW j \in 1 .. R PROVE At(nodes, j - 1) = LevelAt(s, j - 1)
  <2>1. (j - 1) + 1 = j /\ j \in 1 .. R + 1
    OBVIOUS
  <2>2. QED
    BY <1>1, <2>1 DEF At
<1>4. PICK seqs : seqs = [j \in 1 .. R |-> IF Sibling(Above(k, j - 1)) < Len(At(nodes, j - 1))
                                             THEN <<PathNode(At(nodes, j - 1), Above(k, j - 1), Sibling(Above(k, j - 1)))>>
                                             ELSE << >>]
  OBVIOUS
<1>5. GetProof(nodes, k) = FlattenSeq(seqs)
  BY <1>2, <1>4 DEF GetProof
<1>6. seqs = [j \in 1 .. R |-> StepAt(s, k, j - 1)]
  BY <1>3, <1>4 DEF StepAt
<1>7. QED
  BY <1>2, <1>5, <1>6

(* v is no node of level l, nor of one above.                              *)
Off(s, v, l) == \A j \in Nat : j >= l => ~IsNodeAt(s, v, j)

LEMMA OffClimbs ==
  ASSUME NEW s \in Seq(Hashes), NEW l \in Nat, NEW v, Off(s, v, l), NEW node
  PROVE  Off(s, Climb(v, node), l + 1)
<1> SUFFICES ASSUME NEW j \in Nat, j >= l + 1, IsNodeAt(s, Climb(v, node), j) PROVE FALSE
  BY DEF Off
<1>1. PICK d \in Nat : j = d + 1 /\ d >= l
  <2>1. j - 1 \in Nat /\ j = (j - 1) + 1 /\ j - 1 >= l
    OBVIOUS
  <2>2. QED
    BY <2>1
<1>2. PICK w : w = Climb(v, node)
  OBVIOUS
<1>3. IsNodeAt(s, w, d + 1)
  BY <1>1, <1>2
<1>4. PICK a, b : w = hashPair(a, b) /\ IsNodeAt(s, a, d) /\ IsNodeAt(s, b, d)
  BY <1>3, NodeParts
<1>5. v = a \/ v = b
  BY <1>2, <1>4 DEF Climb, hashPair
<1>6. QED
  BY <1>1, <1>4, <1>5 DEF Off

(* A proof verifies if and only if every level below the root gives a node.*)
LEMMA ProofPasses ==
  ASSUME NEW s \in Seq(Hashes), Flat(s), NEW k \in 0 .. Len(s) - 1, NEW R \in Nat, R = Rounds(Len(s))
  PROVE  VerifyProof(At(s, k), GetProof(buildTree(s), k), TopOf(s)) <=> \A l \in 0 .. R - 1 : StepAt(s, k, l) # << >>
<1>1. PICK n \in Nat \ {0} : n = Len(s) /\ k \in Nat /\ k \in 0 .. n - 1
  <2>1. Len(s) \in Nat \ {0} /\ k \in Nat
    OBVIOUS
  <2>2. QED
    BY <2>1
<1>0. \A l \in Nat : Above(k, l) \in Nat /\ Above(k, l) < Width(n, l) /\ Above(k, l + 1) = Above(k, l) \div 2
  BY <1>1, AboveLooks
<1>2. PICK seqs : seqs = [j \in 1 .. R |-> StepAt(s, k, j - 1)]
  OBVIOUS
<1>3. PICK leaf \in Hashes : leaf = At(s, k)
  BY <1>1, NodesAreHashes
<1>4. /\ seqs \in [1 .. R -> Seq(PathNodes)]
      /\ \A j \in 1 .. R : seqs[j] = << >> \/ Len(seqs[j]) = 1
  <2>1. ASSUME NEW j \in 1 .. R PROVE seqs[j] \in Seq(PathNodes) /\ (seqs[j] = << >> \/ Len(seqs[j]) = 1)
    <3>1. PICK l \in Nat : l = j - 1
      OBVIOUS
    <3>2. seqs[j] = StepAt(s, k, l)
      BY <1>2, <3>1
    <3>3. QED
      BY <3>2, StepIs
  <2>2. QED
    BY <1>2, <2>1
<1>5. PICK c : Ascends(c, leaf, seqs, R) /\ (VerifyProof(leaf, FlattenSeq(seqs), TopOf(s)) <=> c[R] = TopOf(s))
  <2>1. VerifiesAlong(leaf, seqs, R, TopOf(s))
    BY <1>4, FlattenVerifies
  <2>2. QED
    BY <2>1 DEF VerifiesAlong
<1>6. GetProof(buildTree(s), k) = FlattenSeq(seqs)
  BY <1>1, <1>2, TreeProofIs
<1>7. PICK g : g = [l \in 0 .. R |-> At(LevelAt(s, l), Above(k, l))]
  OBVIOUS
<1>8. ASSUME NEW l \in 0 .. R PROVE IsNodeAt(s, g[l], l)
  <2>1. l \in Nat /\ Above(k, l) \in Nat /\ Above(k, l) < Width(n, l)
    BY <1>0
  <2>2. g[l] = At(LevelAt(s, l), Above(k, l))
    BY <1>7
  <2>3. QED
    BY <1>1, <2>1, <2>2 DEF IsNodeAt
<1>9. ASSUME NEW l \in 0 .. R - 1
      PROVE  /\ StepAt(s, k, l) = << >> => c[l + 1] = c[l]
             /\ StepAt(s, k, l) # << >> => c[l + 1] = Climb(c[l], StepAt(s, k, l)[1]) /\ (c[l + 1] = g[l + 1] <=> c[l] = g[l])
  <2>1. PICK j \in 1 .. R : j = l + 1 /\ j - 1 = l
    <3>1. l + 1 \in 1 .. R /\ (l + 1) - 1 = l
      OBVIOUS
    <3>2. QED
      BY <3>1
  <2>2. seqs[j] = StepAt(s, k, l)
    BY <1>2, <2>1
  <2>3. c[j] = IF StepAt(s, k, l) = << >> THEN c[l] ELSE Climb(c[l], StepAt(s, k, l)[1])
    BY <1>5, <2>1, <2>2 DEF Ascends
  <2>4. PICK u \in Seq(Hashes) : u = LevelAt(s, l) /\ Len(u) = Width(n, l) /\ IsParent(u, LevelAt(s, l + 1))
    BY <1>1, LevelIs
  <2>5. PICK a \in Nat : a = Above(k, l) /\ a < Width(n, l) /\ Above(k, l + 1) = a \div 2
    <3>1. l \in Nat
      OBVIOUS
    <3>2. QED
      BY <1>0, <3>1
  <2>6. \A x : Climb(x, PathNode(u, a, Beside(u, a))) = At(LevelAt(s, l + 1), a \div 2) <=> x = At(u, a)
    BY <2>4, <2>5, ClimbIs
  <2>7. g[l] = At(u, a) /\ g[l + 1] = At(LevelAt(s, l + 1), a \div 2)
    BY <1>7, <2>1, <2>4, <2>5
  <2>8. StepAt(s, k, l) # << >> => StepAt(s, k, l)[1] = PathNode(u, a, Beside(u, a))
    BY <2>4, <2>5, StepIs
  <2>9. QED
    BY <2>1, <2>3, <2>6, <2>7, <2>8
<1> DEFINE Missing(l) == \E m \in 0 .. l - 1 : StepAt(s, k, m) = << >>
<1> DEFINE T == {l \in Nat : l <= R => (Missing(l) /\ Off(s, c[l], l)) \/ (~Missing(l) /\ c[l] = g[l])}
<1>10. 0 \in T
  <2>1. LevelAt(s, 0) = s /\ Above(k, 0) = k /\ 0 \in 0 .. R
    BY <1>1, LevelIs, AboveIs
  <2>2. c[0] = g[0]
    BY <1>3, <1>5, <1>7, <2>1 DEF Ascends
  <2>3. ~Missing(0)
    OBVIOUS
  <2>4. QED
    BY <2>2, <2>3
<1>11. ASSUME NEW l \in Nat, l \in T PROVE l + 1 \in T
  <2> SUFFICES ASSUME l + 1 <= R PROVE (Missing(l + 1) /\ Off(s, c[l + 1], l + 1)) \/ (~Missing(l + 1) /\ c[l + 1] = g[l + 1])
    OBVIOUS
  <2>1. l \in 0 .. R - 1 /\ l \in 0 .. R
    OBVIOUS
  <2>2. Missing(l + 1) <=> Missing(l) \/ StepAt(s, k, l) = << >>
    <3>1. 0 .. (l + 1) - 1 = (0 .. l - 1) \cup {l}
      OBVIOUS
    <3>2. QED
      BY <3>1
  <2>3. (Missing(l) /\ Off(s, c[l], l)) \/ (~Missing(l) /\ c[l] = g[l])
    BY <1>11
  <2> HIDE DEF Missing
  <2>4. CASE StepAt(s, k, l) = << >>
    <3>1. c[l + 1] = c[l]
      BY <1>9, <2>1, <2>4
    <3>2. Off(s, c[l], l + 1)
      <4>1. CASE Off(s, c[l], l)
        BY <4>1 DEF Off
      <4>2. CASE c[l] = g[l]
        <5>1. IsNodeAt(s, c[l], l)
          BY <1>8, <2>1, <4>2
        <5>2. PICK v : v = c[l]
          OBVIOUS
        <5>3. \A j \in Nat : j > l => ~IsNodeAt(s, v, j)
          BY <5>1, <5>2, NodeOnce
        <5>4. QED
          BY <5>2, <5>3 DEF Off
      <4>3. QED
        BY <2>3, <4>1, <4>2
    <3>3. QED
      BY <2>2, <2>4, <3>1, <3>2
  <2>5. CASE StepAt(s, k, l) # << >>
    <3>1. c[l + 1] = Climb(c[l], StepAt(s, k, l)[1]) /\ (c[l + 1] = g[l + 1] <=> c[l] = g[l])
      BY <1>9, <2>1, <2>5
    <3>2. Off(s, c[l], l) => Off(s, c[l + 1], l + 1)
      <4> SUFFICES ASSUME Off(s, c[l], l) PROVE Off(s, c[l + 1], l + 1)
        OBVIOUS
      <4>1. PICK v, node : v = c[l] /\ node = StepAt(s, k, l)[1]
        OBVIOUS
      <4>2. Off(s, Climb(v, node), l + 1)
        BY <4>1, OffClimbs
      <4>3. QED
        BY <3>1, <4>1, <4>2
    <3>3. QED
      BY <2>2, <2>3, <2>5, <3>1, <3>2
  <2>6. QED
    BY <2>4, <2>5
<1>12. Nat \subseteq T
  <2> HIDE DEF T
  <2> QED
    BY <1>10, <1>11, NatAll
<1>13. g[R] = TopOf(s)
  <2>1. Width(n, R) = 1 /\ Above(k, R) < Width(n, R) /\ Above(k, R) \in Nat
    BY <1>0, <1>1, WidthAtTop
  <2>2. Above(k, R) = 0 /\ R \in 0 .. R
    BY <2>1
  <2>3. QED
    BY <1>7, <2>2 DEF TopOf
<1>14. (Missing(R) /\ Off(s, c[R], R)) \/ (~Missing(R) /\ c[R] = g[R])
  BY <1>12
<1>15. Off(s, c[R], R) => c[R] # g[R]
  <2>1. R \in 0 .. R
    OBVIOUS
  <2>2. IsNodeAt(s, g[R], R)
    BY <1>8, <2>1
  <2>3. QED
    BY <2>2 DEF Off
<1>16. ~Missing(R) <=> \A l \in 0 .. R - 1 : StepAt(s, k, l) # << >>
  OBVIOUS
<1>17. QED
  <2> HIDE DEF Missing
  <2> QED
    BY <1>3, <1>5, <1>6, <1>13, <1>14, <1>15, <1>16

LEMMA LonelyIs ==
  ASSUME NEW n \in Nat \ {0}, NEW k \in 0 .. n - 1
  PROVE  Lonely(n, k) <=> \E l \in 0 .. Rounds(n) - 1 : Sibling(Above(k, l)) >= Width(n, l)
<1>1. PICK r \in 0 .. n : r = Rounds(n) /\ \A l \in 0 .. r - 1 : Width(n, l) > 1
  BY RoundsIs
<1>2. ASSUME NEW l \in Nat PROVE l < r <=> Pow2(l) < n
  <2>1. Width(n, l) <= 1 <=> Pow2(l) >= n
    BY RoundsCover
  <2>2. Width(n, l) \in Nat /\ Pow2(l) \in Nat
    BY WidthIs, PowIs
  <2>3. l >= r => Width(n, l) = 1
    BY <1>1, WidthAtTop
  <2>4. l < r => Width(n, l) > 1
    BY <1>1
  <2>5. QED
    BY <1>1, <2>1, <2>2, <2>3, <2>4
<1>3. ASSUME NEW l \in Nat
      PROVE  Above(k, l) % 2 = 0 /\ (Above(k, l) + 1) * Pow2(l) >= n <=> Sibling(Above(k, l)) >= Width(n, l)
  <2>1. PICK a \in Nat, w \in Nat, p \in Nat : a = Above(k, l) /\ w = Width(n, l) /\ p = Pow2(l) /\ a < w
    <3>1. Above(k, l) \in Nat /\ Above(k, l) < Width(n, l)
      BY AboveLooks
    <3>2. Width(n, l) \in Nat /\ Pow2(l) \in Nat
      BY WidthIs, PowIs
    <3>3. QED
      BY <3>1, <3>2
  <2>2. (a + 1) * p < n <=> a + 1 < w
    <3>1. a + 1 \in Nat
      OBVIOUS
    <3>2. QED
      BY <2>1, <3>1, Covers
  <2>3. PICK m \in Nat : m = (a + 1) * p
    <3>1. (a + 1) * p \in Nat
      OBVIOUS
    <3>2. QED
      BY <3>1
  <2>4. m >= n <=> a + 1 >= w
    BY <2>2, <2>3
  <2>5. Sibling(a) = IF a % 2 = 0 THEN a + 1 ELSE a - 1
    BY DEF Sibling
  <2>6. a % 2 = 0 /\ m >= n <=> Sibling(a) >= w
    BY <2>1, <2>4, <2>5
  <2>7. QED
    BY <2>1, <2>3, <2>6
<1>4. Lonely(n, k) <=> \E l \in 0 .. n : Pow2(l) < n /\ Sibling(Above(k, l)) >= Width(n, l)
  <2>1. \A l \in 0 .. n : l \in Nat
    OBVIOUS
  <2>2. QED
    BY <1>3, <2>1 DEF Lonely
<1>5. \A l : l \in 0 .. n /\ Pow2(l) < n <=> l \in 0 .. r - 1
  <2> SUFFICES ASSUME NEW l PROVE l \in 0 .. n /\ Pow2(l) < n <=> l \in 0 .. r - 1
    OBVIOUS
  <2>1. l \in 0 .. n => l \in Nat
    OBVIOUS
  <2>2. l \in 0 .. r - 1 => l \in Nat /\ l \in 0 .. n /\ l < r
    OBVIOUS
  <2>3. l \in Nat /\ l < r => l \in 0 .. r - 1
    OBVIOUS
  <2>4. QED
    BY <1>2, <2>1, <2>2, <2>3
<1>6. QED
  BY <1>1, <1>4, <1>5

----------------------------------------------------------------------------
(* Lists, searches and reports of CertificateDesk, under way.              *)

Since(T, s) == {x \in T : TimeOf[x] >= s}
Newer(S, x) == Cardinality({y \in S : TimeOf[y] > TimeOf[x]})

Lists ==
  [at : {"ingesting"}, batch : Seq(1 .. MaxEvents), results : Seq({"stored", "duplicate", "failed"}),
   stored : SUBSET (1 .. MaxEvents)]

Searches ==
  [at : {"asking", "counted", "listed"}, kind : {"certs", "events"}, since : Nat, page : Nat \ {0},
   raced : BOOLEAN, total : Nat, size : Nat, wanted : SUBSET Nat, got : SUBSET Nat]

Reports ==
  [at : {"traces", "certs", "types", "report"}, since : Nat, traces : SUBSET Nat, totalEvents : Nat,
   certs : SUBSET Nat, failed : BOOLEAN, eventsByType : [EventTypes -> Nat], tokens : Nat]

(* A list whose events go into a table T.                                  *)
ListFits(c, T) ==
  /\ Len(c.results) <= Len(c.batch)
  /\ c.stored \subseteq T
  /\ \A k \in 1 .. Len(c.results) :
       /\ c.results[k] # "failed" => c.batch[k] \in T
       /\ c.results[k] = "stored" => c.batch[k] \notin c.stored
       /\ \A j \in 1 .. k - 1 :
            c.batch[j] = c.batch[k] => c.results[j] # "stored" \/ c.results[k] # "stored"

(* A search in a table T: the rows wanted and not got yet come after those *)
(* of the pages read, but for those that share their time.                 *)
SearchFits(c, T) ==
  /\ c.wanted \subseteq Since(T, c.since)
  /\ c.at = "counted" => c.size > 0 /\ (c.raced \/ c.total = Cardinality(T))
  /\ c.at # "listed" =>
       \A x \in c.wanted \ c.got :
         Tied(Since(T, c.since), x) \/ (c.page - 1) * c.size <= Newer(Since(T, c.since), x)
  /\ c.at = "listed" => c.raced \/ \A x \in c.wanted \ c.got : Tied(Since(T, c.since), x)

Shown(c) == c.eventsByType["INPUT"] + c.eventsByType["OUTPUT"]

ReportFits(c, T) ==
  /\ c.at \in {"traces", "certs"} => c.totalEvents <= Cardinality(Since(T, c.since))
  /\ c.at \in {"types", "report"} => c.failed \/ c.totalEvents <= Shown(c)

Rows == (1 .. MaxCerts) \cup (1 .. MaxEvents)

Tables(T) == T \subseteq Rows /\ IsFiniteSet(T)

LEMMA RowsAre == Rows \subseteq Nat /\ \A x \in Rows : TimeOf[x] \in Nat
BY DeskAssumption DEF DeskAssumption, Rows

LEMMA CountsGrow ==
  ASSUME NEW T, NEW U, T \subseteq U, Tables(U)
  PROVE  /\ Tables(T) /\ Cardinality(T) \in Nat /\ Cardinality(U) \in Nat /\ Cardinality(T) <= Cardinality(U)
         /\ \A s \in Nat : /\ Since(T, s) \subseteq Since(U, s)
                           /\ Cardinality(Since(T, s)) \in Nat /\ Cardinality(Since(U, s)) \in Nat
                           /\ Cardinality(Since(T, s)) <= Cardinality(Since(U, s))
                           /\ \A x \in Nat : /\ Newer(Since(T, s), x) \in Nat /\ Newer(Since(U, s), x) \in Nat
                                             /\ Newer(Since(T, s), x) <= Newer(Since(U, s), x)
                                             /\ Tied(Since(T, s), x) => Tied(Since(U, s), x)
<1>1. \A A, B : A \subseteq B /\ B \subseteq U =>
        Cardinality(A) \in Nat /\ Cardinality(B) \in Nat /\ Cardinality(A) <= Cardinality(B)
  BY FS_Subset, FS_CardinalityType DEF Tables
<1>2. Tables(T)
  BY FS_Subset DEF Tables
<1>3. ASSUME NEW s \in Nat
      PROVE  Since(T, s) \subseteq Since(U, s) /\ Since(U, s) \subseteq U
  BY DEF Since
<1>4. ASSUME NEW s \in Nat, NEW x \in Nat
      PROVE  /\ Newer(Since(T, s), x) \in Nat /\ Newer(Since(U, s), x) \in Nat
             /\ Newer(Since(T, s), x) <= Newer(Since(U, s), x)
             /\ Tied(Since(T, s), x) => Tied(Since(U, s), x)
  <2>1. PICK A : A = {y \in Since(T, s) : TimeOf[y] > TimeOf[x]}
    OBVIOUS
  <2>2. PICK B : B = {y \in Since(U, s) : TimeOf[y] > TimeOf[x]}
    OBVIOUS
  <2>3. A \subseteq B /\ B \subseteq U
    BY <1>3, <2>1, <2>2
  <2>4. Tied(Since(T, s), x) => Tied(Since(U, s), x)
    BY <1>3 DEF Tied
  <2>5. QED
    BY <1>1, <2>1, <2>2, <2>3, <2>4 DEF Newer
<1>5. QED
  BY <1>1, <1>2, <1>3, <1>4

(* Rows come while a search is under way.                                  *)
LEMMA SearchGrows ==
  ASSUME NEW c \in Searches, NEW T, NEW U, T \subseteq U, Tables(U), SearchFits(c, T),
         NEW d \in Searches, d = IF c.at = "counted" THEN [c EXCEPT !.raced = TRUE] ELSE c
  PROVE  SearchFits(d, U)
<1>1. /\ d.wanted = c.wanted /\ d.got = c.got /\ d.page = c.page /\ d.size = c.size
      /\ d.since = c.since /\ d.at = c.at /\ d.total = c.total /\ c.raced => d.raced
      /\ d.at = "counted" => d.raced
  BY DEF Searches
<1>2. PICK s \in Nat : s = c.since
  BY DEF Searches
<1>3. Since(T, s) \subseteq Since(U, s)
  BY CountsGrow
<1>4. ASSUME NEW x \in c.wanted \ c.got, c.at # "listed"
      PROVE  Tied(Since(U, s), x) \/ (c.page - 1) * c.size <= Newer(Since(U, s), x)
  <2>1. x \in Nat
    BY DEF Searches
  <2>2. /\ Newer(Since(T, s), x) \in Nat /\ Newer(Since(U, s), x) \in Nat /\ Newer(Since(T, s), x) <= Newer(Since(U, s), x)
        /\ Tied(Since(T, s), x) => Tied(Since(U, s), x)
    BY <2>1, CountsGrow
  <2>3. PICK m : m = (c.page - 1) * c.size
    OBVIOUS
  <2>4. m \in Nat
    BY <2>3 DEF Searches
  <2>5. Tied(Since(T, s), x) \/ m <= Newer(Since(T, s), x)
    BY <1>2, <1>4, <2>3 DEF SearchFits
  <2>6. QED
    BY <2>2, <2>3, <2>4, <2>5
<1>5. ASSUME d.at = "listed", ~d.raced, NEW x \in d.wanted \ d.got PROVE Tied(Since(U, d.since), x)
  <2>1. x \in Nat
    BY <1>1 DEF Searches
  <2>2. Tied(Since(T, s), x)
    BY <1>1, <1>2, <1>5 DEF SearchFits
  <2>3. Tied(Since(T, s), x) => Tied(Since(U, s), x)
    BY <2>1, CountsGrow
  <2>4. QED
    BY <1>1, <1>2, <2>2, <2>3
<1>6. d.at = "counted" => d.size > 0
  BY <1>1 DEF SearchFits
<1>7. d.wanted \subseteq Since(U, d.since)
  BY <1>1, <1>2, <1>3 DEF SearchFits
<1>8. \A x \in d.wanted \ d.got :
        d.at # "listed" => Tied(Since(U, d.since), x) \/ (d.page - 1) * d.size <= Newer(Since(U, d.since), x)
  BY <1>1, <1>2, <1>4
<1>9. QED
  BY <1>1, <1>5, <1>6, <1>7, <1>8 DEF SearchFits

(* A page takes the rows that come next.                                   *)
LEMMA PagesCover ==
  ASSUME NEW total \in Nat, NEW size \in Nat \ {0}, NEW page \in Nat, page >= Pages(total, size)
  PROVE  total <= page * size
<1>1. PICK a \in Nat : a = total + size - 1
  OBVIOUS
<1>2. PICK q \in Nat, r \in Nat : q = a \div size /\ r = a % size
  OBVIOUS
<1>3. a = size * q + r /\ r < size
  BY <1>2
<1>4. q <= page
  BY <1>1, <1>2 DEF Pages
<1>5. size * q <= size * page
  <2>1. PICK e \in Nat : page = q + e
    <3>1. page - q \in Nat /\ page = q + (page - q)
      BY <1>4
    <3>2. QED
      BY <3>1
  <2>2. size * page = size * q + size * e
    BY <2>1
  <2>3. size * e \in Nat /\ size * q \in Nat
    OBVIOUS
  <2>4. QED
    BY <2>2, <2>3
<1>6. size * page = page * size /\ size * page \in Nat /\ size * q \in Nat
  OBVIOUS
<1>7. total < size * q + 1
  BY <1>1, <1>3, <1>6
<1>8. QED
  BY <1>5, <1>6, <1>7

(* The first rows of a query hold those with fewer newer ones than there   *)
(* are first rows, if they are alone in their time, and no others.         *)
LEMMA FirstsAre ==
  ASSUME NEW S, Tables(S), NEW k \in Nat, NEW F \in Firsts(S, TimeOf, k), NEW x \in S, ~Tied(S, x)
  PROVE  /\ F \subseteq S
         /\ x \in F => Newer(S, x) < k
         /\ x \notin F => k <= Newer(S, x)
<1>1. /\ F \subseteq S /\ Cardinality(F) <= k /\ (F = S \/ Cardinality(F) = k)
      /\ \A y \in F, z \in S \ F : TimeOf[y] >= TimeOf[z]
  BY DEF Firsts
<1>2. \A y \in S : TimeOf[y] \in Nat
  BY RowsAre DEF Tables
<1>3. PICK A : A = {y \in S : TimeOf[y] > TimeOf[x]}
  OBVIOUS
<1>4. A \subseteq S /\ IsFiniteSet(A) /\ IsFiniteSet(F) /\ x \notin A
  <2>1. x \notin A
    BY <1>2, <1>3
  <2>2. A \subseteq S
    BY <1>3
  <2>3. QED
    BY <1>1, <2>1, <2>2, FS_Subset DEF Tables
<1>5. Cardinality(A) \in Nat /\ Cardinality(F) \in Nat /\ Newer(S, x) = Cardinality(A)
  BY <1>3, <1>4, FS_CardinalityType DEF Newer
<1>6. ASSUME x \in F PROVE Newer(S, x) < k
  <2>1. A \subseteq F
    <3> SUFFICES ASSUME NEW y \in A, y \notin F PROVE FALSE
      OBVIOUS
    <3>1. y \in S /\ TimeOf[y] > TimeOf[x]
      BY <1>3
    <3>2. TimeOf[x] >= TimeOf[y]
      BY <1>1, <1>6, <3>1
    <3>3. QED
      BY <1>2, <3>1, <3>2
  <2>2. A # F
    BY <1>4, <1>6
  <2>3. Cardinality(A) <= Cardinality(F) /\ Cardinality(A) # Cardinality(F)
    BY <1>4, <2>1, <2>2, FS_Subset
  <2>4. QED
    BY <1>1, <1>5, <2>3
<1>7. ASSUME x \notin F PROVE k <= Newer(S, x)
  <2>1. F \subseteq A
    <3> SUFFICES ASSUME NEW y \in F PROVE y \in A
      OBVIOUS
    <3>1. y \in S /\ y # x /\ TimeOf[y] >= TimeOf[x]
      BY <1>1, <1>7
    <3>2. TimeOf[y] # TimeOf[x]
      BY <3>1 DEF Tied
    <3>3. QED
      BY <1>2, <1>3, <3>1, <3>2
  <2>2. Cardinality(F) <= Cardinality(A)
    BY <1>4, <2>1, FS_Subset
  <2>3. Cardinality(F) = k
    BY <1>1, <1>7
  <2>4. QED
    BY <1>5, <2>2, <2>3
<1>8. QED
  BY <1>1, <1>6, <1>7

LEMMA PageIs ==
  ASSUME NEW S, NEW n, NEW o, NEW page \in PagesOf(S, n, o)
  PROVE  /\ page \subseteq S
         /\ \E F \in Firsts(S, TimeOf, o), G \in Firsts(S, TimeOf, o + n) : page = G \ F
<1>1. PICK F \in Firsts(S, TimeOf, o), G \in Firsts(S, TimeOf, o + n) : page = G \ F
  BY DEF PagesOf
<1>2. G \subseteq S
  BY DEF Firsts
<1>3. QED
  BY <1>1, <1>2

LEMMA PageFits ==
  ASSUME NEW c \in Searches, NEW T, Tables(T), SearchFits(c, T), c.at = "counted",
         NEW page \in PagesOf(Since(T, c.since), c.size, (c.page - 1) * c.size),
         NEW got, got = c.got \cup page
  PROVE  /\ got \subseteq Nat
         /\ \A x \in c.wanted \ got : Tied(Since(T, c.since), x) \/ c.page * c.size <= Newer(Since(T, c.since), x)
         /\ c.page >= Pages(c.total, c.size) =>
              c.raced \/ \A x \in c.wanted \ got : Tied(Since(T, c.since), x)
<1>1. PICK s \in Nat, p \in Nat \ {0}, n \in Nat \ {0}, t \in Nat :
        s = c.since /\ p = c.page /\ n = c.size /\ t = c.total
  BY DEF Searches, SearchFits
<1>2. PICK S : S = Since(T, s)
  OBVIOUS
<1>3. S \subseteq T /\ S \subseteq Nat /\ IsFiniteSet(S) /\ Tables(S)
  BY <1>2, RowsAre, FS_Subset DEF Since, Tables
<1>4. \A x \in Nat : Newer(S, x) \in Nat
  BY <1>1, <1>2, CountsGrow
<1>5. PICK o \in Nat : o = (p - 1) * n /\ o + n = p * n
  <2>1. p - 1 \in Nat
    OBVIOUS
  <2>2. (p - 1) * n \in Nat
    BY <2>1
  <2>3. (p - 1) * n + n = p * n
    OBVIOUS
  <2>4. QED
    BY <2>2, <2>3
<1>6. page \in PagesOf(S, n, o)
  BY <1>1, <1>2, <1>5
<1>7. PICK F \in Firsts(S, TimeOf, o), G \in Firsts(S, TimeOf, o + n) : page = G \ F /\ page \subseteq S
  BY <1>6, PageIs
<1>8. got \subseteq Nat
  BY <1>3, <1>7 DEF Searches
<1>9. ASSUME NEW x \in c.wanted \ got, ~Tied(S, x) PROVE x \in S /\ o + n <= Newer(S, x)
  <2>1. x \in S
    BY <1>1, <1>2 DEF SearchFits
  <2>2. x \in c.wanted \ c.got
    OBVIOUS
  <2>3. o <= Newer(S, x)
    BY <1>1, <1>2, <1>5, <1>9, <2>2 DEF SearchFits
  <2>4. Newer(S, x) \in Nat
    BY <1>3, <1>4, <2>1
  <2>5. x \in F => Newer(S, x) < o
    BY <1>3, <1>7, <1>9, <2>1, FirstsAre
  <2>6. x \notin F
    BY <2>3, <2>4, <2>5
  <2>7. x \notin G
    BY <1>7, <2>6
  <2>8. o + n \in Nat
    OBVIOUS
  <2>9. x \notin G => o + n <= Newer(S, x)
    BY <1>3, <1>7, <1>9, <2>1, <2>8, FirstsAre
  <2>10. QED
    BY <2>1, <2>7, <2>9
<1>10. ASSUME c.page >= Pages(c.total, c.size), ~c.raced, NEW x \in c.wanted \ got PROVE Tied(S, x)
  <2> SUFFICES ASSUME ~Tied(S, x) PROVE FALSE
    OBVIOUS
  <2>1. t <= o + n
    BY <1>1, <1>5, <1>10, PagesCover
  <2>2. t = Cardinality(T)
    BY <1>1, <1>10 DEF SearchFits
  <2>3. x \in S /\ o + n <= Newer(S, x)
    BY <1>9
  <2>4. Newer(S, x) < Cardinality(T)
    <3>1. PICK A : A = {y \in S : TimeOf[y] > TimeOf[x]}
      OBVIOUS
    <3>2. A \subseteq S /\ x \notin A
      BY <1>3, <2>3, <3>1, RowsAre DEF Tables
    <3>3. A \subseteq T /\ x \in T /\ A # T
      BY <1>3, <2>3, <3>2
    <3>4. Cardinality(A) < Cardinality(T)
      <4>1. IsFiniteSet(A) /\ Cardinality(A) <= Cardinality(T) /\ Cardinality(A) # Cardinality(T)
        BY <3>3, FS_Subset DEF Tables
      <4>2. Cardinality(A) \in Nat /\ Cardinality(T) \in Nat
        BY <4>1, FS_CardinalityType DEF Tables
      <4>3. QED
        BY <4>1, <4>2
    <3>5. QED
      BY <3>1, <3>4 DEF Newer
  <2>5. Newer(S, x) \in Nat /\ Cardinality(T) \in Nat
    BY <1>3, <1>4, <2>3, FS_CardinalityType DEF Tables
  <2>6. QED
    BY <2>1, <2>2, <2>3, <2>4, <2>5
<1>11. QED
  BY <1>1, <1>2, <1>5, <1>8, <1>9, <1>10

LEMMA ReportGrows ==
  ASSUME NEW c \in Reports, NEW T, NEW U, T \subseteq U, Tables(U), ReportFits(c, T)
  PROVE  ReportFits(c, U)
<1>1. PICK s \in Nat, t \in Nat : s = c.since /\ t = c.totalEvents
  BY DEF Reports
<1>2. /\ Cardinality(Since(T, s)) \in Nat /\ Cardinality(Since(U, s)) \in Nat
      /\ Cardinality(Since(T, s)) <= Cardinality(Since(U, s))
  BY CountsGrow
<1>3. c.at \in {"traces", "certs"} => t <= Cardinality(Since(T, s))
  BY <1>1 DEF ReportFits
<1>4. c.at \in {"types", "report"} => c.failed \/ c.totalEvents <= Shown(c)
  BY DEF ReportFits
<1>5. c.at \in {"traces", "certs"} => t <= Cardinality(Since(U, s))
  BY <1>2, <1>3
<1>6. QED
  BY <1>1, <1>4, <1>5 DEF ReportFits

(* The rows of the two types are all the rows.                             *)
LEMMA TypesAddUp ==
  ASSUME NEW S, Tables(S)
  PROVE  /\ \A t \in EventTypes : Cardinality({e \in S : TypeOf(e) = t}) \in Nat
         /\ Cardinality(S) = Cardinality({e \in S : TypeOf(e) = "INPUT"}) + Cardinality({e \in S : TypeOf(e) = "OUTPUT"})
<1>1. PICK A : A = {e \in S : TypeOf(e) = "INPUT"}
  OBVIOUS
<1>2. PICK B : B = {e \in S : TypeOf(e) = "OUTPUT"}
  OBVIOUS
<1>3. \A e : TypeOf(e) = "INPUT" \/ TypeOf(e) = "OUTPUT"
  BY DEF TypeOf
<1>4. S = A \cup B
  BY <1>1, <1>2, <1>3
<1>5. A \cap B = {}
  BY <1>1, <1>2
<1>6. IsFiniteSet(A) /\ IsFiniteSet(B)
  BY <1>4, FS_Subset DEF Tables
<1>7. Cardinality(A) \in Nat /\ Cardinality(B) \in Nat
  BY <1>6, FS_CardinalityType
<1>8. Cardinality(A \cup B) = Cardinality(A) + Cardinality(B) - Cardinality(A \cap B)
  BY <1>6, FS_Union
<1>9. Cardinality(A \cap B) = 0
  BY <1>5, FS_EmptySet
<1>10. Cardinality(S) = Cardinality(A) + Cardinality(B)
  BY <1>4, <1>7, <1>8, <1>9
<1>11. QED
  BY <1>1, <1>2, <1>7, <1>10 DEF EventTypes

DeskInv ==
  /\ certs \subseteq 1 .. MaxCerts /\ events \subseteq 1 .. MaxEvents
  /\ damage \in [1 .. MaxCerts -> Fields \cup {"none"}]
  /\ client = Idle \/ client \in Lists \/ client \in Searches \/ client \in Reports
  /\ client \in Lists => ListFits(client, events)
  /\ client \in Searches => SearchFits(client, Counted(client.kind))
  /\ client \in Reports => ReportFits(client, events)

(* What a client does is known by its place.                               *)
LEMMA AtPlaces ==
  /\ Idle.at = "idle" /\ Idle \notin Lists /\ Idle \notin Searches /\ Idle \notin Reports
  /\ \A c \in Lists : c.at = "ingesting" /\ c \notin Searches /\ c \notin Reports /\ c # Idle
  /\ \A c \in Searches : c.at \in {"asking", "counted", "listed"} /\ c \notin Lists /\ c \notin Reports /\ c # Idle
  /\ \A c \in Reports :
       c.at \in {"traces", "certs", "types", "report"} /\ c \notin Lists /\ c \notin Searches /\ c # Idle
<1>1. \A c \in Searches : c.at \in {"asking", "counted", "listed"}
  BY DEF Searches
<1>2. \A c \in Reports : c.at \in {"traces", "certs", "types", "report"}
  BY DEF Reports
<1>3. \A c \in Lists : c.at = "ingesting"
  BY DEF Lists
<1>4. Idle.at = "idle"
  BY DEF Idle
<1>5. QED
  BY <1>1, <1>2, <1>3, <1>4

LEMMA TablesAre ==
  ASSUME DeskInv
  PROVE  Tables(certs) /\ Tables(events) /\ Tables(1 .. MaxCerts) /\ Tables(1 .. MaxEvents)
<1>1. Tables(1 .. MaxCerts) /\ Tables(1 .. MaxEvents)
  BY DeskAssumption, FS_Interval DEF Tables, Rows, DeskAssumption
<1>2. QED
  BY <1>1, FS_Subset DEF DeskInv, Tables

(* A row is stored in one of the tables.                                   *)
LEMMA RowStored ==
  ASSUME DeskInv, NEW kind \in {"certs", "events"},
         certs \subseteq certs', certs' \subseteq 1 .. MaxCerts,
         events \subseteq events', events' \subseteq 1 .. MaxEvents,
         kind = "certs" => events' = events, kind = "events" => certs' = certs,
         client' = Raced(kind), damage' \in [1 .. MaxCerts -> Fields \cup {"none"}]
  PROVE  DeskInv'
<1>1. Tables(certs') /\ Tables(events')
  BY TablesAre, FS_Subset DEF Tables
<1>2. CASE client = Idle
  <2>1. client' = Idle
    BY <1>2, AtPlaces DEF Raced
  <2>2. client' \notin Lists /\ client' \notin Searches /\ client' \notin Reports
    BY <2>1, AtPlaces
  <2>3. QED
    BY <2>1, <2>2 DEF DeskInv
<1>3. CASE client \in Lists
  <2>1. client' = client
    BY <1>3, AtPlaces DEF Raced
  <2>2. client' \notin Searches /\ client' \notin Reports
    BY <1>3, <2>1, AtPlaces
  <2>3. ListFits(client, events')
    BY <1>3 DEF DeskInv, ListFits
  <2>4. ListFits(client, events)'
    BY <2>1, <2>3 DEF ListFits
  <2>5. QED
    BY <1>3, <2>1, <2>2, <2>4 DEF DeskInv
<1>4. CASE client \in Reports
  <2>1. client' = client
    BY <1>4, AtPlaces DEF Raced
  <2>2. ReportFits(client, events)
    BY <1>4 DEF DeskInv
  <2>3. ReportFits(client, events')
    BY <1>1, <1>4, <2>2, ReportGrows
  <2>4. client' \notin Lists /\ client' \notin Searches
    BY <1>4, <2>1, AtPlaces
  <2>5. QED
    BY <1>4, <2>1, <2>3, <2>4 DEF DeskInv
<1>5. CASE client \in Searches
  <2>1. SearchFits(client, Counted(client.kind))
    BY <1>5 DEF DeskInv
  <2>2. CASE client.kind = kind
    <3>1. client' = IF client.at = "counted" THEN [client EXCEPT !.raced = TRUE] ELSE client
      BY <2>2 DEF Raced
    <3>2. client' \in Searches /\ client'.kind = kind
      BY <1>5, <2>2, <3>1 DEF Searches
    <3>3. PICK T : T = Counted(kind)
      OBVIOUS
    <3>4. PICK U : U = Counted(kind)'
      OBVIOUS
    <3>5. T \subseteq U /\ Tables(U)
      BY <1>1, <3>3, <3>4 DEF Counted
    <3>6. PICK d \in Searches : d = client'
      BY <3>2
    <3>7. SearchFits(d, U)
      BY <1>5, <2>1, <2>2, <3>1, <3>3, <3>5, <3>6, SearchGrows
    <3>8. U = Counted(client.kind)'
      BY <3>2, <3>4 DEF Counted
    <3>9. client' \notin Lists /\ client' \notin Reports
      BY <3>2, AtPlaces
    <3>10. SearchFits(client, Counted(client.kind))'
      BY <3>6, <3>7, <3>8 DEF SearchFits, Since, Newer, Tied
    <3>11. QED
      BY <3>2, <3>9, <3>10 DEF DeskInv
  <2>3. CASE client.kind # kind
    <3>1. client' = client
      BY <2>3 DEF Raced
    <3>2. client.kind \in {"certs", "events"}
      BY <1>5 DEF Searches
    <3>3. Counted(client.kind)' = Counted(client.kind)
      BY <2>3, <3>1, <3>2 DEF Counted
    <3>4. SearchFits(client, Counted(client.kind))'
      BY <2>1, <3>1, <3>3 DEF SearchFits, Since, Newer, Tied
    <3>5. client' \notin Lists /\ client' \notin Reports
      BY <1>5, <3>1, AtPlaces
    <3>6. QED
      BY <1>5, <3>1, <3>4, <3>5 DEF DeskInv
  <2>4. QED
    BY <2>2, <2>3
<1>6. QED
  BY <1>2, <1>3, <1>4, <1>5 DEF DeskInv

LEMMA MatchingIs == \A k, n : Matching(k, n) = Since(Counted(k), n)
BY DEF Matching, Since

LEMMA WindowIs == \A n : InWindow(n) = Since(events, n)
BY DEF InWindow, Since

LEMMA TimesAre == Times \subseteq Nat
<1>1. 1 .. MaxEvents \subseteq Rows
  BY DEF Rows
<1>2. QED
  BY <1>1, RowsAre DEF Times

LEMMA SearchOpens ==
  ASSUME DeskInv, NEW kind \in {"certs", "events"}, NEW size \in Sizes, NEW since \in Times,
         OpenSearch(kind, size, since)
  PROVE  DeskInv'
<1>1. PICK n \in Nat : n = IF kind = "certs" /\ size \notin 1 .. MaxSize THEN DefaultSize ELSE size
  BY DeskAssumption DEF DeskAssumption
<1>2. PICK T : T = Counted(kind) /\ Tables(T)
  BY TablesAre DEF Counted
<1>3. PICK W : W = Since(T, since)
  OBVIOUS
<1>4. W \subseteq Nat
  BY <1>2, <1>3, RowsAre DEF Since, Tables
<1>5. client' = [at |-> "asking", kind |-> kind, since |-> since, page |-> 1, raced |-> FALSE,
                 total |-> 0, size |-> n, wanted |-> W, got |-> {}]
  BY <1>1, <1>2, <1>3, MatchingIs DEF OpenSearch
<1>6. since \in Nat
  BY TimesAre
<1>7. client' \in Searches
  BY <1>4, <1>5, <1>6 DEF Searches
<1>8. \A x \in W : (1 - 1) * n <= Newer(W, x)
  <2>1. (1 - 1) * n = 0
    OBVIOUS
  <2>2. \A x \in W : Newer(W, x) \in Nat
    BY <1>2, <1>3, <1>4, <1>6, CountsGrow
  <2>3. QED
    BY <2>1, <2>2
<1>9. SearchFits(client', T)
  BY <1>3, <1>5, <1>8 DEF SearchFits
<1>10. UNCHANGED <<certs, events, damage>> /\ client'.kind = kind
  BY <1>5 DEF OpenSearch
<1>11. SearchFits(client, Counted(client.kind))'
  BY <1>2, <1>9, <1>10 DEF Counted, SearchFits, Since, Newer, Tied
<1>12. client' \notin Lists /\ client' \notin Reports
  BY <1>7, AtPlaces
<1>13. QED
  BY <1>7, <1>10, <1>11, <1>12 DEF DeskInv

(* A search goes on: its tables stand still in the meantime.               *)
LEMMA SearchGoesOn ==
  ASSUME DeskInv, client \in Searches, UNCHANGED <<certs, events, damage>>,
         NEW d \in Searches, d.kind = client.kind, client' = d, SearchFits(d, Counted(client.kind))
  PROVE  DeskInv'
<1>1. client' \in Searches /\ client' \notin Lists /\ client' \notin Reports
  BY AtPlaces
<1>2. Counted(client.kind)' = Counted(client.kind)
  BY DEF Counted
<1>3. SearchFits(client, Counted(client.kind))'
  BY <1>2 DEF SearchFits, Since, Newer, Tied
<1>4. QED
  BY <1>1, <1>3 DEF DeskInv

LEMMA Rests ==
  ASSUME DeskInv, UNCHANGED <<certs, events, damage>>, client' = Idle
  PROVE  DeskInv'
BY AtPlaces DEF DeskInv

LEMMA SearchCounts ==
  ASSUME DeskInv, Count
  PROVE  DeskInv'
<1>1. client \in Searches
  BY AtPlaces DEF DeskInv, Count
<1>2. PICK T : T = Counted(client.kind) /\ Tables(T)
  BY TablesAre DEF Counted
<1>3. SearchFits(client, T)
  BY <1>1, <1>2 DEF DeskInv
<1>4. ASSUME NEW raced \in BOOLEAN, NEW total \in Nat, raced \/ total = Cardinality(T), client.size > 0,
             client' = [client EXCEPT !.at = "counted", !.raced = raced, !.total = total]
      PROVE  DeskInv'
  <2>1. PICK d : d = [client EXCEPT !.at = "counted", !.raced = raced, !.total = total]
    OBVIOUS
  <2>2. d \in Searches
    BY <1>1, <2>1 DEF Searches
  <2>3. /\ d.at = "counted" /\ d.raced = raced /\ d.total = total /\ d.kind = client.kind /\ d.size = client.size
        /\ d.wanted = client.wanted /\ d.got = client.got /\ d.page = client.page /\ d.since = client.since
    BY <1>1, <2>1 DEF Searches
  <2>4. client.at = "asking"
    BY DEF Count
  <2>5. SearchFits(d, T)
    BY <1>3, <1>4, <2>3, <2>4 DEF SearchFits
  <2>6. QED
    BY <1>1, <1>2, <1>4, <2>1, <2>2, <2>3, <2>5, SearchGoesOn DEF Count
<1>5. Cardinality(T) \in Nat
  BY <1>2, FS_CardinalityType DEF Tables
<1>6. CASE client.size > 0 /\ client' = [client EXCEPT !.at = "counted", !.raced = FALSE, !.total = Cardinality(Counted(client.kind))]
  BY <1>2, <1>4, <1>5, <1>6
<1>7. CASE client.size > 0 /\ client' = [client EXCEPT !.at = "counted", !.raced = TRUE, !.total = 0]
  BY <1>4, <1>7
<1>8. CASE client' = Idle
  BY <1>8, Rests DEF Count
<1>9. QED
  BY <1>6, <1>7, <1>8 DEF Count

LEMMA SearchSelects ==
  ASSUME DeskInv, Select
  PROVE  DeskInv'
<1>1. client \in Searches /\ client.at = "counted"
  BY AtPlaces DEF DeskInv, Select
<1>2. PICK T : T = Counted(client.kind) /\ Tables(T)
  BY TablesAre DEF Counted
<1>3. SearchFits(client, T)
  BY <1>1, <1>2 DEF DeskInv
<1>4. PICK rows \in PagesOf(Since(T, client.since), client.size, (client.page - 1) * client.size) :
        client' = IF HasMore THEN [client EXCEPT !.at = "asking", !.page = @ + 1, !.got = @ \cup rows, !.total = 0]
                             ELSE [client EXCEPT !.at = "listed", !.got = @ \cup rows]
  BY <1>2, MatchingIs DEF Select
<1>5. PICK got : got = client.got \cup rows
  OBVIOUS
<1>6. /\ got \subseteq Nat
      /\ \A x \in client.wanted \ got :
           Tied(Since(T, client.since), x) \/ client.page * client.size <= Newer(Since(T, client.since), x)
      /\ client.page >= Pages(client.total, client.size) =>
           client.raced \/ \A x \in client.wanted \ got : Tied(Since(T, client.since), x)
  BY <1>1, <1>2, <1>3, <1>5, PageFits
<1>7. client.page \in Nat \ {0} /\ client.total \in Nat /\ client.size \in Nat /\ client.size > 0
  BY <1>1, <1>3 DEF Searches, SearchFits
<1>8. client.wanted \subseteq Since(T, client.since)
  BY <1>3 DEF SearchFits
<1>9. CASE HasMore
  <2>1. PICK d : d = [client EXCEPT !.at = "asking", !.page = @ + 1, !.got = @ \cup rows, !.total = 0]
    OBVIOUS
  <2>2. d \in Searches
    <3>1. d = [client EXCEPT !.at = "asking", !.page = client.page + 1, !.got = got, !.total = 0]
      BY <1>5, <2>1
    <3>2. client.page + 1 \in Nat \ {0}
      BY <1>7
    <3>3. QED
      BY <1>1, <1>6, <3>1, <3>2 DEF Searches
  <2>3. /\ d.at = "asking" /\ d.kind = client.kind /\ d.size = client.size
        /\ d.wanted = client.wanted /\ d.got = got /\ d.page = client.page + 1 /\ d.since = client.since
    BY <1>1, <1>5, <2>1 DEF Searches
  <2>4. d.page - 1 = client.page
    BY <1>7, <2>3
  <2>5. SearchFits(d, T)
    BY <1>6, <1>8, <2>3, <2>4 DEF SearchFits
  <2>6. QED
    BY <1>1, <1>2, <1>4, <1>9, <2>1, <2>2, <2>3, <2>5, SearchGoesOn DEF Select
<1>10. CASE ~HasMore
  <2>1. PICK d : d = [client EXCEPT !.at = "listed", !.got = @ \cup rows]
    OBVIOUS
  <2>2. d \in Searches
    BY <1>1, <1>5, <1>6, <2>1 DEF Searches
  <2>3. /\ d.at = "listed" /\ d.kind = client.kind /\ d.raced = client.raced
        /\ d.wanted = client.wanted /\ d.got = got /\ d.since = client.since
    BY <1>1, <1>5, <2>1 DEF Searches
  <2>4. client.page >= Pages(client.total, client.size)
    <3>1. Pages(client.total, client.size) \in Int
      BY <1>7 DEF Pages
    <3>2. QED
      BY <1>7, <1>10, <3>1 DEF HasMore
  <2>5. SearchFits(d, T)
    BY <1>6, <1>8, <2>3, <2>4 DEF SearchFits
  <2>6. QED
    BY <1>1, <1>2, <1>4, <1>10, <2>1, <2>2, <2>3, <2>5, SearchGoesOn DEF Select
<1>11. QED
  BY <1>9, <1>10

(* A report goes on likewise.                                              *)
LEMMA ReportGoesOn ==
  ASSUME DeskInv, UNCHANGED <<certs, events, damage>>,
         NEW d \in Reports, client' = d, ReportFits(d, events)
  PROVE  DeskInv'
<1>1. client' \in Reports /\ client' \notin Lists /\ client' \notin Searches
  BY AtPlaces
<1>2. ReportFits(client, events)'
  BY DEF ReportFits, Since, Shown
<1>3. QED
  BY <1>1, <1>2 DEF DeskInv

LEMMA ReportSteps ==
  ASSUME DeskInv,
         \/ \E since \in Times : QueryTraces(since)
         \/ QueryCerts \/ QueryTypes \/ QueryTokens
  PROVE  DeskInv'
<1>0. Tables(events) /\ Tables(certs)
  BY TablesAre
<1>1. ASSUME NEW since \in Times, QueryTraces(since) PROVE DeskInv'
  <2>1. PICK S : S = InWindow(since)
    OBVIOUS
  <2>2. since \in Nat /\ S = Since(events, since)
    BY <2>1, WindowIs, TimesAre
  <2>3. Tables(S)
    BY <1>0, <2>2, FS_Subset DEF Tables, Since
  <2>4. PICK traces \in TracesListed(S) :
          client' = [at |-> "traces", since |-> since, traces |-> traces,
                     totalEvents |-> Cardinality({e \in S : TraceOf(e) \in traces}), certs |-> {},
                     failed |-> FALSE, eventsByType |-> [t \in EventTypes |-> 0], tokens |-> 0]
    BY <1>1, <2>1 DEF QueryTraces
  <2>5. traces \subseteq Nat
    <3>1. traces \subseteq {TraceOf(e) : e \in S}
      BY DEF TracesListed, Firsts
    <3>2. \A e \in S : TraceOf(e) \in Nat
      BY <2>3, RowsAre DEF Tables, TraceOf
    <3>3. QED
      BY <3>1, <3>2
  <2>6. PICK A : A = {e \in S : TraceOf(e) \in traces}
    OBVIOUS
  <2>7. Cardinality(A) \in Nat /\ Cardinality(A) <= Cardinality(S)
    <3>1. A \subseteq S
      BY <2>6
    <3>2. QED
      BY <2>3, <3>1, CountsGrow
  <2>8. PICK d : d = [at |-> "traces", since |-> since, traces |-> traces,
                      totalEvents |-> Cardinality(A), certs |-> {},
                      failed |-> FALSE, eventsByType |-> [t \in EventTypes |-> 0], tokens |-> 0]
    OBVIOUS
  <2>9. client' = d
    BY <2>4, <2>6, <2>8
  <2>10. d \in Reports
    BY <2>2, <2>5, <2>7, <2>8 DEF Reports
  <2>11. ReportFits(d, events)
    BY <2>2, <2>7, <2>8 DEF ReportFits
  <2>12. QED
    BY <1>1, <2>9, <2>10, <2>11, ReportGoesOn DEF QueryTraces
<1>2. CASE QueryCerts
  <2>1. client \in Reports /\ client.at = "traces"
    BY <1>2, AtPlaces DEF DeskInv, QueryCerts
  <2>2. ReportFits(client, events)
    BY <2>1 DEF DeskInv
  <2>3. PICK N \in PagesOf(certs, CertLimit, 0) : client' = [client EXCEPT !.at = "certs", !.certs = N]
    BY <1>2 DEF QueryCerts
  <2>4. PICK d : d = [client EXCEPT !.at = "certs", !.certs = N]
    OBVIOUS
  <2>5. d \in Reports /\ d.at = "certs" /\ d.totalEvents = client.totalEvents /\ d.since = client.since
    <3>1. N \subseteq certs
      BY PageIs
    <3>2. N \subseteq Nat
      BY <1>0, <3>1, RowsAre DEF Tables
    <3>3. QED
      BY <2>1, <2>4, <3>2 DEF Reports
  <2>6. ReportFits(d, events)
    BY <2>1, <2>2, <2>5 DEF ReportFits
  <2>7. QED
    BY <1>2, <2>3, <2>4, <2>5, <2>6, ReportGoesOn DEF QueryCerts
<1>3. CASE QueryTypes
  <2>1. client \in Reports /\ client.at = "certs"
    BY <1>3, AtPlaces DEF DeskInv, QueryTypes
  <2>2. ReportFits(client, events)
    BY <2>1 DEF DeskInv
  <2>3. PICK w : w = TypeRows(client.since) /\ w = Since(events, client.since)
    BY WindowIs DEF TypeRows
  <2>4. PICK S \in {{}, w} :
          client' = [client EXCEPT !.at = "types", !.failed = S # w,
                       !.eventsByType = [t \in EventTypes |-> Cardinality({e \in S : TypeOf(e) = t})]]
    BY <1>3, <2>3 DEF QueryTypes
  <2>5. Tables(w) /\ Tables(S)
    <3>1. w \subseteq events /\ S \subseteq events
      BY <2>3 DEF Since
    <3>2. QED
      BY <1>0, <3>1, FS_Subset DEF Tables
  <2>6. PICK counts : counts = [t \in EventTypes |-> Cardinality({e \in S : TypeOf(e) = t})]
    OBVIOUS
  <2>7. counts \in [EventTypes -> Nat] /\ Cardinality(S) = counts["INPUT"] + counts["OUTPUT"]
    BY <2>5, <2>6, TypesAddUp DEF EventTypes
  <2>8. PICK d : d = [client EXCEPT !.at = "types", !.failed = S # w, !.eventsByType = counts]
    OBVIOUS
  <2>9. /\ d \in Reports /\ d.at = "types" /\ d.totalEvents = client.totalEvents /\ d.failed = (S # w)
        /\ d.eventsByType = counts
    BY <2>1, <2>7, <2>8 DEF Reports
  <2>10. client.totalEvents <= Cardinality(w)
    BY <2>1, <2>2, <2>3 DEF ReportFits
  <2>11. ReportFits(d, events)
    BY <2>7, <2>9, <2>10 DEF ReportFits, Shown
  <2>12. QED
    BY <1>3, <2>4, <2>6, <2>8, <2>9, <2>11, ReportGoesOn DEF QueryTypes
<1>4. CASE QueryTokens
  <2>1. client \in Reports /\ client.at = "types"
    BY <1>4, AtPlaces DEF DeskInv, QueryTokens
  <2>2. ReportFits(client, events)
    BY <2>1 DEF DeskInv
  <2>3. PICK d : d = [client EXCEPT !.at = "report", !.tokens = 0]
    OBVIOUS
  <2>4. /\ d \in Reports /\ d.at = "report" /\ d.totalEvents = client.totalEvents
        /\ d.failed = client.failed /\ d.eventsByType = client.eventsByType
    BY <2>1, <2>3 DEF Reports
  <2>5. ReportFits(d, events)
    BY <2>1, <2>2, <2>4 DEF ReportFits, Shown
  <2>6. QED
    BY <1>4, <2>3, <2>4, <2>5, ReportGoesOn DEF QueryTokens
<1>5. QED
  BY <1>1, <1>2, <1>3, <1>4

LEMMA SeqFacts ==
  ASSUME NEW S
  PROVE  << >> \in Seq(S) /\ \A q \in Seq(S), k \in Nat : k + 1 <= Len(q) => q[k + 1] \in S
OBVIOUS

(* A list goes on: no event is stored twice by it.                         *)
LEMMA ListSteps ==
  ASSUME DeskInv, (\E batch \in Batches : SendEvents(batch)) \/ IngestNext \/ SendAgain
  PROVE  DeskInv'
<1>1. ASSUME NEW batch \in Batches, SendEvents(batch) PROVE DeskInv'
  <2>1. PICK d : d = [at |-> "ingesting", batch |-> batch, results |-> << >>, stored |-> {}]
    OBVIOUS
  <2>2. client' = d /\ UNCHANGED <<certs, events, damage>>
    BY <1>1, <2>1 DEF SendEvents
  <2>3. d \in Lists
    BY <2>1, DeskAssumption DEF Lists, DeskAssumption
  <2>4. ListFits(d, events)
    <3>1. Len(d.results) = 0 /\ Len(d.batch) \in Nat
      BY <2>1, DeskAssumption DEF DeskAssumption
    <3>2. QED
      BY <2>1, <3>1 DEF ListFits
  <2>5. ListFits(client, events)'
    BY <2>2, <2>4 DEF ListFits
  <2>6. QED
    BY <2>2, <2>3, <2>5, AtPlaces DEF DeskInv
<1>2. CASE IngestNext
  <2>1. client \in Lists /\ ListFits(client, events)
    BY <1>2, AtPlaces DEF DeskInv, IngestNext
  <2>2. PICK b \in Seq(1 .. MaxEvents), rs \in Seq({"stored", "duplicate", "failed"}),
             n \in Nat, sent \in SUBSET (1 .. MaxEvents) :
          b = client.batch /\ rs = client.results /\ n = Len(rs) /\ sent = client.stored
    BY <2>1 DEF Lists
  <2>3. n < Len(b) /\ UNCHANGED <<certs, damage>>
    BY <1>2, <2>2 DEF IngestNext
  <2>4. PICK e \in 1 .. MaxEvents : e = b[n + 1]
    <3>1. n + 1 <= Len(b)
      BY <2>3
    <3>2. b[n + 1] \in 1 .. MaxEvents
      BY <3>1, SeqFacts
    <3>3. QED
      BY <3>2
  <2>5. PICK result \in {"stored", "duplicate", "failed"} :
          /\ result = "stored" => e \notin events /\ events' = events \cup {e}
          /\ result = "duplicate" => e \in events /\ events' = events
          /\ events' = events \/ events' = events \cup {e}
          /\ client' = [client EXCEPT !.results = Append(@, result)]
    BY <1>2, <2>2, <2>4 DEF IngestNext
  <2>6. PICK d : d = [client EXCEPT !.results = Append(rs, result)]
    OBVIOUS
  <2>7. PICK q : q = Append(rs, result)
    OBVIOUS
  <2>8. /\ q \in Seq({"stored", "duplicate", "failed"}) /\ Len(q) = n + 1 /\ q[n + 1] = result
        /\ \A k \in 1 .. n : q[k] = rs[k]
    BY <2>2, <2>7
  <2>9. d \in Lists /\ d.results = q /\ d.batch = b /\ d.stored = sent /\ client' = d
    BY <2>1, <2>2, <2>5, <2>6, <2>7, <2>8 DEF Lists
  <2>10. sent \subseteq events /\ events \subseteq events' /\ events' \subseteq 1 .. MaxEvents
    BY <2>1, <2>2, <2>5 DEF ListFits, DeskInv
  <2>11. \A k \in 1 .. n :
           /\ rs[k] # "failed" => b[k] \in events
           /\ rs[k] = "stored" => b[k] \notin sent
           /\ \A j \in 1 .. k - 1 : b[j] = b[k] => rs[j] # "stored" \/ rs[k] # "stored"
    BY <2>1, <2>2 DEF ListFits
  <2>12. \A k \in 1 .. n + 1 : q[k] # "failed" => b[k] \in events'
    <3>1. result # "failed" => e \in events'
      BY <2>5
    <3>2. \A k \in 1 .. n + 1 : k \in 1 .. n \/ k = n + 1
      OBVIOUS
    <3>3. QED
      BY <2>4, <2>8, <2>10, <2>11, <3>1, <3>2
  <2>13. \A k \in 1 .. n + 1 : q[k] = "stored" => b[k] \notin sent
    <3>1. result = "stored" => e \notin sent
      BY <2>5, <2>10
    <3>2. \A k \in 1 .. n + 1 : k \in 1 .. n \/ k = n + 1
      OBVIOUS
    <3>3. QED
      BY <2>4, <2>8, <2>11, <3>1, <3>2
  <2>14. ASSUME NEW k \in 1 .. n + 1, NEW j \in 1 .. k - 1, b[j] = b[k] PROVE q[j] # "stored" \/ q[k] # "stored"
    <3>1. j \in 1 .. n /\ q[j] = rs[j]
      BY <2>8
    <3>2. CASE k \in 1 .. n
      <4>1. q[k] = rs[k]
        BY <2>8, <3>2
      <4>2. \A i \in 1 .. k - 1 : b[i] = b[k] => rs[i] # "stored" \/ rs[k] # "stored"
        BY <2>11, <3>2
      <4>3. QED
        BY <2>14, <3>1, <4>1, <4>2
    <3>3. CASE k = n + 1
      <4>1. rs[j] = "stored" => e \in events
        BY <2>4, <2>11, <2>14, <3>1, <3>3
      <4>2. result = "stored" => e \notin events
        BY <2>5
      <4>3. QED
        BY <2>8, <3>1, <3>3, <4>1, <4>2
    <3>4. QED
      BY <3>2, <3>3
  <2>15. ListFits(d, events')
    BY <2>3, <2>8, <2>9, <2>10, <2>12, <2>13, <2>14 DEF ListFits
  <2>16. ListFits(client, events)'
    BY <2>9, <2>15 DEF ListFits
  <2>17. QED
    BY <2>3, <2>9, <2>10, <2>16, AtPlaces DEF DeskInv
<1>3. CASE SendAgain
  <2>1. client \in Lists /\ ListFits(client, events)
    BY <1>3, AtPlaces DEF DeskInv, SendAgain
  <2>2. PICK now : now = {client.batch[k] : k \in {j \in DOMAIN client.results : client.results[j] = "stored"}}
    OBVIOUS
  <2>3. now \subseteq events /\ client.stored \subseteq events /\ events \subseteq 1 .. MaxEvents
    <3>1. DOMAIN client.results = 1 .. Len(client.results)
      BY <2>1 DEF Lists
    <3>2. QED
      BY <2>1, <2>2, <3>1 DEF ListFits, DeskInv
  <2>4. PICK d : d = [client EXCEPT !.results = << >>, !.stored = @ \cup now]
    OBVIOUS
  <2>5. d \in Lists /\ d.results = << >> /\ d.stored = client.stored \cup now /\ d.batch = client.batch
    <3>1. PICK sent : sent = client.stored \cup now
      OBVIOUS
    <3>2. sent \in SUBSET (1 .. MaxEvents)
      BY <2>3, <3>1
    <3>3. d = [client EXCEPT !.results = << >>, !.stored = sent]
      BY <2>4, <3>1
    <3>4. PICK none : none = << >> /\ none \in Seq({"stored", "duplicate", "failed"})
      BY SeqFacts
    <3>5. d = [client EXCEPT !.results = none, !.stored = sent]
      BY <3>3, <3>4
    <3>6. d \in Lists /\ d.results = none /\ d.stored = sent /\ d.batch = client.batch
      BY <2>1, <3>2, <3>4, <3>5 DEF Lists
    <3>7. QED
      BY <3>1, <3>4, <3>6
  <2>6. client' = d /\ UNCHANGED <<certs, events, damage>>
    BY <1>3, <2>2, <2>4 DEF SendAgain
  <2>7. ListFits(d, events)
    <3>1. Len(d.results) = 0 /\ Len(d.batch) \in Nat
      BY <2>5 DEF Lists
    <3>2. d.stored \subseteq events
      BY <2>3, <2>5
    <3>3. 1 .. Len(d.results) = {} /\ Len(d.results) <= Len(d.batch)
      BY <3>1
    <3>4. QED
      BY <3>2, <3>3 DEF ListFits
  <2>8. ListFits(client, events)'
    BY <2>6, <2>7 DEF ListFits
  <2>9. QED
    BY <2>5, <2>6, <2>8, AtPlaces DEF DeskInv
<1>4. QED
  BY <1>1, <1>2, <1>3

LEMMA DeskInvHolds == DeskSpec => []DeskInv
<1>1. DeskInit => DeskInv
  BY AtPlaces DEF DeskInit, DeskInv
<1>2. DeskInv /\ [DeskNext]_deskVars => DeskInv'
  <2> SUFFICES ASSUME DeskInv, [DeskNext]_deskVars PROVE DeskInv'
    OBVIOUS
  <2>1. ASSUME NEW i \in 1 .. MaxCerts, InsertCert(i) PROVE DeskInv'
    BY <2>1, RowStored DEF InsertCert, DeskInv
  <2>2. ASSUME NEW i \in 1 .. MaxCerts, NEW field \in Fields, Damage(i, field) PROVE DeskInv'
    <3>1. damage' \in [1 .. MaxCerts -> Fields \cup {"none"}] /\ UNCHANGED <<certs, events, client>>
      BY <2>2 DEF Damage, DeskInv
    <3>2. QED
      BY <3>1 DEF DeskInv, ListFits, SearchFits, ReportFits, Since, Newer, Tied, Counted, Shown
  <2>3. ASSUME NEW e \in 1 .. MaxEvents, storeEvent(e) PROVE DeskInv'
    BY <2>3, RowStored DEF storeEvent, DeskInv
  <2>4. CASE Leave
    BY <2>4, Rests DEF Leave
  <2>5. CASE UNCHANGED deskVars
    BY <2>5 DEF deskVars, DeskInv, ListFits, SearchFits, ReportFits, Since, Newer, Tied, Counted, Shown
  <2>6. QED
    BY <2>1, <2>2, <2>3, <2>4, <2>5, ListSteps, SearchOpens, SearchCounts, SearchSelects, ReportSteps DEF DeskNext
<1>3. QED
  BY <1>1, <1>2, PTL DEF DeskSpec

(* Pages miss nothing that was there when the search began and is alone in *)
(* its time, the parts of a report add up, and what a list of events is    *)
(* answered is so and stores nothing twice, whatever is stored between the *)
(* calls.                                                                  *)
THEOREM ListsAlwaysAddUp == DeskSpec => []ListsAddUp
<1>1. DeskInv => ListsAddUp
  <2> SUFFICES ASSUME DeskInv PROVE ListsAddUp
    OBVIOUS
  <2>1. SearchMissesNone
    <3> SUFFICES ASSUME client.at = "listed"
                 PROVE  client.raced \/ \A x \in client.wanted \ client.got : Tied(Matching(client.kind, client.since), x)
      BY DEF SearchMissesNone
    <3>1. client \in Searches
      BY AtPlaces DEF DeskInv
    <3>2. SearchFits(client, Counted(client.kind))
      BY <3>1 DEF DeskInv
    <3>3. QED
      BY <3>2, MatchingIs DEF SearchFits
  <2>2. ReportAddsUp
    <3> SUFFICES ASSUME client.at = "report"
                 PROVE  client.failed \/ client.totalEvents <= client.eventsByType["INPUT"] + client.eventsByType["OUTPUT"]
      BY DEF ReportAddsUp
    <3>1. client \in Reports
      BY AtPlaces DEF DeskInv
    <3>2. ReportFits(client, events)
      BY <3>1 DEF DeskInv
    <3>3. QED
      BY <3>2 DEF ReportFits, Shown
  <2>3. IngestAnswersStand
    <3> SUFFICES ASSUME client.at = "ingesting" PROVE IngestAnswersStand
      BY DEF IngestAnswersStand
    <3>1. client \in Lists /\ ListFits(client, events)
      BY AtPlaces DEF DeskInv
    <3>2. PICK b \in Seq(1 .. MaxEvents), rs \in Seq({"stored", "duplicate", "failed"}), n \in Nat :
            b = client.batch /\ rs = client.results /\ n = Len(rs) /\ DOMAIN rs = 1 .. n
      BY <3>1 DEF Lists
    <3>3. /\ client.stored \subseteq events
          /\ \A k \in 1 .. n :
               /\ rs[k] # "failed" => b[k] \in events
               /\ rs[k] = "stored" => b[k] \notin client.stored
               /\ \A j \in 1 .. k - 1 : b[j] = b[k] => rs[j] # "stored" \/ rs[k] # "stored"
      BY <3>1, <3>2 DEF ListFits
    <3>4. ASSUME NEW k \in 1 .. n, NEW j \in 1 .. n, rs[k] = "stored", j # k, b[j] = b[k] PROVE rs[j] # "stored"
      <4>1. j \in 1 .. k - 1 \/ k \in 1 .. j - 1
        BY <3>4
      <4>2. QED
        BY <3>3, <3>4, <4>1
    <3>5. QED
      BY <3>2, <3>3, <3>4 DEF IngestAnswersStand
  <2>4. QED
    BY <2>1, <2>2, <2>3 DEF ListsAddUp
<1>2. QED
  BY <1>1, DeskInvHolds, PTL

----------------------------------------------------------------------------
(* Certificates, as they are committed and as they are read.               *)
LeavesOf(i) == [k \in 1 .. i |-> <<10 * i + k>>]

LEMMA LeavesAre ==
  ASSUME NEW i \in Nat \ {0}
  PROVE  /\ LeavesOf(i) \in Seq(Hashes) /\ Len(LeavesOf(i)) = i /\ Flat(LeavesOf(i))
         /\ LeavesOf(i)[i] # <<0>> /\ TopOf(LeavesOf(i)) # <<0>>
<1>1. PICK s : s = LeavesOf(i)
  OBVIOUS
<1>2. ASSUME NEW k \in 1 .. i PROVE s[k] = <<10 * i + k>> /\ s[k] \in Hashes /\ s[k] # <<0>> /\ \A a, b : s[k] # hashPair(a, b)
  <2>1. PICK m \in Nat \ {0} : m = 10 * i + k
    OBVIOUS
  <2>2. s[k] = <<m>>
    BY <1>1, <2>1 DEF LeavesOf
  <2>3. <<m>> \in Hashes
    BY HashesClosed
  <2>4. <<m>> # <<0>>
    <3>1. <<m>>[1] # <<0>>[1]
      OBVIOUS
    <3>2. QED
      BY <3>1
  <2>5. \A a, b : <<m>> # hashPair(a, b)
    BY DEF hashPair
  <2>6. QED
    BY <2>1, <2>2, <2>3, <2>4, <2>5
<1>3. s \in [1 .. i -> Hashes]
  BY <1>1, <1>2 DEF LeavesOf
<1>4. s \in Seq(Hashes) /\ Len(s) = i
  BY <1>3
<1>5. Flat(s)
  BY <1>2, <1>4 DEF Flat
<1>6. i \in 1 .. i
  OBVIOUS
<1>7. TopOf(s) # <<0>>
  <2>1. CASE i = 1
    BY <1>2, <1>4, <1>6, <2>1, TopLooks
  <2>2. CASE i > 1
    <3>1. PICK a, b : TopOf(s) = hashPair(a, b)
      BY <1>4, <2>2, TopLooks
    <3>2. hashPair(a, b) # <<0>>
      BY DEF hashPair
    <3>3. QED
      BY <3>1, <3>2
  <2>3. QED
    BY <2>1, <2>2
<1>8. QED
  BY <1>1, <1>2, <1>4, <1>5, <1>6, <1>7

IsCert(c, i, s, root, level, timestamp) ==
  /\ c.cert_id = i /\ c.events = s /\ c.root = root /\ c.level = level /\ c.timestamp = timestamp

LEMMA CommittedIs ==
  ASSUME NEW i \in Nat \ {0}, NEW s, s = LeavesOf(i)
  PROVE  Committed(i) = [cert_id |-> i, events |-> s, tree |-> buildTree(s), root |-> TopOf(s),
                         level |-> <<1>>, timestamp |-> <<i, 1>>, anchor |-> <<1>>, trace_id |-> <<1>>]
<1>1. TreeRoot(buildTree(s)) = TopOf(s)
  BY LeavesAre, BuiltRoots
<1>2. QED
  BY <1>1 DEF Committed, LeavesOf

LEMMA CertDataIs ==
  ASSUME DeskInv, NEW i \in 1 .. MaxCerts, NEW s, s = LeavesOf(i)
  PROVE  /\ damage[i] \in {"none", "tree", "anchor", "trace_id"} => IsCert(CertData(i), i, s, TopOf(s), <<1>>, <<i, 1>>)
         /\ damage[i] = "events" => IsCert(CertData(i), i, [s EXCEPT ![i] = <<0>>], TopOf(s), <<1>>, <<i, 1>>)
         /\ damage[i] = "root" => IsCert(CertData(i), i, s, <<0>>, <<1>>, <<i, 1>>)
         /\ damage[i] = "level" => IsCert(CertData(i), i, s, TopOf(s), <<0>>, <<i, 1>>)
         /\ damage[i] = "timestamp" => IsCert(CertData(i), i, s, TopOf(s), <<1>>, <<0>>)
         /\ damage[i] = "fraction" => IsCert(CertData(i), i, s, TopOf(s), <<1>>, <<i, 0>>)
<1>1. i \in Nat \ {0} /\ damage[i] \in Fields \cup {"none"}
  BY DeskAssumption DEF DeskInv, DeskAssumption
<1>2. PICK c : c = [cert_id |-> i, events |-> s, tree |-> buildTree(s), root |-> TopOf(s),
                    level |-> <<1>>, timestamp |-> <<i, 1>>, anchor |-> <<1>>, trace_id |-> <<1>>]
  OBVIOUS
<1>3. Committed(i) = c
  BY <1>1, <1>2, CommittedIs
<1>4. IsCert(c, i, s, TopOf(s), <<1>>, <<i, 1>>)
  BY <1>2 DEF IsCert
<1>5. CASE damage[i] = "none"
  BY <1>3, <1>4, <1>5 DEF CertData
<1>6. CASE damage[i] = "events"
  <2>1. CertData(i) = [c EXCEPT !.events = [@ EXCEPT ![i] = <<0>>]]
    BY <1>3, <1>6 DEF CertData
  <2>2. QED
    BY <1>2, <1>6, <2>1 DEF IsCert
<1>7. CASE damage[i] = "tree"
  <2>1. PICK other : other = buildTree([k \in 1 .. i |-> <<0>>])
    OBVIOUS
  <2>2. CertData(i) = [c EXCEPT !.tree = other]
    BY <1>3, <1>7, <2>1 DEF CertData
  <2>3. QED
    BY <1>2, <1>7, <2>2 DEF IsCert
<1>8. CASE damage[i] \in {"anchor", "trace_id", "root", "level", "timestamp"}
  <2>1. CertData(i) = [c EXCEPT ![damage[i]] = <<0>>]
    BY <1>3, <1>8 DEF CertData
  <2>2. CASE damage[i] = "anchor"
    <3>1. CertData(i) = [c EXCEPT !["anchor"] = <<0>>]
      BY <2>1, <2>2
    <3>2. QED
      BY <1>2, <2>2, <3>1 DEF IsCert
  <2>3. CASE damage[i] = "trace_id"
    <3>1. CertData(i) = [c EXCEPT !["trace_id"] = <<0>>]
      BY <2>1, <2>3
    <3>2. QED
      BY <1>2, <2>3, <3>1 DEF IsCert
  <2>4. CASE damage[i] = "root"
    <3>1. CertData(i) = [c EXCEPT !["root"] = <<0>>]
      BY <2>1, <2>4
    <3>2. QED
      BY <1>2, <2>4, <3>1 DEF IsCert
  <2>5. CASE damage[i] = "level"
    <3>1. CertData(i) = [c EXCEPT !["level"] = <<0>>]
      BY <2>1, <2>5
    <3>2. QED
      BY <1>2, <2>5, <3>1 DEF IsCert
  <2>6. CASE damage[i] = "timestamp"
    <3>1. CertData(i) = [c EXCEPT !["timestamp"] = <<0>>]
      BY <2>1, <2>6
    <3>2. QED
      BY <1>2, <2>6, <3>1 DEF IsCert
  <2>7. QED
    BY <1>8, <2>2, <2>3, <2>4, <2>5, <2>6
<1>9. CASE damage[i] = "fraction"
  <2>1. CertData(i) = [c EXCEPT !.timestamp = <<i, 0>>]
    BY <1>3, <1>9 DEF CertData
  <2>2. QED
    BY <1>2, <1>9, <2>1 DEF IsCert
<1>10. QED
  BY <1>1, <1>5, <1>6, <1>7, <1>8, <1>9 DEF Fields

LEMMA VerdictIs ==
  ASSUME NEW i \in Nat \ {0}, NEW s, s = LeavesOf(i), NEW t \in Seq(Hashes), NEW root, NEW level, NEW timestamp,
         IsCert(CertData(i), i, t, root, level, timestamp)
  PROVE  VerifyCert(i) <=> TopOf(t) = root /\ root = TopOf(s) /\ level = <<1>> /\ Seconds(timestamp) = i
<1>1. TreeRoot(buildTree(t)) = TopOf(t)
  BY BuiltRoots
<1>2. SignatureValid(CertData(i), i) <=> root = TopOf(s) /\ level = <<1>> /\ Seconds(timestamp) = i
  <2>1. PICK c : c = CertData(i)
    OBVIOUS
  <2>2. PICK second : second = Seconds(timestamp)
    OBVIOUS
  <2>3. SignedData(c) = <<i, root, level, second>>
    BY <2>1, <2>2 DEF IsCert, SignedData
  <2>4. SignedData(Committed(i)) = <<i, TopOf(s), <<1>>, i>>
    BY CommittedIs DEF SignedData, Seconds
  <2>5. <<i, root, level, second>> = <<i, TopOf(s), <<1>>, i>> <=> root = TopOf(s) /\ level = <<1>> /\ second = i
    OBVIOUS
  <2>6. QED
    BY <2>1, <2>2, <2>3, <2>4, <2>5 DEF SignatureValid
<1>3. QED
  BY <1>1, <1>2 DEF VerifyCert, IsCert

(* A certificate that is stored with what was committed, but for what the  *)
(* root and the signature do not cover.                                    *)
LEMMA ValidIs ==
  ASSUME NEW i \in Nat \ {0}, NEW s, s = LeavesOf(i), NEW timestamp, Seconds(timestamp) = i,
         IsCert(CertData(i), i, s, TopOf(s), << 1 >>, timestamp)
  PROVE  /\ VerifyCert(i)
         /\ CertData(i).events = Committed(i).events /\ CertData(i).root = Committed(i).root
         /\ CertData(i).level = Committed(i).level
         /\ Seconds(CertData(i).timestamp) = Seconds(Committed(i).timestamp)
         /\ OfflineCertificate(CertData(i))
<1>1. s \in Seq(Hashes) /\ Len(s) = i
  BY LeavesAre
<1>2. VerifyCert(i)
  BY <1>1, VerdictIs
<1>3. /\ Committed(i).events = s /\ Committed(i).root = TopOf(s) /\ Committed(i).level = <<1>>
      /\ Seconds(Committed(i).timestamp) = i
  BY CommittedIs DEF Seconds
<1>4. OfflineCertificate(CertData(i))
  <2>1. buildMerkleRoot(s) = TopOf(s)
    BY <1>1, BuiltRoots
  <2>2. s # << >>
    BY <1>1
  <2>3. QED
    BY <2>1, <2>2 DEF IsCert, OfflineCertificate
<1>5. QED
  BY <1>2, <1>3, <1>4 DEF IsCert

LEMMA VerdictsDo ==
  ASSUME DeskInv
  PROVE  VerdictsAgree
<1> SUFFICES ASSUME NEW i \in certs
             PROVE  /\ damage[i] = "none" => VerifyCert(i)
                    /\ VerifyCert(i) =>
                         /\ CertData(i).events = Committed(i).events /\ CertData(i).root = Committed(i).root
                         /\ CertData(i).level = Committed(i).level
                         /\ Seconds(CertData(i).timestamp) = Seconds(Committed(i).timestamp)
                         /\ OfflineCertificate(CertData(i))
  BY DEF VerdictsAgree
<1>1. i \in 1 .. MaxCerts /\ i \in Nat \ {0} /\ damage[i] \in Fields \cup {"none"}
  BY DeskAssumption DEF DeskInv, DeskAssumption
<1>2. PICK s : s = LeavesOf(i)
  OBVIOUS
<1>3. s \in Seq(Hashes) /\ Len(s) = i /\ s[i] # <<0>> /\ TopOf(s) # <<0>>
  BY <1>1, <1>2, LeavesAre
<1>4. <<0>> # <<1>> /\ Seconds(<<0>>) # i /\ Seconds(<<i, 0>>) = i /\ Seconds(<<i, 1>>) = i
  <2>1. <<0>>[1] # <<1>>[1]
    OBVIOUS
  <2>2. <<0>> # <<1>>
    BY <2>1
  <2>3. QED
    BY <1>1, <2>2 DEF Seconds
<1>5. CASE damage[i] \in {"none", "tree", "anchor", "trace_id"}
  <2>1. IsCert(CertData(i), i, s, TopOf(s), <<1>>, <<i, 1>>)
    BY <1>1, <1>2, <1>5, CertDataIs
  <2>2. QED
    BY <1>1, <1>2, <1>4, <2>1, ValidIs
<1>6. CASE damage[i] = "fraction"
  <2>1. IsCert(CertData(i), i, s, TopOf(s), <<1>>, <<i, 0>>)
    BY <1>1, <1>2, <1>6, CertDataIs
  <2>2. QED
    BY <1>1, <1>2, <1>4, <2>1, ValidIs
<1>7. CASE damage[i] = "events"
  <2>1. PICK t : t = [s EXCEPT ![i] = <<0>>]
    OBVIOUS
  <2>2. t \in Seq(Hashes) /\ Len(t) = i /\ t[i] = <<0>>
    <3>1. <<0>> \in Hashes
      BY HashesClosed
    <3>2. i \in 1 .. Len(s)
      BY <1>1, <1>3
    <3>3. QED
      BY <1>3, <2>1, <3>1, <3>2
  <2>3. TopOf(t) # TopOf(s)
    <3>1. t # s /\ Len(s) # 0 /\ Len(s) = Len(t)
      BY <1>1, <1>3, <2>2
    <3>2. QED
      BY <1>3, <2>2, <3>1, TopsTell
  <2>4. IsCert(CertData(i), i, t, TopOf(s), <<1>>, <<i, 1>>)
    BY <1>1, <1>2, <1>7, <2>1, CertDataIs
  <2>5. ~VerifyCert(i)
    BY <1>1, <1>2, <2>2, <2>3, <2>4, VerdictIs
  <2>6. QED
    BY <1>7, <2>5
<1>8. CASE damage[i] = "root"
  <2>1. IsCert(CertData(i), i, s, <<0>>, <<1>>, <<i, 1>>)
    BY <1>1, <1>2, <1>8, CertDataIs
  <2>2. ~VerifyCert(i)
    BY <1>1, <1>2, <1>3, <2>1, VerdictIs
  <2>3. QED
    BY <1>8, <2>2
<1>9. CASE damage[i] = "level"
  <2>1. IsCert(CertData(i), i, s, TopOf(s), <<0>>, <<i, 1>>)
    BY <1>1, <1>2, <1>9, CertDataIs
  <2>2. ~VerifyCert(i)
    BY <1>1, <1>2, <1>3, <1>4, <2>1, VerdictIs
  <2>3. QED
    BY <1>9, <2>2
<1>10. CASE damage[i] = "timestamp"
  <2>1. IsCert(CertData(i), i, s, TopOf(s), <<1>>, <<0>>)
    BY <1>1, <1>2, <1>10, CertDataIs
  <2>2. ~VerifyCert(i)
    BY <1>1, <1>2, <1>3, <1>4, <2>1, VerdictIs
  <2>3. QED
    BY <1>10, <2>2
<1>11. QED
  BY <1>1, <1>5, <1>6, <1>7, <1>8, <1>9, <1>10 DEF Fields

LEMMA ProofsDo ==
  ASSUME DeskInv
  PROVE  ProofsPassOffline
<1> SUFFICES ASSUME NEW i \in certs, NEW indexes \in SUBSET (0 .. MaxCerts), damage[i] = "none",
                    NEW kept, kept = {k \in indexes : k < i}
             PROVE  OfflineProof(GenerateProof(i, indexes)) <=> kept # {} /\ \A k \in kept : ~Lonely(i, k)
  BY DEF ProofsPassOffline
<1>1. i \in 1 .. MaxCerts /\ i \in Nat \ {0}
  BY DeskAssumption DEF DeskInv, DeskAssumption
<1>2. PICK s : s = LeavesOf(i)
  OBVIOUS
<1>3. s \in Seq(Hashes) /\ Len(s) = i /\ Flat(s) /\ TopOf(s) # <<0>>
  BY <1>1, <1>2, LeavesAre
<1>4. PICK c : c = CertData(i) /\ c.events = s /\ c.tree = buildTree(s) /\ c.root = TopOf(s)
  <2>1. CertData(i) = Committed(i)
    BY DEF CertData
  <2>2. QED
    BY <1>1, <1>2, <2>1, CommittedIs
<1>5. PICK p : p = GenerateProof(i, indexes)
  OBVIOUS
<1>6. p = [root |-> TopOf(s), proofs |-> {[hash |-> At(s, k), path |-> GetProof(buildTree(s), k)] : k \in kept}]
  BY <1>3, <1>4, <1>5 DEF GenerateProof
<1>7. p.root = TopOf(s) /\ p.proofs = {[hash |-> At(s, k), path |-> GetProof(buildTree(s), k)] : k \in kept}
  BY <1>6
<1>8. OfflineProof(p) <=> kept # {} /\ \A k \in kept : VerifyProof(At(s, k), GetProof(buildTree(s), k), TopOf(s))
  <2>1. HasPrefix(p.root)
    BY <1>3, <1>7 DEF HasPrefix
  <2>2. p.proofs # {} <=> kept # {}
    BY <1>7
  <2>3. (\A m \in p.proofs : VerifyProof(m.hash, m.path, p.root))
          <=> \A k \in kept : VerifyProof(At(s, k), GetProof(buildTree(s), k), TopOf(s))
    <3>1. ASSUME \A m \in p.proofs : VerifyProof(m.hash, m.path, p.root), NEW k \in kept
          PROVE  VerifyProof(At(s, k), GetProof(buildTree(s), k), TopOf(s))
      <4>1. PICK m : m = [hash |-> At(s, k), path |-> GetProof(buildTree(s), k)]
        OBVIOUS
      <4>2. m \in p.proofs
        BY <1>7, <4>1
      <4>3. VerifyProof(m.hash, m.path, p.root)
        BY <3>1, <4>2
      <4>4. m.hash = At(s, k) /\ m.path = GetProof(buildTree(s), k)
        BY <4>1
      <4>5. QED
        BY <1>7, <4>3, <4>4
    <3>2. ASSUME \A k \in kept : VerifyProof(At(s, k), GetProof(buildTree(s), k), TopOf(s)), NEW m \in p.proofs
          PROVE  VerifyProof(m.hash, m.path, p.root)
      <4>1. PICK k \in kept : m = [hash |-> At(s, k), path |-> GetProof(buildTree(s), k)]
        BY <1>7
      <4>2. m.hash = At(s, k) /\ m.path = GetProof(buildTree(s), k)
        BY <4>1
      <4>3. QED
        BY <1>7, <3>2, <4>2
    <3>3. QED
      BY <3>1, <3>2
  <2>4. QED
    BY <2>1, <2>2, <2>3 DEF OfflineProof
<1>9. ASSUME NEW k \in kept PROVE VerifyProof(At(s, k), GetProof(buildTree(s), k), TopOf(s)) <=> ~Lonely(i, k)
  <2>1. k \in 0 .. i - 1 /\ k \in Nat
    BY <1>1
  <2>2. PICK R \in Nat : R = Rounds(i)
    BY <1>1, RoundsIs
  <2>3. VerifyProof(At(s, k), GetProof(buildTree(s), k), TopOf(s)) <=> \A l \in 0 .. R - 1 : StepAt(s, k, l) # << >>
    BY <1>3, <2>1, <2>2, ProofPasses
  <2>4. Lonely(i, k) <=> \E l \in 0 .. R - 1 : Sibling(Above(k, l)) >= Width(i, l)
    BY <1>1, <2>1, <2>2, LonelyIs
  <2>5. ASSUME NEW l \in 0 .. R - 1 PROVE StepAt(s, k, l) = << >> <=> Sibling(Above(k, l)) >= Width(i, l)
    <3>1. l \in Nat /\ k \in 0 .. Len(s) - 1
      BY <1>3, <2>1
    <3>2. StepAt(s, k, l) = << >> <=> Sibling(Above(k, l)) >= Len(LevelAt(s, l))
      BY <1>3, <3>1, StepIs
    <3>3. Len(LevelAt(s, l)) = Width(i, l)
      BY <1>3, <3>1, LevelIs
    <3>4. QED
      BY <3>2, <3>3
  <2>6. QED
    BY <2>3, <2>4, <2>5
<1>10. QED
  BY <1>5, <1>8, <1>9

(* What the server says of a certificate, whole or in part, is what the    *)
(* offline verifier finds, up to the lonely nodes of a proof, for any      *)
(* number of certificates and events.                                      *)
THEOREM AuditsAlwaysAgree == DeskSpec => []AuditsAgree
<1>1. DeskInv => AuditsAgree
  BY VerdictsDo, ProofsDo DEF AuditsAgree
<1>2. QED
  BY <1>1, DeskInvHolds, PTL
=============================================================================
