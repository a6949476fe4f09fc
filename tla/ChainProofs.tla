---------------------------- MODULE ChainProofs -----------------------------
(***************************************************************************)
(* Proofs about what is kept to be checked later, in blocks, contracts,    *)
(* trees, proofs and objects: the modules that MCChain runs, each in a     *)
(* section of its own.                                                     *)
(***************************************************************************)
EXTENDS ChainAnchor, Arbitration, TraceProcessor, ZKProofs, ContentVault,
        Induction, FiniteSetTheorems, TLAPS

----------------------------------------------------------------------------
(***************************************************************************)
(* ChainAnchor, for any callers, certificates and bounds.                  *)
(*                                                                         *)
(* The registry after each block is a recursion over the blocks            *)
(* (RegistriesUnfold), so that what it was does not change when a block is *)
(* added (RegistriesAgree), and a root stays until it is revoked           *)
(* (RootStays). A transaction is mined under the nonce that counts the     *)
(* transactions before it, which puts it in one block (MinedOnce): its     *)
(* receipt stays the same while blocks are added.                          *)
(***************************************************************************)

Ops == EthereumOps \cup ManagerOps
Attesting == {"createAttestation", "anchor"}
Tx == [id : Nat \ {0}, op : Ops, cert : Certs, nonce : Nat]
Block == {<< >>} \cup {<<tx>> : tx \in Tx}
CallType ==
  [at : {"idle"}] \cup [at : {"nonced", "sent", "failed"}, tx : Tx]
  \cup [at : {"anchored"}, tx : Tx, receipt : [block : Nat, status : {0, 1}]]

MinedUpTo(blocks, n) == {m \in 1 .. n : blocks[m] # << >>}

ChainTypeOK ==
  /\ call \in [Callers -> CallType]
  /\ pool \subseteq Tx /\ IsFiniteSet(pool)
  /\ chain \in Seq(Block)
  /\ calls \in Nat /\ reorgs \in Nat

(* Transactions are mined in the order of their nonces, each nonce once.   *)
NoncesInOrderIn(blocks) ==
  \A n \in 1 .. Len(blocks) : blocks[n] # << >> => blocks[n][1].nonce = Cardinality(MinedUpTo(blocks, n - 1))

NoncesInOrder == NoncesInOrderIn(chain)

FoundIn(blocks, tx) == CHOOSE n \in DOMAIN blocks : blocks[n] = <<tx>>
IsIn(blocks, tx) == \E n \in DOMAIN blocks : blocks[n] = <<tx>>
ReceiptIn(blocks, tx) ==
  [block |-> FoundIn(blocks, tx), status |-> Status(Registries(blocks)[FoundIn(blocks, tx) - 1], tx)]

ReceiptHolds(u, blocks) ==
  u.at = "anchored" =>
    /\ IsIn(blocks, u.tx) /\ ReceiptIn(blocks, u.tx) = u.receipt
    /\ u.tx.op \in EthereumOps => u.receipt.status = 1

ReceiptsHold == reorgs = 0 => \A p \in Callers : ReceiptHolds(call[p], chain)

ChainInv == ChainTypeOK /\ NoncesInOrder /\ ReceiptsHold

----------------------------------------------------------------------------
(* The registry.                                                           *)

LEMMA StatusType ==
  ASSUME NEW attestation, NEW tx
  PROVE  Status(attestation, tx) \in {0, 1}
BY DEF Status

LEMMA ExecutedType ==
  ASSUME NEW attestation \in [Certs -> Nat], NEW tx \in Tx
  PROVE  Executed(attestation, tx) \in [Certs -> Nat]
<1>1. tx.id \in Nat /\ tx.cert \in Certs
  BY DEF Tx
<1>2. QED
  BY <1>1 DEF Executed

LEMMA AfterType ==
  ASSUME NEW attestation \in [Certs -> Nat], NEW block \in Block
  PROVE  After(attestation, block) \in [Certs -> Nat]
<1>1. CASE block = << >>
  BY <1>1 DEF After
<1>2. CASE block # << >>
  <2>1. PICK tx \in Tx : block = <<tx>>
    BY <1>2 DEF Block
  <2>2. block[1] = tx
    BY <2>1
  <2>3. QED
    BY <1>2, <2>2, ExecutedType DEF After
<1>3. QED
  BY <1>1, <1>2

(* The definition of Registries, as an equation of its result.             *)
Recorded(r, blocks) ==
  /\ r \in [0 .. Len(blocks) -> [Certs -> Nat]]
  /\ r[0] = [c \in Certs |-> 0]
  /\ \A n \in 1 .. Len(blocks) : r[n] = After(r[n - 1], blocks[n])

LEMMA RegistriesUnfold ==
  ASSUME NEW blocks \in Seq(Block)
  PROVE  Recorded(Registries(blocks), blocks)
<1> DEFINE S == [Certs -> Nat]
<1> DEFINE N == Len(blocks)
<1> DEFINE step == [n \in Nat |-> [a \in S |-> IF n < N THEN After(a, blocks[n + 1]) ELSE a]]
<1> DEFINE Here(r) == r = [n \in 0 .. Len(blocks) |-> IF n = 0 THEN [c \in Certs |-> 0] ELSE After(r[n - 1], blocks[n])]
<1>1. step \in Steps(S)
  <2>1. ASSUME NEW n \in Nat, NEW a \in S, n < N PROVE After(a, blocks[n + 1]) \in S
    <3>1. blocks[n + 1] \in Block
      BY <2>1
    <3>2. QED
      BY <3>1, AfterType
  <2>2. QED
    BY <2>1 DEF Steps
<1>2. PICK f \in [Nat -> S] : Iterates(f, [c \in Certs |-> 0], step)
  <2>1. [c \in Certs |-> 0] \in S
    OBVIOUS
  <2> HIDE DEF S, step
  <2>2. QED
    BY <1>1, <2>1, Iterated
<1>3. f[0] = [c \in Certs |-> 0] /\ \A n \in 1 .. N : f[n] = After(f[n - 1], blocks[n])
  <2>1. f[0] = [c \in Certs |-> 0] /\ \A n \in Nat : f[n + 1] = step[n][f[n]]
    BY <1>2 DEF Iterates
  <2>2. ASSUME NEW n \in 1 .. N PROVE f[n] = After(f[n - 1], blocks[n])
    <3>1. PICK k \in Nat : k = n - 1 /\ k < N
      OBVIOUS
    <3>2. f[k + 1] = step[k][f[k]]
      BY <2>1
    <3>3. f[k] \in S
      OBVIOUS
    <3>4. step[k][f[k]] = After(f[k], blocks[k + 1])
      BY <3>1, <3>3
    <3>5. QED
      BY <3>1, <3>2, <3>4
  <2>3. QED
    BY <2>1, <2>2
<1>4. PICK g : g = [n \in 0 .. N |-> f[n]]
  OBVIOUS
<1>5. Here(g)
  <2>1. \A n \in 0 .. N : g[n] = IF n = 0 THEN [c \in Certs |-> 0] ELSE After(g[n - 1], blocks[n])
    <3> SUFFICES ASSUME NEW n \in 0 .. N PROVE g[n] = IF n = 0 THEN [c \in Certs |-> 0] ELSE After(g[n - 1], blocks[n])
      OBVIOUS
    <3>1. CASE n = 0
      BY <1>3, <1>4, <3>1
    <3>2. CASE n # 0
      <4>1. n \in 1 .. N /\ n - 1 \in 0 .. N
        BY <3>2
      <4>2. g[n] = f[n] /\ g[n - 1] = f[n - 1]
        BY <1>4, <4>1
      <4>3. QED
        BY <1>3, <3>2, <4>1, <4>2
    <3>3. QED
      BY <3>1, <3>2
  <2>2. QED
    BY <1>4, <2>1
<1>6. Here(Registries(blocks))
  <2>1. Registries(blocks) = CHOOSE r : Here(r)
    BY DEF Registries
  <2> HIDE DEF Here
  <2>2. QED
    BY <1>5, <2>1
<1>7. PICK r : r = Registries(blocks)
  OBVIOUS
<1>8. \A n \in 0 .. N : r[n] = IF n = 0 THEN [c \in Certs |-> 0] ELSE After(r[n - 1], blocks[n])
  BY <1>6, <1>7
<1>9. \A n \in Nat : n <= N => r[n] = f[n]
  <2> DEFINE T == {n \in Nat : n <= N => r[n] = f[n]}
  <2>1. 0 \in T
    BY <1>3, <1>8
  <2>2. ASSUME NEW n \in Nat, n \in T PROVE n + 1 \in T
    <3> SUFFICES ASSUME n + 1 <= N PROVE r[n + 1] = f[n + 1]
      OBVIOUS
    <3>1. n + 1 \in 1 .. N /\ (n + 1) - 1 = n /\ r[n] = f[n]
      BY <2>2
    <3>2. r[n + 1] = After(r[n], blocks[n + 1])
      BY <1>8, <3>1
    <3>3. f[n + 1] = After(f[n], blocks[n + 1])
      BY <1>3, <3>1
    <3>4. QED
      BY <3>1, <3>2, <3>3
  <2>3. Nat \subseteq T
    <3> HIDE DEF T
    <3> QED
      BY <2>1, <2>2, NatAll
  <2>4. QED
    BY <2>3
<1>10. Recorded(r, blocks)
  <2>1. r = [n \in 0 .. N |-> r[n]]
    BY <1>6, <1>7
  <2>2. \A n \in 0 .. N : r[n] \in S
    <3> SUFFICES ASSUME NEW n \in 0 .. N PROVE r[n] \in S
      OBVIOUS
    <3>1. n \in Nat /\ n <= N
      OBVIOUS
    <3>2. r[n] = f[n]
      BY <1>9, <3>1
    <3> HIDE DEF S
    <3>3. QED
      BY <3>1, <3>2
  <2>3. r \in [0 .. N -> S]
    BY <2>1, <2>2
  <2>4. ASSUME NEW n \in 1 .. N PROVE r[n] = After(r[n - 1], blocks[n])
    <3>1. n \in 0 .. N /\ n # 0
      OBVIOUS
    <3>2. QED
      BY <1>8, <3>1
  <2>5. QED
    BY <1>8, <2>3, <2>4 DEF Recorded
<1>11. QED
  BY <1>7, <1>10

(* What comes later changes nothing of what was.                           *)
LEMMA RegistriesAgree ==
  ASSUME NEW blocks \in Seq(Block), NEW more \in Seq(Block), Len(blocks) <= Len(more),
         \A n \in 1 .. Len(blocks) : more[n] = blocks[n]
  PROVE  \A n \in 0 .. Len(blocks) : Registries(more)[n] = Registries(blocks)[n]
<1>1. PICK r, s : r = Registries(blocks) /\ s = Registries(more)
  OBVIOUS
<1>2. Recorded(r, blocks) /\ Recorded(s, more)
  BY <1>1, RegistriesUnfold
<1> DEFINE T == {n \in Nat : n <= Len(blocks) => s[n] = r[n]}
<1>3. 0 \in T
  BY <1>2 DEF Recorded
<1>4. ASSUME NEW n \in Nat, n \in T PROVE n + 1 \in T
  <2> SUFFICES ASSUME n + 1 <= Len(blocks) PROVE s[n + 1] = r[n + 1]
    OBVIOUS
  <2>1. n + 1 \in 1 .. Len(blocks) /\ n + 1 \in 1 .. Len(more) /\ (n + 1) - 1 = n /\ s[n] = r[n]
    BY <1>4
  <2>2. r[n + 1] = After(r[n], blocks[n + 1]) /\ s[n + 1] = After(s[n], more[n + 1])
    BY <1>2, <2>1 DEF Recorded
  <2>3. QED
    BY <2>1, <2>2
<1>5. Nat \subseteq T
  <2> HIDE DEF T
  <2> QED
    BY <1>3, <1>4, NatAll
<1>6. QED
  BY <1>1, <1>5

(* One block leaves the root of a valid attestation, or revokes it.        *)
LEMMA RootStays ==
  ASSUME NEW attestation \in [Certs -> Nat], NEW block \in Block, NEW c \in Certs, attestation[c] # 0
  PROVE  \/ After(attestation, block)[c] = attestation[c]
         \/ /\ After(attestation, block)[c] = 0
            /\ block # << >> /\ block[1].op = "revokeAttestation" /\ block[1].cert = c
<1>1. CASE block = << >>
  BY <1>1 DEF After
<1>2. CASE block # << >>
  <2>1. PICK tx \in Tx : block = <<tx>>
    BY <1>2 DEF Block
  <2>2. block[1] = tx /\ After(attestation, block) = Executed(attestation, tx)
    BY <1>2, <2>1 DEF After
  <2>3. tx.cert \in Certs /\ tx.op \in Ops
    BY DEF Tx
  <2>4. CASE tx.op = "revokeAttestation"
    BY <1>2, <2>2, <2>3, <2>4 DEF Executed
  <2>5. CASE tx.op \in Attesting
    <3>1. CASE tx.cert = c
      <4>1. Status(attestation, tx) = 0
        BY <2>5, <3>1 DEF Status, MayAttest, Attesting
      <4>2. QED
        BY <2>2, <4>1 DEF Executed
    <3>2. CASE tx.cert # c
      BY <2>2, <2>3, <2>5, <3>2 DEF Executed, Attesting
    <3>3. QED
      BY <3>1, <3>2
  <2>6. CASE tx.op = "batchCreateAttestations"
    BY <2>2, <2>6 DEF Executed, MayAttest
  <2>7. CASE tx.op \notin {"revokeAttestation", "createAttestation", "anchor", "batchCreateAttestations"}
    BY <2>2, <2>7 DEF Executed
  <2>8. QED
    BY <2>4, <2>5, <2>6, <2>7 DEF Attesting
<1>3. QED
  BY <1>1, <1>2

RevokedSince(blocks, c, m) ==
  \E n \in m + 1 .. Len(blocks) : blocks[n] # << >> /\ blocks[n][1].op = "revokeAttestation" /\ blocks[n][1].cert = c

(* A successful attestation is what the registry says until it is revoked. *)
LEMMA AttestedStays ==
  ASSUME NEW blocks \in Seq(Block), NEW m \in 1 .. Len(blocks), NEW tx \in Tx, blocks[m] = <<tx>>,
         tx.op \in Attesting, Status(Registries(blocks)[m - 1], tx) = 1, ~RevokedSince(blocks, tx.cert, m)
  PROVE  Registry(blocks)[tx.cert] = tx.id
<1>1. PICK r : r = Registries(blocks)
  OBVIOUS
<1>2. Recorded(r, blocks)
  BY <1>1, RegistriesUnfold
<1>3. tx.id \in Nat \ {0} /\ tx.cert \in Certs
  BY DEF Tx
<1> DEFINE T == {k \in Nat : m + k <= Len(blocks) => r[m + k][tx.cert] = tx.id}
<1>4. 0 \in T
  <2>1. r[m - 1] \in [Certs -> Nat] /\ r[m] = After(r[m - 1], blocks[m])
    <3>1. m - 1 \in 0 .. Len(blocks)
      OBVIOUS
    <3>2. QED
      BY <1>2, <3>1 DEF Recorded
  <2>2. After(r[m - 1], blocks[m]) = Executed(r[m - 1], tx)
    BY DEF After
  <2>3. Executed(r[m - 1], tx) = [r[m - 1] EXCEPT ![tx.cert] = tx.id]
    BY <1>1 DEF Executed, Attesting
  <2>4. QED
    BY <1>3, <2>1, <2>2, <2>3
<1>5. ASSUME NEW k \in Nat, k \in T PROVE k + 1 \in T
  <2> SUFFICES ASSUME m + (k + 1) <= Len(blocks) PROVE r[m + (k + 1)][tx.cert] = tx.id
    OBVIOUS
  <2>1. PICK n \in 1 .. Len(blocks) : n = m + (k + 1) /\ n - 1 = m + k /\ n - 1 \in 0 .. Len(blocks)
    OBVIOUS
  <2>2. r[n - 1] \in [Certs -> Nat] /\ r[n] = After(r[n - 1], blocks[n]) /\ blocks[n] \in Block
    <3>1. blocks[n] \in Block
      BY <2>1
    <3>2. QED
      BY <1>2, <2>1, <3>1 DEF Recorded
  <2>3. r[n - 1][tx.cert] = tx.id
    BY <1>5, <2>1
  <2>4. ~(blocks[n] # << >> /\ blocks[n][1].op = "revokeAttestation" /\ blocks[n][1].cert = tx.cert)
    BY <2>1 DEF RevokedSince
  <2>5. After(r[n - 1], blocks[n])[tx.cert] = r[n - 1][tx.cert]
    BY <1>3, <2>2, <2>3, <2>4, RootStays
  <2>6. QED
    BY <2>1, <2>2, <2>3, <2>5
<1>6. Nat \subseteq T
  <2> HIDE DEF T
  <2> QED
    BY <1>4, <1>5, NatAll
<1>7. PICK k \in Nat : m + k = Len(blocks)
  <2>1. Len(blocks) - m \in Nat /\ m + (Len(blocks) - m) = Len(blocks)
    OBVIOUS
  <2>2. QED
    BY <2>1
<1>8. r[m + k][tx.cert] = tx.id
  <2>1. k \in T
    BY <1>6
  <2>2. QED
    BY <1>7, <2>1
<1>9. QED
  BY <1>1, <1>7, <1>8 DEF Registry

----------------------------------------------------------------------------
(* The chain.                                                              *)

LEMMA MinedIsFinite ==
  ASSUME NEW blocks, NEW n \in Nat
  PROVE  IsFiniteSet(MinedUpTo(blocks, n)) /\ Cardinality(MinedUpTo(blocks, n)) \in Nat
<1>1. IsFiniteSet(1 .. n)
  BY FS_Interval
<1>2. MinedUpTo(blocks, n) \subseteq 1 .. n
  BY DEF MinedUpTo
<1>3. QED
  BY <1>1, <1>2, FS_Subset, FS_CardinalityType

(* A transaction is in one block.                                          *)
LEMMA MinedOnce ==
  ASSUME NEW blocks \in Seq(Block), NoncesInOrderIn(blocks), NEW n \in 1 .. Len(blocks), NEW m \in 1 .. Len(blocks),
         NEW tx, blocks[n] = <<tx>>, blocks[m] = <<tx>>
  PROVE  n = m
<1>1. ASSUME NEW i \in 1 .. Len(blocks), NEW k \in 1 .. Len(blocks), i < k, blocks[i] = <<tx>>, blocks[k] = <<tx>>
      PROVE  FALSE
  <2>1. blocks[i] # << >> /\ blocks[k] # << >> /\ blocks[i][1] = tx /\ blocks[k][1] = tx
    BY <1>1
  <2>2. Cardinality(MinedUpTo(blocks, i - 1)) = Cardinality(MinedUpTo(blocks, k - 1))
    BY <2>1 DEF NoncesInOrderIn
  <2>3. MinedUpTo(blocks, i - 1) \subseteq MinedUpTo(blocks, k - 1)
    BY <1>1 DEF MinedUpTo
  <2>4. i \in MinedUpTo(blocks, k - 1) /\ i \notin MinedUpTo(blocks, i - 1)
    <3>1. i \in 1 .. k - 1 /\ i \notin 1 .. i - 1
      BY <1>1
    <3>2. QED
      BY <2>1, <3>1 DEF MinedUpTo
  <2>5. IsFiniteSet(MinedUpTo(blocks, k - 1))
    BY MinedIsFinite
  <2>6. MinedUpTo(blocks, i - 1) = MinedUpTo(blocks, k - 1)
    BY <2>2, <2>3, <2>5, FS_Subset
  <2>7. QED
    BY <2>4, <2>6
<1>2. QED
  BY <1>1

LEMMA BlockFound ==
  ASSUME chain \in Seq(Block), NoncesInOrder, NEW n \in 1 .. Len(chain), NEW tx, chain[n] = <<tx>>
  PROVE  BlockOf(tx) = n
<1>1. n \in DOMAIN chain /\ DOMAIN chain = 1 .. Len(chain)
  OBVIOUS
<1>2. BlockOf(tx) \in DOMAIN chain /\ chain[BlockOf(tx)] = <<tx>>
  BY <1>1 DEF BlockOf
<1>3. QED
  BY <1>1, <1>2, MinedOnce DEF NoncesInOrder

LEMMA NextNonceIs ==
  ASSUME chain \in Seq(Block)
  PROVE  NextNonce = Cardinality(MinedUpTo(chain, Len(chain)))
<1>1. DOMAIN chain = 1 .. Len(chain)
  OBVIOUS
<1>2. {n \in DOMAIN chain : chain[n] # << >>} = MinedUpTo(chain, Len(chain))
  BY <1>1 DEF MinedUpTo
<1>3. QED
  BY <1>2 DEF NextNonce

(* The nonce a caller reads is the first that no pending transaction has.  *)
LEMMA PendingNonceIsFree ==
  ASSUME ChainTypeOK
  PROVE  /\ PendingNonce \in Nat /\ PendingNonce >= NextNonce
         /\ PendingNonce \notin Nonces(pool) /\ NextNonce .. PendingNonce - 1 \subseteq Nonces(pool)
<1>1. NextNonce \in Nat
  <2>1. NextNonce = Cardinality(MinedUpTo(chain, Len(chain))) /\ Len(chain) \in Nat
    BY NextNonceIs DEF ChainTypeOK
  <2>2. QED
    BY <2>1, MinedIsFinite
<1>2. PICK P : P = Nonces(pool)
  OBVIOUS
<1>3. IsFiniteSet(P) /\ Cardinality(P) \in Nat /\ Cardinality(P) <= Cardinality(pool) /\ Cardinality(pool) \in Nat /\ P \subseteq Nat
  <2> DEFINE f == [tx \in pool |-> tx.nonce]
  <2>1. f \in Surjection(pool, P)
    BY <1>2 DEF Surjection, Nonces
  <2>2. IsFiniteSet(pool)
    BY DEF ChainTypeOK
  <2> HIDE DEF f
  <2>3. IsFiniteSet(P) /\ Cardinality(P) <= Cardinality(pool)
    BY <2>1, <2>2, FS_Surjection
  <2>4. P \subseteq Nat
    BY <1>2 DEF Nonces, ChainTypeOK, Tx
  <2>5. QED
    BY <2>2, <2>3, <2>4, FS_CardinalityType
<1>4. PICK a, k : a = NextNonce /\ k = Cardinality(pool) /\ a \in Nat /\ k \in Nat
  BY <1>1, <1>3
<1>5. (a .. a + k) \ P # {}
  <2> SUFFICES ASSUME a .. a + k \subseteq P PROVE FALSE
    OBVIOUS
  <2>1. Cardinality(a .. a + k) = k + 1
    BY <1>4, FS_Interval
  <2>2. Cardinality(a .. a + k) <= Cardinality(P)
    BY <1>3, FS_Subset
  <2>3. QED
    BY <1>3, <1>4, <2>1, <2>2
<1>6. PICK n \in (a .. a + k) \ P : \A o \in (a .. a + k) \ P : n <= o
  <2>1. PICK T : T = (a .. a + k) \ P
    OBVIOUS
  <2>2. T \subseteq Nat /\ T # {}
    BY <1>4, <1>5, <2>1
  <2>3. QED
    BY <2>1, <2>2, NatLeast
<1>7. a .. n - 1 \subseteq P
  BY <1>4, <1>6
<1> DEFINE Free(o) == o \notin P /\ a .. o - 1 \subseteq P
<1>8. PendingNonce = CHOOSE o \in a .. a + k : Free(o)
  BY <1>2, <1>4 DEF PendingNonce
<1>9. \E o \in a .. a + k : Free(o)
  BY <1>6, <1>7
<1>10. PendingNonce \in a .. a + k /\ Free(PendingNonce)
  <2> HIDE DEF Free
  <2> QED
    BY <1>8, <1>9
<1>11. QED
  BY <1>2, <1>4, <1>10

----------------------------------------------------------------------------
(* The invariant.                                                          *)

LEMMA ChainInvInit == ChainInit => ChainInv
<1> SUFFICES ASSUME ChainInit PROVE ChainInv
  OBVIOUS
<1>1. ChainTypeOK
  BY FS_EmptySet DEF ChainInit, ChainTypeOK, CallType, NoCall
<1>2. NoncesInOrder
  BY DEF ChainInit, NoncesInOrder, NoncesInOrderIn
<1>3. ReceiptsHold
  BY DEF ChainInit, ReceiptsHold, ReceiptHolds, NoCall
<1>4. QED
  BY <1>1, <1>2, <1>3 DEF ChainInv

(* A step of one caller, whose report holds if it makes one.               *)
LEMMA ChainCall ==
  ASSUME ChainInv, chain' = chain, reorgs' = reorgs, NEW p \in Callers, NEW u, call'[p] = u,
         ReceiptHolds(u, chain), \A q \in Callers \ {p} : call'[q] = call[q]
  PROVE  NoncesInOrder' /\ ReceiptsHold'
<1>1. NoncesInOrder'
  BY DEF ChainInv, NoncesInOrder
<1>2. ReceiptsHold'
  <2> SUFFICES ASSUME reorgs = 0, NEW q \in Callers PROVE ReceiptHolds(call'[q], chain)
    BY DEF ReceiptsHold
  <2>1. CASE q = p
    BY <2>1
  <2>2. CASE q # p
    BY <2>2 DEF ChainInv, ReceiptsHold
  <2>3. QED
    BY <2>1, <2>2
<1>3. QED
  BY <1>1, <1>2

LEMMA AcceptsType ==
  ASSUME ChainTypeOK, NEW tx \in Tx, NEW after, Accepts(tx, after)
  PROVE  after \subseteq Tx /\ IsFiniteSet(after)
<1>1. after = {other \in pool : other.nonce # tx.nonce} \cup {tx}
  BY DEF Accepts
<1>2. IsFiniteSet({other \in pool : other.nonce # tx.nonce})
  BY FS_Subset DEF ChainTypeOK
<1>3. QED
  BY <1>1, <1>2, FS_AddElement DEF ChainTypeOK

LEMMA ChainBegins ==
  ASSUME ChainInv, NEW p \in Callers, NEW method \in Ops, NEW c \in Certs, Begin(p, method, c)
  PROVE  ChainInv'
<1>1. PICK r : r = [at |-> "nonced", tx |-> [id |-> calls + 1, op |-> method, cert |-> c, nonce |-> PendingNonce]]
  OBVIOUS
<1>2. ChainTypeOK /\ call' = [call EXCEPT ![p] = r] /\ calls' = calls + 1 /\ UNCHANGED <<pool, chain, reorgs>>
  BY <1>1 DEF Begin, ChainInv
<1>3. r \in CallType
  <2>1. PendingNonce \in Nat /\ calls + 1 \in Nat \ {0}
    BY <1>2, PendingNonceIsFree DEF ChainTypeOK
  <2>2. QED
    BY <1>1, <2>1 DEF CallType, Tx
<1>4. ChainTypeOK'
  BY <1>2, <1>3 DEF ChainTypeOK
<1>5. call'[p] = r /\ ReceiptHolds(r, chain) /\ \A q \in Callers \ {p} : call'[q] = call[q]
  BY <1>1, <1>2 DEF ChainTypeOK, ReceiptHolds
<1>6. QED
  BY <1>2, <1>4, <1>5, ChainCall DEF ChainInv

LEMMA ChainAsks ==
  ASSUME ChainInv, NEW p \in Callers, Send(p) \/ SendFails(p) \/ TimeOut(p)
  PROVE  ChainInv'
<1>1. ChainTypeOK /\ UNCHANGED <<chain, calls, reorgs>> /\ call[p].at \in {"nonced", "sent"}
  BY DEF Send, SendFails, TimeOut, ChainInv
<1>2. PICK s \in {"sent", "failed"} : call' = [call EXCEPT ![p].at = s]
  BY DEF Send, SendFails, TimeOut
<1>3. call[p] \in [at : {"nonced", "sent", "failed"}, tx : Tx]
  BY <1>1 DEF ChainTypeOK, CallType
<1>4. PICK r : r = [call[p] EXCEPT !.at = s]
  OBVIOUS
<1>5. r \in CallType /\ r.at = s
  BY <1>3, <1>4 DEF CallType
<1>6. call' = [call EXCEPT ![p] = r]
  BY <1>2, <1>4
<1>7. pool' \subseteq Tx /\ IsFiniteSet(pool')
  <2>1. pool' = pool \/ Accepts(call[p].tx, pool')
    BY DEF Send, SendFails, TimeOut
  <2>2. call[p].tx \in Tx
    BY <1>3
  <2>3. PICK after : after = pool'
    OBVIOUS
  <2>4. CASE pool' = pool
    BY <1>1, <2>4 DEF ChainTypeOK
  <2>5. CASE Accepts(call[p].tx, after)
    BY <1>1, <2>2, <2>3, <2>5, AcceptsType
  <2>6. QED
    BY <2>1, <2>3, <2>4, <2>5
<1>8. ChainTypeOK'
  BY <1>1, <1>5, <1>6, <1>7 DEF ChainTypeOK
<1>9. call'[p] = r /\ ReceiptHolds(r, chain) /\ \A q \in Callers \ {p} : call'[q] = call[q]
  BY <1>1, <1>5, <1>6 DEF ChainTypeOK, ReceiptHolds
<1>10. QED
  BY <1>1, <1>8, <1>9, ChainCall DEF ChainInv

LEMMA ChainReports ==
  ASSUME ChainInv, NEW p \in Callers, GetReceipt(p)
  PROVE  ChainInv'
<1>1. ChainTypeOK /\ UNCHANGED <<pool, chain, calls, reorgs>> /\ call[p].at = "sent" /\ OnChain(call[p].tx)
  BY DEF GetReceipt, ChainInv
<1>2. call[p] \in [at : {"nonced", "sent", "failed"}, tx : Tx]
  BY <1>1 DEF ChainTypeOK, CallType
<1>3. PICK tx \in Tx : tx = call[p].tx
  BY <1>2
<1>4. PICK r : r = Receipt(tx)
  OBVIOUS
<1>5. r \in [block : Nat, status : {0, 1}]
  <2>1. PICK n \in 1 .. Len(chain) : chain[n] = <<tx>>
    BY <1>1, <1>3 DEF OnChain, ChainTypeOK
  <2>2. BlockOf(tx) = n
    BY <2>1, BlockFound DEF ChainInv, ChainTypeOK
  <2>3. QED
    BY <1>4, <2>2, StatusType DEF Receipt
<1>6. PICK u : /\ call' = [call EXCEPT ![p] = u]
               /\ \/ u = [at |-> "failed", tx |-> tx]
                  \/ /\ u = [at |-> "anchored", tx |-> tx, receipt |-> r]
                     /\ ~(tx.op \in EthereumOps /\ r.status = 0)
  BY <1>3, <1>4 DEF GetReceipt, ChecksStatus
<1>7. u \in CallType
  BY <1>5, <1>6 DEF CallType
<1>8. ChainTypeOK'
  BY <1>1, <1>6, <1>7 DEF ChainTypeOK
<1>9. call'[p] = u /\ \A q \in Callers \ {p} : call'[q] = call[q]
  BY <1>1, <1>6 DEF ChainTypeOK
<1>10. ReceiptHolds(u, chain)
  <2>1. CASE u.at # "anchored"
    BY <2>1 DEF ReceiptHolds
  <2>2. CASE u = [at |-> "anchored", tx |-> tx, receipt |-> r]
    <3>1. IsIn(chain, tx) /\ ReceiptIn(chain, tx) = r
      BY <1>1, <1>3, <1>4 DEF OnChain, IsIn, Receipt, ReceiptIn, BlockOf, FoundIn
    <3>2. r.status = 1 \/ tx.op \notin EthereumOps
      BY <1>5, <1>6, <2>2
    <3>3. QED
      BY <2>2, <3>1, <3>2 DEF ReceiptHolds
  <2>3. QED
    BY <1>6, <2>1, <2>2
<1>11. QED
  BY <1>1, <1>8, <1>9, <1>10, ChainCall DEF ChainInv

(* A block more.                                                           *)
LEMMA ChainMines ==
  ASSUME ChainInv, Mine
  PROVE  ChainInv'
<1>1. ChainTypeOK /\ NoncesInOrder /\ UNCHANGED <<call, calls, reorgs>>
  BY DEF Mine, ChainInv
<1>2. PICK b \in Block : /\ chain' = Append(chain, b)
                         /\ \/ b = << >> /\ pool' = pool
                            \/ \E tx \in pool : b = <<tx>> /\ tx.nonce = NextNonce /\ pool' = pool \ {tx}
  <2>1. CASE chain' = Append(chain, << >>) /\ pool' = pool
    <3>1. << >> \in Block
      BY DEF Block
    <3>2. QED
      BY <2>1, <3>1
  <2>2. CASE \E tx \in pool : tx.nonce = NextNonce /\ chain' = Append(chain, <<tx>>) /\ pool' = pool \ {tx}
    <3>1. PICK tx \in pool : tx.nonce = NextNonce /\ chain' = Append(chain, <<tx>>) /\ pool' = pool \ {tx}
      BY <2>2
    <3>2. <<tx>> \in Block
      BY <1>1 DEF Block, ChainTypeOK
    <3>3. QED
      BY <3>1, <3>2
  <2>3. QED
    BY <2>1, <2>2 DEF Mine
<1>3. /\ chain' \in Seq(Block) /\ Len(chain') = Len(chain) + 1 /\ chain'[Len(chain) + 1] = b /\ Len(chain) \in Nat
      /\ \A n \in 1 .. Len(chain) : chain'[n] = chain[n]
  <2>1. chain \in Seq(Block)
    BY <1>1 DEF ChainTypeOK
  <2>2. QED
    BY <1>2, <2>1
<1>4. ChainTypeOK'
  <2>1. pool' \subseteq pool /\ IsFiniteSet(pool)
    BY <1>1, <1>2 DEF ChainTypeOK
  <2>2. IsFiniteSet(pool')
    BY <2>1, FS_Subset
  <2>3. QED
    BY <1>1, <1>3, <2>1, <2>2 DEF ChainTypeOK
<1>5. NoncesInOrder'
  <2> SUFFICES ASSUME NEW n \in 1 .. Len(chain'), chain'[n] # << >>
               PROVE  chain'[n][1].nonce = Cardinality(MinedUpTo(chain', n - 1))
    BY DEF NoncesInOrder, NoncesInOrderIn
  <2>1. MinedUpTo(chain', n - 1) = MinedUpTo(chain, n - 1)
    BY <1>3 DEF MinedUpTo
  <2>2. CASE n \in 1 .. Len(chain)
    BY <1>1, <1>3, <2>1, <2>2 DEF NoncesInOrder, NoncesInOrderIn
  <2>3. CASE n = Len(chain) + 1
    <3>1. chain'[n] = b /\ b # << >>
      BY <1>3, <2>3
    <3>2. PICK tx \in pool : b = <<tx>> /\ tx.nonce = NextNonce
      BY <1>2, <3>1
    <3>3. NextNonce = Cardinality(MinedUpTo(chain, n - 1))
      <4>1. n - 1 = Len(chain) /\ DOMAIN chain = 1 .. Len(chain)
        BY <1>1, <1>3, <2>3 DEF ChainTypeOK
      <4>2. QED
        BY <4>1 DEF NextNonce, MinedUpTo
    <3>4. QED
      BY <2>1, <3>1, <3>2, <3>3
  <2>4. QED
    BY <1>3, <2>2, <2>3
<1>6. PICK more : more = chain'
  OBVIOUS
<1>7. more \in Seq(Block) /\ chain \in Seq(Block) /\ Len(chain) <= Len(more) /\ \A n \in 1 .. Len(chain) : more[n] = chain[n]
  BY <1>1, <1>3, <1>6 DEF ChainTypeOK
<1>8. ASSUME NEW tx, IsIn(chain, tx) PROVE IsIn(more, tx) /\ ReceiptIn(more, tx) = ReceiptIn(chain, tx)
  <2>1. PICK n \in 1 .. Len(chain) : chain[n] = <<tx>>
    BY <1>7, <1>8 DEF IsIn
  <2>2. n \in 1 .. Len(more) /\ more[n] = <<tx>> /\ DOMAIN more = 1 .. Len(more)
    BY <1>7, <2>1
  <2>3. IsIn(more, tx)
    BY <2>2 DEF IsIn
  <2>4. FoundIn(chain, tx) = n
    BY <1>1, <1>7, <2>1, BlockFound DEF BlockOf, FoundIn
  <2>5. NoncesInOrderIn(more)
    BY <1>5, <1>6 DEF NoncesInOrder, NoncesInOrderIn
  <2>6. FoundIn(more, tx) \in 1 .. Len(more) /\ more[FoundIn(more, tx)] = <<tx>>
    BY <2>2 DEF FoundIn
  <2>7. FoundIn(more, tx) = n
    BY <1>7, <2>2, <2>5, <2>6, MinedOnce
  <2>8. Registries(more)[n - 1] = Registries(chain)[n - 1]
    <3>1. n - 1 \in 0 .. Len(chain)
      BY <2>1
    <3>2. QED
      BY <1>7, <3>1, RegistriesAgree
  <2>9. QED
    BY <2>3, <2>4, <2>7, <2>8 DEF ReceiptIn
<1>9. ReceiptsHold'
  <2> SUFFICES ASSUME reorgs = 0, NEW q \in Callers PROVE ReceiptHolds(call[q], more)
    BY <1>1, <1>6 DEF ReceiptsHold
  <2>1. ReceiptHolds(call[q], chain)
    BY DEF ChainInv, ReceiptsHold
  <2>2. QED
    BY <1>8, <2>1 DEF ReceiptHolds
<1>10. QED
  BY <1>4, <1>5, <1>9 DEF ChainInv

LEMMA ChainUndoes ==
  ASSUME ChainInv, Reorg
  PROVE  ChainInv'
<1>1. ChainTypeOK /\ NoncesInOrder /\ UNCHANGED <<call, calls>> /\ chain # << >> /\ reorgs' = reorgs + 1
  BY DEF Reorg, ChainInv
<1>2. /\ chain' \in Seq(Block) /\ Len(chain') = Len(chain) - 1 /\ \A n \in 1 .. Len(chain') : chain'[n] = chain[n]
      /\ Last(chain) \in Block
  <2>1. chain \in Seq(Block) /\ Len(chain) \in Nat \ {0}
    BY <1>1 DEF ChainTypeOK
  <2>2. chain' = SubSeq(chain, 1, Len(chain) - 1) /\ Last(chain) = chain[Len(chain)]
    BY DEF Reorg, Front, Last
  <2>3. PICK k \in Nat : k = Len(chain) - 1 /\ Len(chain) = k + 1 /\ Len(chain) \in 1 .. Len(chain)
    BY <2>1
  <2>4. chain' = SubSeq(chain, 1, k)
    BY <2>2, <2>3
  <2>5. chain' \in Seq(Block) /\ Len(chain') = k /\ \A n \in 1 .. k : chain'[n] = chain[n]
    BY <2>1, <2>3, <2>4
  <2>6. Last(chain) \in Block
    BY <2>1, <2>2, <2>3
  <2>7. QED
    BY <2>3, <2>5, <2>6
<1>3. ChainTypeOK'
  <2>1. CASE Last(chain) = << >>
    <3>1. ToSet(Last(chain)) = {}
      BY <2>1 DEF ToSet
    <3>2. pool' = pool
      BY <3>1 DEF Reorg
    <3>3. QED
      BY <1>1, <1>2, <3>2 DEF ChainTypeOK
  <2>2. CASE \E tx \in Tx : Last(chain) = <<tx>>
    <3>1. PICK tx \in Tx : Last(chain) = <<tx>>
      BY <2>2
    <3>2. ToSet(Last(chain)) = {tx}
      BY <3>1 DEF ToSet
    <3>3. pool' = pool \cup {tx}
      BY <3>2 DEF Reorg
    <3>4. IsFiniteSet(pool')
      BY <1>1, <3>3, FS_AddElement DEF ChainTypeOK
    <3>5. QED
      BY <1>1, <1>2, <3>3, <3>4 DEF ChainTypeOK
  <2>3. QED
    BY <1>2, <2>1, <2>2 DEF Block
<1>4. NoncesInOrder'
  <2> SUFFICES ASSUME NEW n \in 1 .. Len(chain'), chain'[n] # << >>
               PROVE  chain'[n][1].nonce = Cardinality(MinedUpTo(chain', n - 1))
    BY DEF NoncesInOrder, NoncesInOrderIn
  <2>1. n \in 1 .. Len(chain) /\ chain'[n] = chain[n]
    BY <1>1, <1>2 DEF ChainTypeOK
  <2>2. MinedUpTo(chain', n - 1) = MinedUpTo(chain, n - 1)
    BY <1>2 DEF MinedUpTo
  <2>3. QED
    BY <1>1, <2>1, <2>2 DEF NoncesInOrder, NoncesInOrderIn
<1>5. ReceiptsHold'
  BY <1>1 DEF ReceiptsHold, ChainTypeOK
<1>6. QED
  BY <1>3, <1>4, <1>5 DEF ChainInv

LEMMA ChainInvStutters ==
  ASSUME ChainInv, UNCHANGED chainVars
  PROVE  ChainInv'
<1>1. UNCHANGED <<call, pool, chain, calls, reorgs>>
  BY DEF chainVars
<1>2. QED
  BY <1>1 DEF ChainInv, ChainTypeOK, NoncesInOrder, ReceiptsHold

LEMMA ChainInvHolds == ChainSpec => []ChainInv
<1>1. ASSUME ChainInv, [ChainNext]_chainVars PROVE ChainInv'
  <2>1. CASE ChainNext
    <3>1. ASSUME NEW p \in Callers, NEW method \in EthereumOps \cup ManagerOps, NEW c \in Certs, Begin(p, method, c)
          PROVE  ChainInv'
      BY <1>1, <3>1, ChainBegins DEF Ops
    <3>2. ASSUME NEW p \in Callers, Send(p) \/ SendFails(p) \/ GetReceipt(p) \/ TimeOut(p) PROVE ChainInv'
      BY <1>1, <3>2, ChainAsks, ChainReports
    <3>3. QED
      BY <1>1, <2>1, <3>1, <3>2, ChainMines, ChainUndoes DEF ChainNext
  <2>2. QED
    BY <1>1, <2>1, ChainInvStutters
<1>2. QED
  BY <1>1, ChainInvInit, PTL DEF ChainSpec

(* For any callers, certificates, blocks and calls: the receipt that       *)
(* waitForReceipt hands on (ethereum.go:187) names the block that holds the*)
(* transaction, and a certificate reported as attested on chain            *)
(* (contracts/manager.go:264) is in the registry with the root of an       *)
(* attestation that succeeded, unless it was revoked since, as long as no  *)
(* block was undone.                                                       *)
THEOREM AnchorsAreOnChain == ChainSpec => []ReportedIsOnChain
<1>1. ASSUME ChainInv PROVE ReportedIsOnChain
  <2> SUFFICES ASSUME reorgs = 0, NEW p \in Callers, call[p].at = "anchored"
               PROVE  /\ OnChain(call[p].tx) /\ Receipt(call[p].tx) = call[p].receipt
                      /\ call[p].tx.op \in EthereumOps => Verify(p)
                      /\ (/\ call[p].tx.op \in {"createAttestation", "anchor"} /\ call[p].receipt.status = 1
                          /\ ~Revoked(call[p].tx.cert, call[p].receipt.block))
                           => verifyAttestation(Registry(chain), call[p].tx.cert, call[p].tx.id)
    BY DEF ReportedIsOnChain
  <2>1. /\ OnChain(call[p].tx) /\ Receipt(call[p].tx) = call[p].receipt
        /\ call[p].tx.op \in EthereumOps => call[p].receipt.status = 1
    BY <1>1 DEF ChainInv, ReceiptsHold, ReceiptHolds, OnChain, IsIn, Receipt, ReceiptIn, BlockOf, FoundIn
  <2>2. call[p] \in CallType
    BY <1>1 DEF ChainInv, ChainTypeOK
  <2>3. PICK tx \in Tx : tx = call[p].tx
    BY <2>2 DEF CallType
  <2>4. PICK n \in 1 .. Len(chain) : chain[n] = <<tx>>
    BY <1>1, <2>1, <2>3 DEF OnChain, ChainInv, ChainTypeOK
  <2>5. BlockOf(tx) = n
    BY <1>1, <2>4, BlockFound DEF ChainInv, ChainTypeOK
  <2>6. call[p].receipt.block = n /\ call[p].receipt.status = Status(Registries(chain)[n - 1], tx)
    BY <2>1, <2>3, <2>5 DEF Receipt
  <2>7. tx.op \in EthereumOps => Verify(p)
    BY <2>1, <2>3, <2>5, <2>6 DEF Verify
  <2>8. ASSUME tx.op \in Attesting, call[p].receipt.status = 1, ~Revoked(tx.cert, n)
        PROVE  verifyAttestation(Registry(chain), tx.cert, tx.id)
    <3>1. ~RevokedSince(chain, tx.cert, n)
      BY <2>8 DEF Revoked, RevokedSince
    <3>2. chain \in Seq(Block)
      BY <1>1 DEF ChainInv, ChainTypeOK
    <3>3. Registry(chain)[tx.cert] = tx.id
      BY <2>4, <2>6, <2>8, <3>1, <3>2, AttestedStays
    <3>4. tx.id # 0
      BY DEF Tx
    <3>5. QED
      BY <3>3, <3>4 DEF verifyAttestation, attestationExists
  <2>9. QED
    BY <2>1, <2>3, <2>6, <2>7, <2>8 DEF Attesting
<1>2. QED
  BY <1>1, ChainInvHolds, PTL

(* For the same: AITraceRegistry.sol:133 refuses to attest a certificate   *)
(* again, so a block never puts another root in place of a valid one.      *)
THEOREM AttestedRootIsFinal == ChainSpec => RootIsWrittenOnce
<1>1. ASSUME ChainInv, [ChainNext]_chainVars
      PROVE  [\A c \in Certs : (Registry(chain)[c] # 0 /\ Len(chain') > Len(chain) /\ Registry(chain')[c] # 0)
                => Registry(chain')[c] = Registry(chain)[c]]_chainVars
  <2> SUFFICES ASSUME NEW c \in Certs, Registry(chain)[c] # 0, Len(chain') > Len(chain), Registry(chain')[c] # 0
               PROVE  Registry(chain')[c] = Registry(chain)[c]
    OBVIOUS
  <2>1. chain \in Seq(Block) /\ Len(chain) \in Nat /\ pool \subseteq Tx
    BY <1>1 DEF ChainInv, ChainTypeOK
  <2>2. PICK b \in Block : chain' = Append(chain, b)
    <3>1. CASE chain' = chain
      BY <2>1, <3>1
    <3>2. CASE Mine
      BY <2>1, <3>2 DEF Mine, Block
    <3>3. CASE Reorg
      <4>1. chain # << >> /\ chain' = SubSeq(chain, 1, Len(chain) - 1)
        BY <3>3 DEF Reorg, Front
      <4>2. Len(chain') = Len(chain) - 1
        BY <2>1, <4>1
      <4>3. QED
        BY <2>1, <4>2
    <3>4. QED
      BY <1>1, <3>1, <3>2, <3>3 DEF ChainNext, chainVars, Begin, Send, SendFails, GetReceipt, TimeOut
  <2>3. PICK more : more = chain'
    OBVIOUS
  <2>4. /\ more \in Seq(Block) /\ Len(more) = Len(chain) + 1 /\ more[Len(chain) + 1] = b
        /\ \A n \in 1 .. Len(chain) : more[n] = chain[n]
    BY <2>1, <2>2, <2>3
  <2>5. PICK r : r = Registries(chain)[Len(chain)]
    OBVIOUS
  <2>6. Registries(more)[Len(chain)] = r
    BY <2>1, <2>4, <2>5, RegistriesAgree
  <2>7. r \in [Certs -> Nat]
    BY <2>1, <2>5, RegistriesUnfold DEF Recorded
  <2>8. Registries(more)[Len(chain) + 1] = After(r, b)
    <3>1. Recorded(Registries(more), more)
      BY <2>4, RegistriesUnfold
    <3>2. Len(chain) + 1 \in 1 .. Len(more) /\ (Len(chain) + 1) - 1 = Len(chain)
      BY <2>1, <2>4
    <3>3. QED
      BY <2>4, <2>6, <3>1, <3>2 DEF Recorded
  <2>9. Registry(chain) = r /\ Registry(more) = After(r, b)
    BY <2>4, <2>5, <2>8 DEF Registry
  <2>10. r[c] # 0 /\ After(r, b)[c] # 0
    BY <2>3, <2>9
  <2>11. After(r, b)[c] = r[c]
    BY <2>7, <2>10, RootStays
  <2>12. QED
    BY <2>3, <2>9, <2>11
<1>2. QED
  BY <1>1, ChainInvHolds, PTL DEF ChainSpec, RootIsWrittenOnce

----------------------------------------------------------------------------
(***************************************************************************)
(* Arbitration, for any accounts, disputes and stakes.                     *)
(*                                                                         *)
(* A vote adds an account to those that voted so, which had not voted: the *)
(* counter of the dispute and the set grow by one (VoteCounts). That       *)
(* nothing is voted before a dispute exists (NoVoteYet) makes the counters *)
(* of a new dispute right. A dispute is paid in the step that closes it,   *)
(* by its counters, to the party that the votes give it to (PayeeIs), and  *)
(* nobody votes on it from then on (PaidKept).                             *)
(* The balance is the sum of the stakes of the open disputes, of which     *)
(* there are finitely many (HeldInv).                                      *)
(***************************************************************************)

USE ArbitrationAssumption DEF ArbitrationAssumption

Results == {"InFavor", "Against", "Abstain"}

NoVoteYet ==
  \A d \in Disputes : dispute[d].status = "None" => \A a \in Accounts : votes[d][a] = "None"

ArbitrationInv == ArbitrationTypeOK /\ NoVoteYet /\ VotesCountAccounts /\ StakePaidOnce

----------------------------------------------------------------------------
(* Types.                                                                  *)

SameCase(v, w) == w.plaintiff = v.plaintiff /\ w.defendant = v.defendant /\ w.stake = v.stake

SameCounts(v, w) ==
  /\ w.votesInFavor = v.votesInFavor
  /\ w.votesAgainst = v.votesAgainst
  /\ w.votesAbstain = v.votesAbstain

LEMMA NoDisputeType ==
  /\ NoDispute \in DisputeType /\ NoDispute.status = "None" /\ NoDispute.stake = 0
  /\ NoDispute.plaintiff \in Accounts /\ NoDispute.defendant \in Accounts
  /\ NoDispute.votesInFavor = 0 /\ NoDispute.votesAgainst = 0 /\ NoDispute.votesAbstain = 0
BY DEF NoDispute, DisputeType

LEMMA TallyFacts ==
  ASSUME NEW v \in DisputeType, NEW r \in Results
  PROVE  LET x == Tallied(v, r) IN
         /\ x \in DisputeType /\ x.status = v.status /\ SameCase(v, x)
         /\ x.votesInFavor = IF r = "InFavor" THEN v.votesInFavor + 1 ELSE v.votesInFavor
         /\ x.votesAgainst = IF r = "Against" THEN v.votesAgainst + 1 ELSE v.votesAgainst
         /\ x.votesAbstain = IF r = "Abstain" THEN v.votesAbstain + 1 ELSE v.votesAbstain
<1> DEFINE x == Tallied(v, r)
<1>1. /\ x.votesInFavor = IF r = "InFavor" THEN v.votesInFavor + 1 ELSE v.votesInFavor
      /\ x.votesAgainst = IF r = "Against" THEN v.votesAgainst + 1 ELSE v.votesAgainst
      /\ x.votesAbstain = IF r = "Abstain" THEN v.votesAbstain + 1 ELSE v.votesAbstain
  BY DEF Tallied, DisputeType
<1>2. x.status = v.status /\ SameCase(v, x)
  BY DEF Tallied, DisputeType, SameCase
<1>3. x.votesInFavor \in Nat /\ x.votesAgainst \in Nat /\ x.votesAbstain \in Nat
  BY <1>1 DEF DisputeType
<1>4. x \in DisputeType
  BY <1>3 DEF Tallied, DisputeType
<1>5. QED
  BY <1>1, <1>2, <1>4

LEMMA ReputationRange ==
  \A r \in 0 .. 204 : Raised(r) \in 0 .. 204 /\ Lowered(r) \in 0 .. 204
BY DEF Raised, Lowered

LEMMA NewReputationType ==
  ASSUME ArbitrationTypeOK, NEW d \in Disputes, NEW w
  PROVE  NewReputation(d, w) \in [Accounts -> 0 .. 204]
<1> DEFINE winning == IF w = dispute[d].plaintiff THEN "InFavor" ELSE "Against"
           New(a) == CASE a \notin arbitratorList \/ votes[d][a] \in {"None", "Abstain"} -> reputation[a]
                       [] a \in arbitratorList /\ votes[d][a] = winning -> Raised(reputation[a])
                       [] OTHER -> Lowered(reputation[a])
<1>1. ASSUME NEW a \in Accounts
      PROVE  New(a) \in 0 .. 204
  <2>1. reputation[a] \in 0 .. 204 /\ Raised(reputation[a]) \in 0 .. 204 /\ Lowered(reputation[a]) \in 0 .. 204
    BY ReputationRange DEF ArbitrationTypeOK
  <2>2. CASE a \notin arbitratorList \/ votes[d][a] \in {"None", "Abstain"}
    <3>1. winning \notin {"None", "Abstain"}
      OBVIOUS
    <3>2. ~(a \in arbitratorList /\ votes[d][a] = winning)
      BY <2>2, <3>1
    <3> HIDE DEF winning
    <3>3. QED
      BY <2>1, <2>2, <3>2
  <2>3. CASE ~(a \notin arbitratorList \/ votes[d][a] \in {"None", "Abstain"})
    <3> HIDE DEF winning
    <3>1. QED
      BY <2>1, <2>3
  <2>4. QED
    BY <2>2, <2>3
<1>2. NewReputation(d, w) = [a \in Accounts |-> New(a)]
  BY DEF NewReputation
<1> HIDE DEF New
<1>3. QED
  BY <1>1, <1>2

LEMMA OutcomeType ==
  ASSUME NEW v \in DisputeType
  PROVE  /\ Outcome(v).status \in {"Resolved", "Rejected"} /\ Outcome(v).winner \in Accounts \cup {Nobody}
         /\ Outcome(v).payee = IF v.votesAgainst > v.votesInFavor THEN v.defendant ELSE v.plaintiff
BY DEF Outcome, DisputeType

----------------------------------------------------------------------------
(* Steps that change one dispute and none of its votes.                    *)

LEMMA CountsKept ==
  ASSUME VotesCountAccounts, NoVoteYet, votes' = votes,
         \A d \in Disputes : SameCounts(dispute[d], dispute'[d]) /\ SameCase(dispute[d], dispute'[d])
                             /\ (dispute'[d].status = "None" => dispute[d].status = "None")
  PROVE  VotesCountAccounts' /\ NoVoteYet'
<1>1. \A d, r : Voters(d, r)' = Voters(d, r)
  BY DEF Voters
<1>2. VotesCountAccounts'
  BY <1>1 DEF VotesCountAccounts, SameCounts, SameCase
<1>3. QED
  BY <1>2 DEF NoVoteYet

(* Nobody is paid: what was paid stays right, as the votes of a dispute    *)
(* that is closed stay as they are.                                        *)
LEMMA PaidKept ==
  ASSUME StakePaidOnce, paid' = paid,
         \A d \in Disputes :
           \/ dispute[d].status \notin Closed /\ dispute'[d].status \notin Closed
           \/ /\ votes'[d] = votes[d] /\ dispute'[d].status = dispute[d].status
              /\ SameCase(dispute[d], dispute'[d])
  PROVE  StakePaidOnce'
<1> SUFFICES ASSUME NEW d \in Disputes, NEW a \in Accounts
             PROVE  paid'[d][a] = IF dispute'[d].status \in Closed /\ a = Entitled(d)' THEN dispute'[d].stake ELSE 0
  BY DEF StakePaidOnce
<1>1. paid[d][a] = IF dispute[d].status \in Closed /\ a = Entitled(d) THEN dispute[d].stake ELSE 0
  BY DEF StakePaidOnce
<1>2. CASE dispute[d].status \notin Closed /\ dispute'[d].status \notin Closed
  BY <1>1, <1>2
<1>3. CASE /\ votes'[d] = votes[d] /\ dispute'[d].status = dispute[d].status
           /\ SameCase(dispute[d], dispute'[d])
  <2>1. \A x : Voters(d, x)' = Voters(d, x)
    BY <1>3 DEF Voters
  <2>2. Entitled(d)' = Entitled(d)
    BY <1>3, <2>1 DEF Entitled, SameCase
  <2>3. QED
    BY <1>1, <1>3, <2>2 DEF SameCase
<1>4. QED
  BY <1>2, <1>3

----------------------------------------------------------------------------
LEMMA CreateKeeps ==
  ASSUME ArbitrationInv, NEW d \in Disputes, NEW exists \in BOOLEAN, NEW p \in Parties, NEW q \in Parties,
         NEW s \in Stakes, createDispute(d, exists, p, q, s)
  PROVE  ArbitrationInv'
<1> USE DEF ArbitrationInv
<1> DEFINE v == [NoDispute EXCEPT !.status = "Pending", !.plaintiff = p, !.defendant = q, !.stake = s, !.open = TRUE]
<1>1. p \in Accounts /\ q \in Accounts /\ s \in Nat
  OBVIOUS
<1>2. v \in DisputeType
  BY <1>1, NoDisputeType DEF DisputeType, Running
<1>3. /\ v.status = "Pending" /\ v.votesInFavor = 0 /\ v.votesAgainst = 0 /\ v.votesAbstain = 0 /\ v.stake = s
      /\ v.plaintiff = p /\ v.defendant = q
  BY NoDisputeType DEF DisputeType
<1>4. dispute' = [dispute EXCEPT ![d] = v] /\ dispute[d].status = "None"
  BY DEF createDispute
<1> HIDE DEF v
<1>5. UNCHANGED <<votes, arbitratorList, reputation, minArbitrators, paid, withdrawn, changes>> /\ balance' = balance + s
  BY DEF createDispute
<1>6. ArbitrationTypeOK'
  BY <1>2, <1>4, <1>5 DEF ArbitrationTypeOK
<1>7. VotesCountAccounts'
  <2>0. \A e, r : Voters(e, r)' = Voters(e, r)
    BY <1>5 DEF Voters
  <2> SUFFICES ASSUME NEW e \in Disputes
               PROVE  /\ dispute'[e].votesInFavor = Cardinality(Voters(e, "InFavor"))
                      /\ dispute'[e].votesAgainst = Cardinality(Voters(e, "Against"))
                      /\ dispute'[e].votesAbstain = Cardinality(Voters(e, "Abstain"))
                      /\ votes[e][dispute'[e].plaintiff] = "None" /\ votes[e][dispute'[e].defendant] = "None"
    BY <1>5, <2>0 DEF VotesCountAccounts
  <2>1. CASE e = d
    <3>1. Voters(d, "InFavor") = {} /\ Voters(d, "Against") = {} /\ Voters(d, "Abstain") = {}
      BY <1>4 DEF Voters, NoVoteYet
    <3>2. dispute'[e] = v
      BY <1>4, <2>1 DEF ArbitrationTypeOK
    <3>3. votes[d][p] = "None" /\ votes[d][q] = "None"
      BY <1>1, <1>4 DEF NoVoteYet
    <3>4. QED
      BY <1>3, <2>1, <3>1, <3>2, <3>3, FS_EmptySet
  <2>2. CASE e # d
    BY <1>4, <2>2 DEF VotesCountAccounts, ArbitrationTypeOK
  <2>3. QED
    BY <2>1, <2>2
<1>8. NoVoteYet'
  BY <1>3, <1>4, <1>5 DEF NoVoteYet, ArbitrationTypeOK
<1>9. StakePaidOnce'
  <2>1. \A e \in Disputes :
          \/ dispute[e].status \notin Closed /\ dispute'[e].status \notin Closed
          \/ votes'[e] = votes[e] /\ dispute'[e].status = dispute[e].status /\ SameCase(dispute[e], dispute'[e])
    BY <1>3, <1>4, <1>5 DEF Closed, ArbitrationTypeOK, SameCase
  <2>2. QED
    BY <1>5, <2>1, PaidKept
<1>10. QED
  BY <1>6, <1>7, <1>8, <1>9

(* A step that moves a dispute on without closing it, and counts nothing.  *)
LEMMA MoveKeeps ==
  ASSUME ArbitrationInv, NEW d \in Disputes, startVoting(d) \/ Deadline(d)
  PROVE  ArbitrationInv'
<1> USE DEF ArbitrationInv
<1>1. dispute[d] \in DisputeType
  BY DEF ArbitrationTypeOK
<1>2. PICK s \in {"None"} \cup Running \cup Closed, o \in BOOLEAN :
        /\ dispute' = [dispute EXCEPT ![d] = [dispute[d] EXCEPT !.status = s, !.open = o]]
        /\ \/ s = dispute[d].status
           \/ s = "Voting" /\ dispute[d].status = "Pending"
  <2>1. CASE startVoting(d)
    BY <2>1 DEF startVoting, Running
  <2>2. CASE Deadline(d)
    <3>1. dispute' = [dispute EXCEPT ![d] = [dispute[d] EXCEPT !.open = FALSE]]
      BY <2>2 DEF Deadline
    <3>2. [dispute[d] EXCEPT !.open = FALSE] = [dispute[d] EXCEPT !.status = dispute[d].status, !.open = FALSE]
      BY <1>1 DEF DisputeType
    <3>3. dispute[d].status \in {"None"} \cup Running \cup Closed
      BY <1>1 DEF DisputeType
    <3>4. QED
      BY <3>1, <3>2, <3>3
  <2>3. QED
    BY <2>1, <2>2
<1> DEFINE v == [dispute[d] EXCEPT !.status = s, !.open = o]
<1>3. v \in DisputeType /\ v.status = s /\ SameCounts(dispute[d], v) /\ SameCase(dispute[d], v)
  BY <1>1 DEF DisputeType, SameCounts, SameCase
<1>4. dispute'[d] = v /\ \A e \in Disputes \ {d} : dispute'[e] = dispute[e]
  BY <1>2 DEF ArbitrationTypeOK
<1> HIDE DEF v
<1>5. UNCHANGED <<votes, arbitratorList, reputation, minArbitrators, balance, paid, withdrawn, changes>>
  BY DEF startVoting, Deadline
<1>6. ArbitrationTypeOK'
  BY <1>2, <1>3, <1>5 DEF ArbitrationTypeOK, v
<1>7. VotesCountAccounts' /\ NoVoteYet'
  <2>1. \A e \in Disputes : SameCounts(dispute[e], dispute'[e]) /\ SameCase(dispute[e], dispute'[e])
                            /\ (dispute'[e].status = "None" => dispute[e].status = "None")
    BY <1>2, <1>3, <1>4 DEF SameCounts, SameCase
  <2>2. QED
    BY <1>5, <2>1, CountsKept
<1>8. StakePaidOnce'
  <2>1. \A e \in Disputes :
          \/ dispute[e].status \notin Closed /\ dispute'[e].status \notin Closed
          \/ votes'[e] = votes[e] /\ dispute'[e].status = dispute[e].status /\ SameCase(dispute[e], dispute'[e])
    BY <1>2, <1>3, <1>4, <1>5 DEF Closed, SameCase
  <2>2. QED
    BY <1>5, <2>1, PaidKept
<1>9. QED
  BY <1>6, <1>7, <1>8

(* A vote: the counter grows by one, and so does the set it counts.        *)
LEMMA VoteKeeps ==
  ASSUME ArbitrationInv, NEW d \in Disputes, NEW a \in Accounts, NEW r \in Results, vote(d, a, r)
  PROVE  ArbitrationInv'
<1> USE DEF ArbitrationInv
<1>1. /\ dispute[d] \in DisputeType /\ dispute[d].status = "Voting" /\ votes[d][a] = "None"
      /\ a # dispute[d].plaintiff /\ a # dispute[d].defendant
  BY DEF ArbitrationTypeOK, vote, MayVote
<1> DEFINE v == Tallied(dispute[d], r)
<1>2. /\ v \in DisputeType /\ v.status = "Voting" /\ SameCase(dispute[d], v)
      /\ v.votesInFavor = IF r = "InFavor" THEN dispute[d].votesInFavor + 1 ELSE dispute[d].votesInFavor
      /\ v.votesAgainst = IF r = "Against" THEN dispute[d].votesAgainst + 1 ELSE dispute[d].votesAgainst
      /\ v.votesAbstain = IF r = "Abstain" THEN dispute[d].votesAbstain + 1 ELSE dispute[d].votesAbstain
  BY <1>1, TallyFacts
<1> HIDE DEF v
<1>3. /\ dispute' = [dispute EXCEPT ![d] = v]
      /\ dispute'[d] = v /\ \A e \in Disputes \ {d} : dispute'[e] = dispute[e]
  BY DEF vote, ArbitrationTypeOK, v
<1>4. UNCHANGED <<arbitratorList, reputation, minArbitrators, balance, paid, withdrawn, changes>>
  BY DEF vote
<1>5. /\ votes' \in [Disputes -> [Accounts -> {"None", "InFavor", "Against", "Abstain"}]]
      /\ votes'[d][a] = r
      /\ \A b \in Accounts \ {a} : votes'[d][b] = votes[d][b]
      /\ \A e \in Disputes \ {d} : votes'[e] = votes[e]
  <2>1. votes' = [votes EXCEPT ![d] = [votes[d] EXCEPT ![a] = r]]
    BY DEF vote
  <2>2. [votes[d] EXCEPT ![a] = r] \in [Accounts -> {"None", "InFavor", "Against", "Abstain"}]
    BY DEF ArbitrationTypeOK, Results
  <2>3. QED
    BY <2>1, <2>2 DEF ArbitrationTypeOK
<1>6. ArbitrationTypeOK'
  BY <1>2, <1>3, <1>4, <1>5 DEF ArbitrationTypeOK
<1>7. ASSUME NEW x \in Results
      PROVE  Cardinality(Voters(d, x)') = IF x = r THEN Cardinality(Voters(d, x)) + 1 ELSE Cardinality(Voters(d, x))
  <2>1. IsFiniteSet(Voters(d, x)) /\ a \notin Voters(d, x)
    BY <1>1, FS_Subset DEF Voters, Results
  <2>2. CASE x = r
    <3>1. Voters(d, x)' = Voters(d, x) \cup {a}
      BY <1>5, <2>2 DEF Voters
    <3>2. QED
      BY <2>1, <2>2, <3>1, FS_AddElement
  <2>3. CASE x # r
    <3>1. Voters(d, x)' = Voters(d, x)
      BY <1>1, <1>5, <2>1, <2>3 DEF Voters
    <3>2. QED
      BY <2>3, <3>1
  <2>4. QED
    BY <2>2, <2>3
<1>8. VotesCountAccounts'
  <2> SUFFICES ASSUME NEW e \in Disputes
               PROVE  /\ dispute'[e].votesInFavor = Cardinality(Voters(e, "InFavor")')
                      /\ dispute'[e].votesAgainst = Cardinality(Voters(e, "Against")')
                      /\ dispute'[e].votesAbstain = Cardinality(Voters(e, "Abstain")')
                      /\ votes'[e][dispute'[e].plaintiff] = "None" /\ votes'[e][dispute'[e].defendant] = "None"
    BY DEF VotesCountAccounts
  <2>1. CASE e = d
    <3>1. dispute[d].plaintiff \in Accounts /\ dispute[d].defendant \in Accounts
      BY <1>1 DEF DisputeType
    <3>2. votes'[d][dispute[d].plaintiff] = "None" /\ votes'[d][dispute[d].defendant] = "None"
      BY <1>1, <1>5, <3>1 DEF VotesCountAccounts
    <3>3. dispute'[d].plaintiff = dispute[d].plaintiff /\ dispute'[d].defendant = dispute[d].defendant
      BY <1>2, <1>3 DEF SameCase
    <3>4. /\ dispute'[d].votesInFavor = Cardinality(Voters(d, "InFavor")')
          /\ dispute'[d].votesAgainst = Cardinality(Voters(d, "Against")')
          /\ dispute'[d].votesAbstain = Cardinality(Voters(d, "Abstain")')
      BY <1>2, <1>3, <1>7 DEF VotesCountAccounts, Results
    <3>5. QED
      BY <2>1, <3>2, <3>3, <3>4
  <2>2. CASE e # d
    <3>1. \A x : Voters(e, x)' = Voters(e, x)
      BY <1>5, <2>2 DEF Voters
    <3>2. QED
      BY <1>3, <1>5, <2>2, <3>1 DEF VotesCountAccounts
  <2>3. QED
    BY <2>1, <2>2
<1>9. NoVoteYet'
  BY <1>2, <1>3, <1>5 DEF NoVoteYet
<1>10. StakePaidOnce'
  <2>1. \A e \in Disputes :
          \/ dispute[e].status \notin Closed /\ dispute'[e].status \notin Closed
          \/ votes'[e] = votes[e] /\ dispute'[e].status = dispute[e].status /\ SameCase(dispute[e], dispute'[e])
    BY <1>1, <1>2, <1>3, <1>5 DEF Closed, SameCase
  <2>2. QED
    BY <1>4, <2>1, PaidKept
<1>11. QED
  BY <1>6, <1>8, <1>9, <1>10

(* resolveDispute: the stake is paid in the step that closes the dispute,  *)
(* to the one the votes give it to.                                        *)
LEMMA CloseKeeps ==
  ASSUME ArbitrationInv, NEW d \in Disputes, Expire(d) \/ Resolve(d)
  PROVE  ArbitrationInv'
<1> USE DEF ArbitrationInv
<1>1. /\ dispute[d] \in DisputeType /\ dispute[d].status = "Voting"
      /\ dispute[d].stake \in Nat /\ \A a \in Accounts : paid[d][a] = 0
  BY DEF ArbitrationTypeOK, StakePaidOnce, Closed, DisputeType, Expire, Resolve, CanResolve
<1>2. PICK s \in Closed, w \in Accounts \cup {Nobody}, x \in Accounts :
        /\ dispute' = [dispute EXCEPT ![d] = [dispute[d] EXCEPT !.status = s, !.winner = w]]
        /\ x = IF s # "Expired" /\ dispute[d].votesAgainst > dispute[d].votesInFavor
                 THEN dispute[d].defendant ELSE dispute[d].plaintiff
        /\ Pay(d, x)
  <2>1. CASE Expire(d)
    <3>1. dispute' = [dispute EXCEPT ![d] = [dispute[d] EXCEPT !.status = "Expired"]] /\ Pay(d, dispute[d].plaintiff)
      BY <2>1 DEF Expire
    <3>2. /\ [dispute[d] EXCEPT !.status = "Expired"] =
               [dispute[d] EXCEPT !.status = "Expired", !.winner = dispute[d].winner]
          /\ dispute[d].winner \in Accounts \cup {Nobody} /\ dispute[d].plaintiff \in Accounts
      BY <1>1 DEF DisputeType
    <3>3. QED
      BY <3>1, <3>2 DEF Closed
  <2>2. CASE Resolve(d)
    <3>1. dispute' = [dispute EXCEPT ![d] = [dispute[d] EXCEPT !.status = Outcome(dispute[d]).status,
                                                              !.winner = Outcome(dispute[d]).winner]]
      BY <2>2 DEF Resolve
    <3>2. PICK o : o = Outcome(dispute[d])
      OBVIOUS
    <3>3. Pay(d, o.payee)
      BY <2>2, <3>2 DEF Resolve
    <3>4. /\ o.status \in {"Resolved", "Rejected"} /\ o.winner \in Accounts \cup {Nobody}
          /\ o.payee = IF dispute[d].votesAgainst > dispute[d].votesInFavor
                        THEN dispute[d].defendant ELSE dispute[d].plaintiff
      BY <1>1, <3>2, OutcomeType
    <3>5. o.payee \in Accounts
      BY <1>1, <3>4 DEF DisputeType
    <3>6. o.status \in Closed /\ o.status # "Expired"
      BY <3>4 DEF Closed
    <3>7. QED
      BY <3>1, <3>2, <3>3, <3>4, <3>5, <3>6
  <2>3. QED
    BY <2>1, <2>2
<1> DEFINE v == [dispute[d] EXCEPT !.status = s, !.winner = w]
<1>3. v \in DisputeType /\ v.status = s /\ SameCounts(dispute[d], v) /\ SameCase(dispute[d], v)
  BY <1>1 DEF DisputeType, SameCounts, SameCase
<1>4. dispute'[d] = v /\ \A e \in Disputes \ {d} : dispute'[e] = dispute[e]
  BY <1>2 DEF ArbitrationTypeOK
<1> HIDE DEF v
<1>5. /\ UNCHANGED <<votes, arbitratorList, minArbitrators, withdrawn, changes>>
      /\ balance >= dispute[d].stake /\ balance' = balance - dispute[d].stake
      /\ paid' = [paid EXCEPT ![d] = [paid[d] EXCEPT ![x] = dispute[d].stake]]
  <2>1. UNCHANGED <<votes, arbitratorList, minArbitrators, withdrawn, changes>>
    BY DEF Expire, Resolve
  <2>2. paid' = [paid EXCEPT ![d] = [paid[d] EXCEPT ![x] = paid[d][x] + dispute[d].stake]]
    BY <1>2 DEF Pay
  <2>3. paid[d][x] + dispute[d].stake = dispute[d].stake
    BY <1>1
  <2>4. QED
    BY <1>2, <2>1, <2>2, <2>3 DEF Pay
<1>6. reputation' \in [Accounts -> 0 .. 204]
  BY NewReputationType DEF Expire, Resolve, ArbitrationTypeOK
<1>7. ArbitrationTypeOK'
  <2>1. dispute' \in [Disputes -> DisputeType]
    BY <1>2, <1>3 DEF ArbitrationTypeOK, v
  <2>2. balance' \in Nat
    BY <1>1, <1>5 DEF ArbitrationTypeOK
  <2>3. [paid[d] EXCEPT ![x] = dispute[d].stake] \in [Accounts -> Nat]
    BY <1>1 DEF ArbitrationTypeOK
  <2>4. paid' \in [Disputes -> [Accounts -> Nat]]
    BY <1>5, <2>3 DEF ArbitrationTypeOK
  <2>5. QED
    BY <1>5, <1>6, <2>1, <2>2, <2>4 DEF ArbitrationTypeOK
<1>8. VotesCountAccounts' /\ NoVoteYet'
  <2>1. \A e \in Disputes : SameCounts(dispute[e], dispute'[e]) /\ SameCase(dispute[e], dispute'[e])
                            /\ (dispute'[e].status = "None" => dispute[e].status = "None")
    BY <1>3, <1>4 DEF SameCounts, SameCase, Closed
  <2>2. QED
    BY <1>5, <2>1, CountsKept
<1>9. Entitled(d)' = x
  <2>1. \A z : Voters(d, z)' = Voters(d, z)
    BY <1>5 DEF Voters
  <2>2. /\ dispute[d].votesAgainst = Cardinality(Voters(d, "Against"))
        /\ dispute[d].votesInFavor = Cardinality(Voters(d, "InFavor"))
    BY DEF VotesCountAccounts
  <2>3. QED
    BY <1>2, <1>3, <1>4, <2>1, <2>2 DEF Entitled, SameCase
<1>10. StakePaidOnce'
  <2> SUFFICES ASSUME NEW e \in Disputes, NEW a \in Accounts
               PROVE  paid'[e][a] = IF dispute'[e].status \in Closed /\ a = Entitled(e)' THEN dispute'[e].stake ELSE 0
    BY DEF StakePaidOnce
  <2>1. CASE e = d
    <3>1. paid'[d] = [paid[d] EXCEPT ![x] = dispute[d].stake] /\ paid[d] \in [Accounts -> Nat]
      BY <1>5 DEF ArbitrationTypeOK
    <3>2. paid'[d][a] = IF a = x THEN dispute[d].stake ELSE 0
      BY <1>1, <3>1
    <3>3. dispute'[d].status \in Closed /\ dispute'[d].stake = dispute[d].stake
      BY <1>3, <1>4 DEF SameCase
    <3>4. QED
      BY <1>9, <2>1, <3>2, <3>3
  <2>2. CASE e # d
    <3>1. paid'[e] = paid[e] /\ dispute'[e] = dispute[e] /\ votes' = votes
      BY <1>4, <1>5, <2>2 DEF ArbitrationTypeOK
    <3>2. \A z : Voters(e, z)' = Voters(e, z)
      BY <3>1 DEF Voters
    <3>3. Entitled(e)' = Entitled(e)
      BY <3>1, <3>2 DEF Entitled
    <3>4. paid[e][a] = IF dispute[e].status \in Closed /\ a = Entitled(e) THEN dispute[e].stake ELSE 0
      BY DEF StakePaidOnce
    <3>5. QED
      BY <3>1, <3>3, <3>4
  <2>3. QED
    BY <2>1, <2>2
<1>11. QED
  BY <1>7, <1>8, <1>10

(* What the owner does touches no dispute.                                 *)
LEMMA OwnerKeeps ==
  ASSUME ArbitrationInv,
         \/ \E a \in Accounts : registerArbitrator(a) \/ removeArbitrator(a)
         \/ \E n \in Minimums : setMinArbitrators(n)
         \/ emergencyWithdraw
         \/ UNCHANGED arbitrationVars
  PROVE  ArbitrationInv'
<1> USE DEF ArbitrationInv
<1>1. UNCHANGED <<dispute, votes, paid>>
  BY DEF registerArbitrator, removeArbitrator, setMinArbitrators, emergencyWithdraw, arbitrationVars
<1>2. ArbitrationTypeOK'
  <2>1. ASSUME NEW a \in Accounts, registerArbitrator(a) \/ removeArbitrator(a) PROVE ArbitrationTypeOK'
    BY <2>1 DEF ArbitrationTypeOK, OwnerCall, registerArbitrator, removeArbitrator
  <2>2. ASSUME NEW n \in Minimums, setMinArbitrators(n) PROVE ArbitrationTypeOK'
    BY <2>2 DEF ArbitrationTypeOK, OwnerCall, setMinArbitrators
  <2>3. CASE emergencyWithdraw
    BY <2>3 DEF ArbitrationTypeOK, OwnerCall, emergencyWithdraw
  <2>4. CASE UNCHANGED arbitrationVars
    BY <2>4 DEF ArbitrationTypeOK, arbitrationVars
  <2>5. QED
    BY <2>1, <2>2, <2>3, <2>4
<1>3. VotesCountAccounts' /\ NoVoteYet'
  BY <1>1 DEF VotesCountAccounts, NoVoteYet, Voters
<1>4. StakePaidOnce'
  BY <1>1, PaidKept DEF SameCase
<1>5. QED
  BY <1>2, <1>3, <1>4

(* The invariant of disputes, votes and stakes holds in every reachable    *)
(* state of the arbitration contract.                                      *)
THEOREM ArbitrationInductiveInvariant == ArbitrationSpec => []ArbitrationInv
<1>1. ArbitrationInit => ArbitrationInv
  <2> SUFFICES ASSUME ArbitrationInit PROVE ArbitrationInv
    OBVIOUS
  <2>1. /\ NoDispute \in DisputeType /\ NoDispute.status = "None" /\ NoDispute.stake = 0
        /\ NoDispute.plaintiff \in Accounts /\ NoDispute.defendant \in Accounts
        /\ NoDispute.votesInFavor = 0 /\ NoDispute.votesAgainst = 0 /\ NoDispute.votesAbstain = 0
    BY NoDisputeType
  <2>2. ArbitrationTypeOK
    <3>1. dispute \in [Disputes -> DisputeType] /\ paid \in [Disputes -> [Accounts -> Nat]]
      BY <2>1 DEF ArbitrationInit
    <3>2. votes \in [Disputes -> [Accounts -> {"None", "InFavor", "Against", "Abstain"}]]
      BY DEF ArbitrationInit
    <3>3. reputation \in [Accounts -> 0 .. 204] /\ arbitratorList \subseteq Accounts
      BY DEF ArbitrationInit
    <3>4. QED
      BY <3>1, <3>2, <3>3 DEF ArbitrationInit, ArbitrationTypeOK
  <2>3. NoVoteYet
    BY DEF ArbitrationInit, NoVoteYet
  <2>4. VotesCountAccounts
    <3>1. \A d \in Disputes : \A r \in Results : Voters(d, r) = {}
      BY DEF ArbitrationInit, Voters, Results
    <3>2. QED
      BY <2>1, <3>1, FS_EmptySet DEF ArbitrationInit, VotesCountAccounts, Results
  <2>5. StakePaidOnce
    BY <2>1 DEF ArbitrationInit, StakePaidOnce, Closed
  <2>6. QED
    BY <2>2, <2>3, <2>4, <2>5 DEF ArbitrationInv
<1>2. ArbitrationInv /\ [ArbitrationNext]_arbitrationVars => ArbitrationInv'
  BY CreateKeeps, MoveKeeps, VoteKeeps, CloseKeeps, OwnerKeeps DEF ArbitrationNext, Results
<1>3. QED
  BY <1>1, <1>2, PTL DEF ArbitrationSpec

(* For any accounts and disputes: the counters that decide a dispute count *)
(* accounts, each once and no party of it, whoever is removed or           *)
(* registered again while the vote is on (AITraceArbitration.sol:293).     *)
THEOREM CountersCountAccounts == ArbitrationSpec => []VotesCountAccounts
<1>1. ArbitrationInv => VotesCountAccounts
  BY DEF ArbitrationInv
<1>2. QED
  BY <1>1, ArbitrationInductiveInvariant, PTL

(* A stake is paid out when its dispute closes, once, to the party that    *)
(* the accounts who voted gave it to, and never otherwise, whatever calls  *)
(* of resolveDispute (AITraceArbitration.sol:310).                         *)
THEOREM StakesLeaveOnce == ArbitrationSpec => []StakePaidOnce
<1>1. ArbitrationInv => StakePaidOnce
  BY DEF ArbitrationInv
<1>2. QED
  BY <1>1, ArbitrationInductiveInvariant, PTL

Open == {d \in Disputes : dispute[d].status \in Running}
Stake == [d \in Disputes |-> dispute[d].stake]

(* Only finitely many disputes are open, and what they have staked is there*)
HeldInv ==
  /\ IsFiniteSet(Open)
  /\ ~withdrawn => balance = Total(Stake, Open)

LEMMA StakesAreNumbers ==
  ASSUME ArbitrationTypeOK
  PROVE  \A d \in Disputes : Stake[d] = dispute[d].stake /\ Stake[d] \in Nat
BY DEF ArbitrationTypeOK, DisputeType, Stake

LEMMA SumOfStakes ==
  ASSUME ArbitrationTypeOK, NEW S, S \subseteq Disputes, IsFiniteSet(S)
  PROVE  MapThenSumSet(LAMBDA d : dispute[d].stake, S) = Total(Stake, S)
<1> DEFINE Here(it) == it = [s \in SUBSET S |-> IF s = {} THEN 0
                               ELSE dispute[CHOOSE x \in s : TRUE].stake + it[s \ {CHOOSE x \in s : TRUE}]]
<1>1. MapThenSumSet(LAMBDA d : dispute[d].stake, S) = (CHOOSE it : Here(it))[S]
  BY DEF MapThenSumSet, MapThenFoldSet
<1>2. \A x \in S : Stake[x] \in Nat /\ dispute[x].stake = Stake[x]
  BY StakesAreNumbers
<1>3. PICK it \in [SUBSET S -> Nat] : IsSum(it, Stake, S) /\ Total(Stake, S) = it[S]
  BY <1>2, SumOf
<1>4. \A s \in SUBSET S : it[s] = IF s = {} THEN 0
                            ELSE Stake[CHOOSE x \in s : TRUE] + it[s \ {CHOOSE x \in s : TRUE}]
  <2>1. Summed(it, Stake, S)
    BY <1>2, <1>3, SumUnfolds
  <2>2. QED
    BY <2>1 DEF Summed
<1>5. \A s \in SUBSET S : s # {} => (CHOOSE x \in s : TRUE) \in s
  OBVIOUS
<1>6. Here(it)
  <2>1. \A s \in SUBSET S : it[s] = IF s = {} THEN 0
                              ELSE dispute[CHOOSE x \in s : TRUE].stake + it[s \ {CHOOSE x \in s : TRUE}]
    <3> SUFFICES ASSUME NEW s \in SUBSET S, s # {}
                 PROVE  it[s] = dispute[CHOOSE x \in s : TRUE].stake + it[s \ {CHOOSE x \in s : TRUE}]
      BY <1>4
    <3>1. PICK y \in s : y = (CHOOSE x \in s : TRUE)
      BY <1>5
    <3>2. it[s] = Stake[y] + it[s \ {y}] /\ dispute[y].stake = Stake[y]
      BY <1>2, <1>4, <3>1
    <3>3. QED
      BY <3>1, <3>2
  <2>2. QED
    BY <1>3, <2>1
<1>7. Here(CHOOSE jt : Here(jt))
  <2> HIDE DEF Here
  <2> QED
    BY <1>6
<1>8. PICK jt : Here(jt) /\ MapThenSumSet(LAMBDA d : dispute[d].stake, S) = jt[S]
  <2> HIDE DEF Here
  <2> QED
    BY <1>1, <1>7, Zenon
<1>9. jt[S] = it[S]
  <2> DEFINE T == {s \in SUBSET S : jt[s] = it[s]}
  <2>1. {} \in T
    BY <1>6, <1>8
  <2>2. ASSUME NEW s \in SUBSET S, s # {}, \A x \in s : s \ {x} \in T PROVE s \in T
    <3>1. PICK y \in s : y = (CHOOSE x \in s : TRUE)
      BY <1>5, <2>2
    <3>a. jt[s] = dispute[y].stake + jt[s \ {y}]
      BY <1>8, <2>2, <3>1
    <3>b. it[s] = dispute[y].stake + it[s \ {y}]
      BY <1>6, <2>2, <3>1
    <3>2. jt[s] = dispute[y].stake + jt[s \ {y}] /\ it[s] = dispute[y].stake + it[s \ {y}]
      BY <3>a, <3>b
    <3>3. QED
      BY <2>2, <3>2
  <2>3. SUBSET S \subseteq T
    <3> HIDE DEF T
    <3> QED
      BY <2>1, <2>2, FiniteAll
  <2>4. QED
    BY <2>3
<1>10. QED
  BY <1>3, <1>8, <1>9, Zenon

----------------------------------------------------------------------------
LEMMA HeldInit == ArbitrationInit => HeldInv
<1> SUFFICES ASSUME ArbitrationInit PROVE HeldInv
  OBVIOUS
<1>1. Open = {}
  BY NoDisputeType DEF ArbitrationInit, Open, Running
<1>2. QED
  BY <1>1, FS_EmptySet, TotalOfNone DEF ArbitrationInit, HeldInv

(* A step that opens, closes and stakes nothing.                           *)
LEMMA HeldStays ==
  ASSUME HeldInv, ArbitrationTypeOK, ArbitrationTypeOK', balance' = balance, withdrawn' = withdrawn,
         \A d \in Disputes : /\ dispute'[d].stake = dispute[d].stake
                             /\ dispute'[d].status \in Running <=> dispute[d].status \in Running
  PROVE  HeldInv'
<1>1. Open' = Open
  BY DEF Open
<1>2. \A d \in Disputes : Stake[d] \in Nat /\ Stake'[d] = Stake[d]
  BY StakesAreNumbers DEF Stake
<1>3. PICK h, k, S : h = Stake /\ k = Stake' /\ S = Open
  OBVIOUS
<1>4. Total(k, S) = Total(h, S)
  <2>1. IsFiniteSet(S) /\ \A x \in S : h[x] \in Nat /\ k[x] = h[x]
    BY <1>2, <1>3 DEF HeldInv, Open
  <2>2. QED
    BY <2>1, TotalsAgree
<1>5. Total(Stake, Open)' = Total(k, S) /\ Total(Stake, Open) = Total(h, S)
  BY <1>1, <1>3 DEF Total
<1>6. QED
  BY <1>1, <1>4, <1>5 DEF HeldInv

LEMMA HeldOpens ==
  ASSUME HeldInv, ArbitrationInv, NEW d \in Disputes, NEW exists \in BOOLEAN, NEW p \in Parties, NEW q \in Parties,
         NEW s \in Stakes, createDispute(d, exists, p, q, s)
  PROVE  HeldInv'
<1>1. /\ dispute[d].status = "None" /\ balance' = balance + s /\ withdrawn' = withdrawn
      /\ dispute' = [dispute EXCEPT ![d] = [NoDispute EXCEPT !.status = "Pending", !.plaintiff = p,
                                             !.defendant = q, !.stake = s, !.open = TRUE]]
      /\ dispute \in [Disputes -> DisputeType] /\ ArbitrationTypeOK
  BY DEF createDispute, ArbitrationInv, ArbitrationTypeOK
<1>2. /\ dispute'[d].status = "Pending" /\ dispute'[d].stake = s
      /\ \A e \in Disputes \ {d} : dispute'[e] = dispute[e]
  BY <1>1, NoDisputeType DEF DisputeType
<1>3. PICK h, k, S : h = Stake /\ k = Stake' /\ S = Open
  OBVIOUS
<1>4. /\ IsFiniteSet(S) /\ d \notin S /\ k[d] = s /\ s \in Nat
      /\ \A x \in S : h[x] \in Nat /\ k[x] = h[x]
  <2>1. IsFiniteSet(S)
    BY <1>3 DEF HeldInv
  <2>2. d \notin S
    BY <1>1, <1>3 DEF Open, Running
  <2>3. k[d] = s
    BY <1>2, <1>3 DEF Stake
  <2>4. s \in Nat
    BY ArbitrationAssumption DEF ArbitrationAssumption
  <2>5. S \subseteq Disputes
    BY <1>3 DEF Open
  <2>6. \A x \in S : h[x] = dispute[x].stake /\ k[x] = dispute'[x].stake
    BY <1>3, <2>5 DEF Stake
  <2>7. \A x \in S : dispute[x].stake \in Nat
    BY <1>1, <2>5, StakesAreNumbers
  <2>8. \A x \in S : h[x] \in Nat /\ k[x] = h[x]
    BY <1>2, <2>2, <2>5, <2>6, <2>7
  <2>9. QED
    BY <2>1, <2>2, <2>3, <2>4, <2>8
<1>5. Open' = S \cup {d}
  BY <1>2, <1>3, <1>4 DEF Open, Running
<1>6. IsFiniteSet(S \cup {d})
  BY <1>4, FS_AddElement
<1>7. Total(k, S \cup {d}) = Total(h, S) + s
  <2>1. Total(k, S \cup {d}) = Total(h, S) + k[d]
    <3>1. k[d] \in Nat
      BY <1>4
    <3>2. QED
      BY ONLY <1>4, <3>1, TotalAdds
  <2>2. QED
    BY <1>4, <2>1
<1>8. Total(Stake, Open)' = Total(k, S \cup {d}) /\ Total(Stake, Open) = Total(h, S)
  BY <1>3, <1>5 DEF Total
<1>9. QED
  BY <1>1, <1>5, <1>6, <1>7, <1>8 DEF HeldInv

LEMMA HeldCloses ==
  ASSUME HeldInv, ArbitrationInv, NEW d \in Disputes, Expire(d) \/ Resolve(d)
  PROVE  HeldInv'
<1>1. /\ dispute[d].status = "Voting" /\ balance' = balance - dispute[d].stake /\ withdrawn' = withdrawn
      /\ dispute \in [Disputes -> DisputeType] /\ ArbitrationTypeOK
  BY DEF Expire, Resolve, CanResolve, Pay, ArbitrationInv, ArbitrationTypeOK
<1>2. /\ dispute'[d].status \in Closed /\ dispute'[d].stake = dispute[d].stake
      /\ \A e \in Disputes \ {d} : dispute'[e] = dispute[e]
  <2>1. CASE Expire(d)
    BY <1>1, <2>1 DEF Expire, Closed, DisputeType
  <2>2. CASE Resolve(d)
    <3>1. dispute' = [dispute EXCEPT ![d] = [dispute[d] EXCEPT !.status = Outcome(dispute[d]).status,
                                                              !.winner = Outcome(dispute[d]).winner]]
      BY <2>2 DEF Resolve
    <3>2. Outcome(dispute[d]).status \in Closed
      BY <1>1, OutcomeType DEF Closed
    <3>3. QED
      BY <1>1, <3>1, <3>2 DEF DisputeType
  <2>3. QED
    BY <2>1, <2>2
<1>3. PICK h, k, S : h = Stake /\ k = Stake' /\ S = Open
  OBVIOUS
<1>4. /\ IsFiniteSet(S) /\ d \in S /\ h[d] = dispute[d].stake
      /\ \A x \in S : h[x] \in Nat /\ k[x] = h[x]
  BY <1>1, <1>2, <1>3, StakesAreNumbers DEF HeldInv, Open, Stake, Running
<1>5. Open' = S \ {d}
  BY <1>2, <1>3, <1>4 DEF Open, Running, Closed
<1>6. IsFiniteSet(S \ {d})
  BY <1>4, FS_RemoveElement
<1>7. Total(h, S) = h[d] + Total(h, S \ {d})
  BY <1>4, TotalSplits
<1>8. Total(k, S \ {d}) = Total(h, S \ {d}) /\ Total(h, S \ {d}) \in Nat
  <2>1. \A x \in S \ {d} : h[x] \in Nat /\ k[x] = h[x]
    BY <1>4
  <2>2. QED
    BY <1>6, <2>1, TotalsAgree, TotalIsNatural
<1>9. Total(Stake, Open)' = Total(k, S \ {d}) /\ Total(Stake, Open) = Total(h, S)
  BY <1>3, <1>5 DEF Total
<1>10. h[d] \in Nat
  BY <1>4
<1>11. QED
  BY <1>1, <1>4, <1>5, <1>6, <1>7, <1>8, <1>9, <1>10 DEF HeldInv

LEMMA HeldNext ==
  ASSUME HeldInv, ArbitrationInv, ArbitrationInv', [ArbitrationNext]_arbitrationVars
  PROVE  HeldInv'
<1>1. ArbitrationTypeOK /\ ArbitrationTypeOK' /\ dispute \in [Disputes -> DisputeType]
  BY DEF ArbitrationInv, ArbitrationTypeOK
<1>2. ASSUME NEW d \in Disputes, startVoting(d) \/ Deadline(d) PROVE HeldInv'
  <2>1. balance' = balance /\ withdrawn' = withdrawn
    BY <1>2 DEF startVoting, Deadline
  <2>2. \A e \in Disputes : /\ dispute'[e].stake = dispute[e].stake
                            /\ dispute'[e].status \in Running <=> dispute[e].status \in Running
    BY <1>1, <1>2 DEF startVoting, Deadline, DisputeType, Running
  <2>3. QED
    BY <1>1, <2>1, <2>2, HeldStays
<1>3. ASSUME NEW d \in Disputes, NEW a \in Accounts, NEW r \in Results, vote(d, a, r) PROVE HeldInv'
  <2>1. balance' = balance /\ withdrawn' = withdrawn /\ dispute' = [dispute EXCEPT ![d] = Tallied(dispute[d], r)]
    BY <1>3 DEF vote
  <2>2. Tallied(dispute[d], r).status = dispute[d].status /\ Tallied(dispute[d], r).stake = dispute[d].stake
    BY <1>1, TallyFacts DEF SameCase
  <2>3. \A e \in Disputes : /\ dispute'[e].stake = dispute[e].stake
                            /\ dispute'[e].status \in Running <=> dispute[e].status \in Running
    BY <1>1, <2>1, <2>2
  <2>4. QED
    BY <1>1, <2>1, <2>3, HeldStays
<1>4. CASE emergencyWithdraw
  <2>1. withdrawn' = TRUE /\ dispute' = dispute
    BY <1>4 DEF emergencyWithdraw
  <2>2. QED
    BY <2>1 DEF HeldInv, Open
<1>5. CASE UNCHANGED <<dispute, balance, withdrawn>>
  BY <1>1, <1>5, HeldStays
<1>6. QED
  BY <1>2, <1>3, <1>4, <1>5, HeldOpens, HeldCloses
     DEF ArbitrationNext, Results, registerArbitrator, removeArbitrator, setMinArbitrators, arbitrationVars

(* The contract can pay every dispute that is open: until the owner takes  *)
(* the money out (AITraceArbitration.sol:539), it holds exactly the stakes *)
(* of the disputes that are not closed, each of which is paid out once,    *)
(* for any accounts, amounts and number of disputes.                       *)
THEOREM ContractHoldsTheStakes == ArbitrationSpec => []StakesArePaidOnce
<1>1. ArbitrationSpec => [](ArbitrationInv /\ HeldInv)
  <2>1. ArbitrationInv /\ HeldInv /\ ArbitrationInv' /\ [ArbitrationNext]_arbitrationVars => HeldInv'
    BY HeldNext
  <2>2. QED
    BY <2>1, HeldInit, ArbitrationInductiveInvariant, PTL DEF ArbitrationSpec
<1>2. ArbitrationInv /\ HeldInv => StakesArePaidOnce
  <2> SUFFICES ASSUME ArbitrationInv, HeldInv PROVE StakesArePaidOnce
    OBVIOUS
  <2>1. ArbitrationTypeOK /\ StakePaidOnce
    BY DEF ArbitrationInv
  <2>2. MapThenSumSet(LAMBDA d : dispute[d].stake, Open) = Total(Stake, Open)
    <3>1. Open \subseteq Disputes /\ IsFiniteSet(Open)
      BY DEF Open, HeldInv
    <3>2. QED
      BY <2>1, <3>1, SumOfStakes
  <2>3. StakesAreHeld
    BY <2>2, Zenon DEF StakesAreHeld, HeldInv, Open
  <2>4. QED
    BY <2>1, <2>3 DEF StakesArePaidOnce
<1>3. QED
  BY <1>1, <1>2, PTL

HIDE ArbitrationAssumption DEF ArbitrationAssumption

----------------------------------------------------------------------------
(***************************************************************************)
(* TraceProcessor, for any finite set of events, any commitments and       *)
(* bounds.                                                                 *)
(*                                                                         *)
(* A root covers the leaves before it, and the tree only grows             *)
(* (RootsCover): what a commitment acknowledged is among them when it      *)
(* reads the root, because an event is acknowledged after its leaf is      *)
(* appended (AppendedIsInTree). Leaves are counted against the messages    *)
(* that are published, handled or on their way (LeavesCover).              *)
(***************************************************************************)

TraceEvents == SingleEvents \cup BatchEvents
JsonLeaves == {i \in DOMAIN leaves : leaves[i] \in JsonEvents}
Unpublished == {e \in JsonEvents : eventCalls[e] = "appended"}

TraceTypes ==
  /\ leaves \in Seq(TraceEvents) /\ messages \in Seq(JsonEvents) /\ batched \in Seq(BatchEvents)
  /\ eventCalls \in [SingleEvents -> {"idle", "appended", "ok", "error"}]
  /\ handled \in Nat
  /\ DOMAIN commits = Commitments

(* An event whose leaf is appended is in the tree, published or not.       *)
AppendedIsInTree ==
  /\ \A e \in SingleEvents : eventCalls[e] \in {"appended", "ok"} => e \in InTree
  /\ \A i \in DOMAIN messages : messages[i] \in InTree

RootsCover ==
  \A c \in Commitments :
    commits[c] = NotCommitted \/
    /\ commits[c].root \in 0 .. Len(leaves)
    /\ commits[c].acknowledged \subseteq {leaves[i] : i \in 1 .. commits[c].root}

(* A JSON leaf for each message, handled or not, and for each call that has*)
(* yet to publish.                                                         *)
LeavesCover == Cardinality(JsonLeaves) >= Len(messages) + handled + Cardinality(Unpublished)

BatchedOnce ==
  /\ \A i, j \in DOMAIN leaves : leaves[i] = leaves[j] /\ leaves[i] \in BatchEvents => i = j
  /\ \A i, j \in DOMAIN batched : batched[i] = batched[j] => i = j
  /\ \A i \in DOMAIN batched : batched[i] \notin InTree

TraceInv == TraceTypes /\ AppendedIsInTree /\ RootsCover /\ LeavesCover /\ BatchedOnce

----------------------------------------------------------------------------
LEMMA CountsAreNats ==
  ASSUME TraceTypes
  PROVE  /\ IsFiniteSet(JsonLeaves) /\ Cardinality(JsonLeaves) \in Nat
         /\ IsFiniteSet(Unpublished) /\ Cardinality(Unpublished) \in Nat
<1>1. Len(leaves) \in Nat /\ DOMAIN leaves = 1 .. Len(leaves)
  BY DEF TraceTypes
<1>2. IsFiniteSet(1 .. Len(leaves))
  BY <1>1, FS_Interval
<1>3. JsonLeaves \in SUBSET (1 .. Len(leaves)) /\ Unpublished \in SUBSET JsonEvents
  BY <1>1 DEF JsonLeaves, Unpublished
<1>4. IsFiniteSet(JsonLeaves) /\ IsFiniteSet(Unpublished)
  BY <1>2, <1>3, FS_Subset, TraceAssumption DEF TraceAssumption
<1>5. QED
  BY <1>4, FS_CardinalityType

(* What the tree gains by the leaf of one event.                           *)
LEMMA LeafIsAppended ==
  ASSUME TraceTypes, NEW e \in SingleEvents, leaves' = Append(leaves, e)
  PROVE  /\ leaves' \in Seq(TraceEvents)
         /\ Len(leaves') = Len(leaves) + 1
         /\ \A i \in 1 .. Len(leaves) : leaves'[i] = leaves[i]
         /\ leaves'[Len(leaves) + 1] = e
         /\ InTree' = InTree \cup {e}
         /\ JsonLeaves' = JsonLeaves \cup (IF e \in JsonEvents THEN {Len(leaves) + 1} ELSE {})
<1>1. leaves \in Seq(TraceEvents) /\ e \in TraceEvents
  BY DEF TraceTypes, TraceEvents
<1>2. /\ leaves' \in Seq(TraceEvents) /\ Len(leaves') = Len(leaves) + 1
      /\ \A i \in 1 .. Len(leaves) : leaves'[i] = leaves[i]
      /\ leaves'[Len(leaves) + 1] = e
      /\ DOMAIN leaves = 1 .. Len(leaves) /\ DOMAIN leaves' = 1 .. Len(leaves) + 1
      /\ Len(leaves) \in Nat
  BY <1>1
<1>3. InTree' = InTree \cup {e}
  BY <1>2 DEF InTree
<1>4. JsonLeaves' = JsonLeaves \cup (IF e \in JsonEvents THEN {Len(leaves) + 1} ELSE {})
  BY <1>2 DEF JsonLeaves
<1>5. QED
  BY <1>2, <1>3, <1>4

(* What the tree gains by a batch: each event of it, and no JSON leaf.     *)
LEMMA BatchIsAppended ==
  ASSUME TraceTypes, NEW events \in Seq(BatchEvents), leaves' = leaves \o events
  PROVE  /\ leaves' \in Seq(TraceEvents)
         /\ Len(leaves') = Len(leaves) + Len(events)
         /\ \A i \in 1 .. Len(leaves) : leaves'[i] = leaves[i]
         /\ \A i \in 1 .. Len(events) : leaves'[Len(leaves) + i] = events[i]
         /\ InTree' = InTree \cup {events[i] : i \in DOMAIN events}
         /\ JsonLeaves' = JsonLeaves
<1>1. leaves \in Seq(TraceEvents) /\ events \in Seq(TraceEvents)
  BY DEF TraceTypes, TraceEvents
<1>2. /\ leaves' \in Seq(TraceEvents) /\ Len(leaves') = Len(leaves) + Len(events)
      /\ \A i \in 1 .. Len(leaves) : leaves'[i] = leaves[i]
      /\ \A i \in 1 .. Len(events) : leaves'[Len(leaves) + i] = events[i]
      /\ DOMAIN leaves = 1 .. Len(leaves) /\ DOMAIN leaves' = 1 .. Len(leaves) + Len(events)
      /\ DOMAIN events = 1 .. Len(events)
      /\ Len(leaves) \in Nat /\ Len(events) \in Nat
  BY <1>1
<1>3. \A i \in DOMAIN leaves' : \/ i \in 1 .. Len(leaves) /\ leaves'[i] = leaves[i]
                                \/ \E j \in 1 .. Len(events) : i = Len(leaves) + j /\ leaves'[i] = events[j]
  <2> SUFFICES ASSUME NEW i \in 1 .. Len(leaves) + Len(events), i \notin 1 .. Len(leaves)
               PROVE  \E j \in 1 .. Len(events) : i = Len(leaves) + j /\ leaves'[i] = events[j]
    BY <1>2
  <2>1. i - Len(leaves) \in 1 .. Len(events) /\ i = Len(leaves) + (i - Len(leaves))
    BY <1>2
  <2>2. QED
    BY <1>2, <2>1
<1>4. InTree' = InTree \cup {events[i] : i \in DOMAIN events}
  <2>1. \A i \in 1 .. Len(leaves) : i \in DOMAIN leaves'
    BY <1>2
  <2>2. \A i \in 1 .. Len(events) : Len(leaves) + i \in DOMAIN leaves'
    BY <1>2
  <2>3. InTree' \subseteq InTree \cup {events[i] : i \in DOMAIN events}
    BY <1>2, <1>3 DEF InTree
  <2>a. InTree \subseteq InTree'
    BY <1>2, <2>1 DEF InTree
  <2>b. {events[i] : i \in DOMAIN events} \subseteq InTree'
    BY <1>2, <2>2 DEF InTree
  <2>4. InTree \subseteq InTree' /\ {events[i] : i \in DOMAIN events} \subseteq InTree'
    BY <2>a, <2>b
  <2>5. QED
    BY <2>3, <2>4
<1>5. JsonLeaves' = JsonLeaves
  <2>1. \A i \in 1 .. Len(events) : events[i] \notin JsonEvents
    BY TraceAssumption DEF TraceAssumption
  <2>2. \A i \in 1 .. Len(leaves) : i \in DOMAIN leaves'
    BY <1>2
  <2>3. QED
    BY <1>2, <1>3, <2>1, <2>2 DEF JsonLeaves
<1>6. QED
  BY <1>2, <1>4, <1>5

(* A tree that has grown keeps what it was said to hold.                   *)
LEMMA GrownTreeCovers ==
  ASSUME TraceInv, Len(leaves') \in Nat, Len(leaves') >= Len(leaves),
         \A i \in 1 .. Len(leaves) : leaves'[i] = leaves[i],
         InTree \subseteq InTree', UNCHANGED commits
  PROVE  /\ RootsCover'
         /\ messages' = messages => \A i \in DOMAIN messages' : messages'[i] \in InTree'
<1>1. Len(leaves) \in Nat
  BY DEF TraceInv, TraceTypes
<1>2. ASSUME NEW c \in Commitments, commits[c] # NotCommitted
      PROVE  /\ commits'[c].root \in 0 .. Len(leaves')
             /\ commits'[c].acknowledged \subseteq {leaves'[i] : i \in 1 .. commits'[c].root}
  <2>1. /\ commits[c].root \in 0 .. Len(leaves)
        /\ commits[c].acknowledged \subseteq {leaves[i] : i \in 1 .. commits[c].root}
        /\ commits' = commits
    BY <1>2 DEF TraceInv, RootsCover
  <2>2. \A i \in 1 .. commits[c].root : leaves'[i] = leaves[i]
    BY <1>1, <2>1
  <2>3. QED
    BY <1>1, <2>1, <2>2
<1>3. QED
  BY <1>2 DEF RootsCover, TraceInv, AppendedIsInTree

LEMMA AppendLeafKeeps ==
  ASSUME TraceInv, NEW e \in SingleEvents, AppendLeaf(e)
  PROVE  TraceInv'
<1> USE DEF TraceInv
<1>1. CASE Appending(1) = "panic"
  BY <1>1 DEF AppendLeaf, Panic, TraceTypes, AppendedIsInTree, RootsCover, LeavesCover, BatchedOnce,
              InTree, JsonLeaves, Unpublished
<1>2. CASE Appending(1) = "appended"
  <2>1. /\ leaves' = Append(leaves, e) /\ eventCalls' = [eventCalls EXCEPT ![e] = "appended"]
        /\ UNCHANGED <<messages, handled, commits, batched>>
        /\ eventCalls[e] # "appended"
    BY <1>2 DEF AppendLeaf
  <2>2. /\ leaves' \in Seq(TraceEvents) /\ Len(leaves') = Len(leaves) + 1
        /\ \A i \in 1 .. Len(leaves) : leaves'[i] = leaves[i]
        /\ leaves'[Len(leaves) + 1] = e
        /\ InTree' = InTree \cup {e}
        /\ JsonLeaves' = JsonLeaves \cup (IF e \in JsonEvents THEN {Len(leaves) + 1} ELSE {})
    BY <2>1, LeafIsAppended
  <2>3. Len(leaves) \in Nat /\ DOMAIN leaves = 1 .. Len(leaves) /\ DOMAIN leaves' = 1 .. Len(leaves) + 1
    BY <2>2 DEF TraceTypes
  <2>4. TraceTypes'
    BY <2>1, <2>2 DEF TraceTypes
  <2>5. AppendedIsInTree'
    BY <2>1, <2>2 DEF AppendedIsInTree, TraceTypes
  <2>6. RootsCover'
    BY <2>1, <2>2, <2>3, GrownTreeCovers
  <2>7. LeavesCover'
    <3>1. CASE e \in JsonEvents
      <4>1. Unpublished' = Unpublished \cup {e} /\ e \notin Unpublished
        BY <2>1, <3>1 DEF Unpublished, TraceTypes, SingleEvents
      <4>2. Len(leaves) + 1 \notin JsonLeaves
        BY <2>3 DEF JsonLeaves
      <4>3. Cardinality(JsonLeaves') = Cardinality(JsonLeaves) + 1
        BY <2>2, <3>1, <4>2, CountsAreNats, FS_AddElement
      <4>4. Cardinality(Unpublished') = Cardinality(Unpublished) + 1
        BY <4>1, CountsAreNats, FS_AddElement
      <4>5. Len(messages) \in Nat /\ handled \in Nat
        BY DEF TraceTypes
      <4>6. QED
        BY <2>1, <4>3, <4>4, <4>5, CountsAreNats DEF LeavesCover
    <3>2. CASE e \notin JsonEvents
      <4>1. Unpublished' = Unpublished /\ JsonLeaves' = JsonLeaves
        BY <2>1, <2>2, <3>2 DEF Unpublished, TraceTypes
      <4>2. QED
        BY <2>1, <4>1 DEF LeavesCover
    <3>3. QED
      BY <3>1, <3>2
  <2>8. BatchedOnce'
    <3>1. e \notin BatchEvents
      BY TraceAssumption DEF TraceAssumption, SingleEvents
    <3>2. \A i \in DOMAIN leaves' : leaves'[i] \in BatchEvents => i \in DOMAIN leaves /\ leaves'[i] = leaves[i]
      BY <2>2, <2>3, <3>1
    <3>3. \A i \in DOMAIN batched : batched[i] \in BatchEvents
      BY DEF TraceTypes
    <3>4. QED
      BY <2>1, <2>2, <3>1, <3>2, <3>3 DEF BatchedOnce
  <2>9. QED
    BY <2>4, <2>5, <2>6, <2>7, <2>8
<1>3. CASE Appending(1) = "refused"
  <2>1. /\ eventCalls' = [eventCalls EXCEPT ![e] = "error"]
        /\ UNCHANGED <<leaves, messages, handled, commits, batched>>
        /\ eventCalls[e] # "appended"
    BY <1>3 DEF AppendLeaf
  <2>2. Unpublished' = Unpublished
    BY <2>1 DEF Unpublished, TraceTypes
  <2>3. InTree' = InTree /\ JsonLeaves' = JsonLeaves
    BY <2>1 DEF InTree, JsonLeaves
  <2>4. QED
    BY <2>1, <2>2, <2>3 DEF TraceTypes, AppendedIsInTree, RootsCover, LeavesCover, BatchedOnce
<1>4. QED
  BY <1>1, <1>2, <1>3 DEF Appending

LEMMA PublishEventKeeps ==
  ASSUME TraceInv, NEW e \in SingleEvents, PublishEvent(e)
  PROVE  TraceInv'
<1> USE DEF TraceInv
<1>1. /\ eventCalls[e] = "appended" /\ e \in InTree
      /\ UNCHANGED <<leaves, handled, commits, batched>>
      /\ InTree' = InTree /\ JsonLeaves' = JsonLeaves
  BY DEF PublishEvent, AppendedIsInTree, InTree, JsonLeaves
<1>2. RootsCover' /\ BatchedOnce'
  BY <1>1 DEF RootsCover, BatchedOnce
<1>3. Len(messages) \in Nat /\ handled \in Nat
  BY DEF TraceTypes
<1>4. CASE Publishes(e)
  <2>1. messages' = Append(messages, e) /\ eventCalls' = [eventCalls EXCEPT ![e] = "ok"] /\ e \in JsonEvents
    BY <1>4 DEF PublishEvent, Publishes
  <2>2. Unpublished' = Unpublished \ {e} /\ e \in Unpublished
    BY <1>1, <2>1 DEF Unpublished, TraceTypes
  <2>3. Cardinality(Unpublished') = Cardinality(Unpublished) - 1
    BY <2>2, CountsAreNats, FS_RemoveElement
  <2>4. /\ messages' \in Seq(JsonEvents) /\ Len(messages') = Len(messages) + 1
        /\ \A i \in DOMAIN messages' : messages'[i] = e \/ (i \in DOMAIN messages /\ messages'[i] = messages[i])
    BY <2>1 DEF TraceTypes
  <2>5. LeavesCover'
    BY <1>1, <1>3, <2>3, <2>4, CountsAreNats DEF LeavesCover
  <2>6. TraceTypes' /\ AppendedIsInTree'
    BY <1>1, <2>1, <2>4 DEF TraceTypes, AppendedIsInTree
  <2>7. QED
    BY <1>2, <2>5, <2>6
<1>5. CASE ~Publishes(e)
  <2>1. eventCalls' = [eventCalls EXCEPT ![e] = "error"] /\ UNCHANGED messages
    BY <1>5 DEF PublishEvent
  <2>2. Unpublished' = Unpublished \ {e}
    BY <2>1 DEF Unpublished, TraceTypes
  <2>3. Cardinality(Unpublished') <= Cardinality(Unpublished) /\ Cardinality(Unpublished') \in Nat
    <3>1. IsFiniteSet(Unpublished') /\ Cardinality(Unpublished') <= Cardinality(Unpublished)
      BY <2>2, CountsAreNats, FS_Subset
    <3>2. QED
      BY <3>1, FS_CardinalityType
  <2>4. LeavesCover'
    BY <1>1, <1>3, <2>1, <2>3, CountsAreNats DEF LeavesCover
  <2>5. TraceTypes' /\ AppendedIsInTree'
    BY <1>1, <2>1 DEF TraceTypes, AppendedIsInTree
  <2>6. QED
    BY <1>2, <2>4, <2>5
<1>6. QED
  BY <1>4, <1>5

LEMMA FlushBatchKeeps ==
  ASSUME TraceInv, NEW events \in Seq(BatchEvents), FlushBatch(events),
         \A i, j \in DOMAIN events : events[i] = events[j] => i = j,
         \A i \in DOMAIN events : events[i] \notin InTree
  PROVE  TraceInv'
<1> USE DEF TraceInv
<1>1. CASE Appending(Len(events)) = "panic"
  BY <1>1 DEF FlushBatch, Panic, TraceTypes, AppendedIsInTree, RootsCover, LeavesCover, BatchedOnce,
              InTree, JsonLeaves, Unpublished
<1>2. CASE Appending(Len(events)) = "appended"
  <2>1. /\ leaves' = leaves \o events /\ batched' = << >>
        /\ UNCHANGED <<eventCalls, messages, handled, commits>>
    BY <1>2 DEF FlushBatch, Flushed
  <2>2. /\ leaves' \in Seq(TraceEvents) /\ Len(leaves') = Len(leaves) + Len(events)
        /\ \A i \in 1 .. Len(leaves) : leaves'[i] = leaves[i]
        /\ \A i \in 1 .. Len(events) : leaves'[Len(leaves) + i] = events[i]
        /\ InTree' = InTree \cup {events[i] : i \in DOMAIN events}
        /\ JsonLeaves' = JsonLeaves
    BY <2>1, BatchIsAppended
  <2>3. /\ Len(leaves) \in Nat /\ Len(events) \in Nat
        /\ DOMAIN leaves = 1 .. Len(leaves) /\ DOMAIN events = 1 .. Len(events)
        /\ DOMAIN leaves' = 1 .. Len(leaves) + Len(events)
    BY <2>2 DEF TraceTypes
  <2>4. TraceTypes' /\ AppendedIsInTree'
    BY <2>1, <2>2 DEF TraceTypes, AppendedIsInTree
  <2>5. RootsCover'
    BY <2>1, <2>2, <2>3, GrownTreeCovers
  <2>6. LeavesCover'
    BY <2>1, <2>2 DEF LeavesCover, Unpublished
  <2>7. ASSUME NEW i \in DOMAIN leaves', NEW j \in DOMAIN leaves', leaves'[i] = leaves'[j], leaves'[i] \in BatchEvents
        PROVE  i = j
    <3> DEFINE n == Len(leaves)
    <3>1. \A k \in DOMAIN leaves' : k \in 1 .. n \/ (k - n \in 1 .. Len(events) /\ k = n + (k - n))
      BY <2>3
    <3>2. \A k \in 1 .. n : leaves'[k] \in InTree
      BY <2>2, <2>3 DEF InTree
    <3>3. \A k \in 1 .. Len(events) : leaves'[n + k] = events[k] /\ events[k] \notin InTree
      BY <2>2, <2>3
    <3>4. CASE i \in 1 .. n /\ j \in 1 .. n
      BY <2>2, <2>3, <2>7, <3>4 DEF BatchedOnce
    <3>5. CASE i \notin 1 .. n /\ j \notin 1 .. n
      <4>1. events[i - n] = events[j - n] /\ i - n \in DOMAIN events /\ j - n \in DOMAIN events
        BY <2>3, <2>7, <3>1, <3>3, <3>5
      <4>2. i - n = j - n
        BY <4>1
      <4>3. QED
        BY <2>3, <4>2
    <3>6. QED
      BY <2>7, <3>1, <3>2, <3>3, <3>4, <3>5
  <2>8. BatchedOnce'
    BY <2>1, <2>7 DEF BatchedOnce
  <2>9. QED
    BY <2>4, <2>5, <2>6, <2>8
<1>3. CASE Appending(Len(events)) = "refused"
  <2>1. batched' = events /\ UNCHANGED <<leaves, eventCalls, messages, handled, commits>>
    BY <1>3 DEF FlushBatch, Flushed
  <2>2. InTree' = InTree /\ JsonLeaves' = JsonLeaves /\ Unpublished' = Unpublished
    BY <2>1 DEF InTree, JsonLeaves, Unpublished
  <2>3. QED
    BY <2>1, <2>2 DEF TraceTypes, AppendedIsInTree, RootsCover, LeavesCover, BatchedOnce
<1>4. QED
  BY <1>1, <1>2, <1>3 DEF Appending

LEMMA AddToBatchKeeps ==
  ASSUME TraceInv, NEW e \in BatchEvents, AddToBatch(e)
  PROVE  TraceInv'
<1> DEFINE events == Append(batched, e)
<1>1. /\ events \in Seq(BatchEvents)
      /\ DOMAIN events = 1 .. Len(batched) + 1 /\ Len(batched) \in Nat
      /\ DOMAIN batched = 1 .. Len(batched)
      /\ \A i \in 1 .. Len(batched) : events[i] = batched[i]
      /\ events[Len(batched) + 1] = e
  BY DEF TraceInv, TraceTypes
<1>2. e \notin InTree /\ \A i \in DOMAIN batched : batched[i] # e
  BY DEF AddToBatch
<1>3. \A i, j \in DOMAIN events : events[i] = events[j] => i = j
  BY <1>1, <1>2 DEF TraceInv, BatchedOnce
<1>4. \A i \in DOMAIN events : events[i] \notin InTree
  BY <1>1, <1>2 DEF TraceInv, BatchedOnce
<1>5. CASE Len(events) >= EventBatch
  <2>1. FlushBatch(events)
    BY <1>5 DEF AddToBatch
  <2> HIDE DEF events
  <2>2. QED
    BY <1>1, <1>3, <1>4, <2>1, FlushBatchKeeps
<1>6. CASE ~(Len(events) >= EventBatch)
  <2>1. batched' = events /\ UNCHANGED <<leaves, eventCalls, messages, handled, commits>>
    BY <1>6 DEF AddToBatch
  <2>2. InTree' = InTree /\ JsonLeaves' = JsonLeaves /\ Unpublished' = Unpublished
    BY <2>1 DEF InTree, JsonLeaves, Unpublished
  <2> HIDE DEF events
  <2>3. QED
    BY <1>1, <1>3, <1>4, <2>1, <2>2
       DEF TraceInv, TraceTypes, AppendedIsInTree, RootsCover, LeavesCover, BatchedOnce
<1>7. QED
  BY <1>5, <1>6

LEMMA CommitKeeps ==
  ASSUME TraceInv, NEW c \in Commitments,
         BeginCommit(c) \/ \E a \in {"success", "failure", "gone"} : EndCommit(c, a)
  PROVE  TraceInv'
<1> USE DEF TraceInv
<1>1. UNCHANGED <<leaves, eventCalls, messages, handled, batched>>
  BY DEF BeginCommit, EndCommit
<1>2. InTree' = InTree /\ JsonLeaves' = JsonLeaves /\ Unpublished' = Unpublished
  BY <1>1 DEF InTree, JsonLeaves, Unpublished
<1>3. AppendedIsInTree' /\ LeavesCover' /\ BatchedOnce'
  BY <1>1, <1>2 DEF AppendedIsInTree, LeavesCover, BatchedOnce
<1>4. CASE BeginCommit(c)
  <2>1. PICK s \in {"waiting", "error"} :
          commits' = [commits EXCEPT ![c] = [state |-> s, root |-> Len(leaves), acknowledged |-> Acknowledged]]
    BY <1>4 DEF BeginCommit, RootNow
  <2>2. Len(leaves) \in 0 .. Len(leaves) /\ Acknowledged \subseteq {leaves[i] : i \in 1 .. Len(leaves)}
    BY DEF Acknowledged, AppendedIsInTree, InTree, TraceTypes
  <2>3. QED
    BY <1>1, <1>3, <2>1, <2>2 DEF TraceTypes, RootsCover
<1>5. ASSUME NEW a, EndCommit(c, a) PROVE TraceInv'
  <2>1. commits' = [commits EXCEPT ![c].state = a] /\ commits[c] # NotCommitted
    BY <1>5 DEF EndCommit, NotCommitted
  <2>2. commits'[c].root = commits[c].root /\ commits'[c].acknowledged = commits[c].acknowledged
    BY <2>1 DEF TraceTypes
  <2>3. QED
    BY <1>1, <1>3, <2>1, <2>2 DEF TraceTypes, RootsCover
<1>6. QED
  BY <1>4, <1>5

LEMMA DequeueKeeps ==
  ASSUME TraceInv, handleEventStore \/ StopWorkers
  PROVE  TraceInv'
<1> USE DEF TraceInv
<1>1. UNCHANGED <<leaves, eventCalls, commits, batched>>
  BY DEF handleEventStore, StopWorkers
<1>2. InTree' = InTree /\ JsonLeaves' = JsonLeaves /\ Unpublished' = Unpublished
  BY <1>1 DEF InTree, JsonLeaves, Unpublished
<1>3. /\ messages' \in Seq(JsonEvents) /\ handled' \in Nat
      /\ Len(messages') + handled' <= Len(messages) + handled
      /\ \A i \in DOMAIN messages' : \E j \in DOMAIN messages : messages'[i] = messages[j]
  <2>1. CASE handleEventStore
    BY <2>1 DEF handleEventStore, TraceTypes
  <2>2. CASE StopWorkers
    BY <2>2 DEF StopWorkers, TraceTypes
  <2>3. QED
    BY <2>1, <2>2
<1>4. LeavesCover'
  <2>1. Len(messages) \in Nat /\ handled \in Nat /\ Len(messages') \in Nat
    BY <1>3 DEF TraceTypes
  <2>2. QED
    BY <1>2, <1>3, <2>1, CountsAreNats DEF LeavesCover
<1>5. TraceTypes'
  BY <1>1, <1>3 DEF TraceTypes
<1>6. AppendedIsInTree'
  BY <1>1, <1>2, <1>3 DEF AppendedIsInTree
<1>7. RootsCover' /\ BatchedOnce'
  BY <1>1, <1>2 DEF RootsCover, BatchedOnce
<1>8. QED
  BY <1>4, <1>5, <1>6, <1>7

LEMMA AtMostOneCounts ==
  ASSUME NEW A, \A i, j \in A : i = j
  PROVE  (A = {} => Cardinality(A) = 0) /\ Cardinality(A) \in {0, 1}
<1>1. CASE A = {}
  BY <1>1, FS_EmptySet
<1>2. CASE A # {}
  <2>1. PICK i : i \in A
    BY <1>2
  <2>2. A = {i}
    BY <2>1
  <2>3. QED
    BY <1>2, <2>2, FS_Singleton
<1>3. QED
  BY <1>1, <1>2

(* The stronger invariant says it with indices; here it is counted.        *)
LEMMA TraceInvCovers == TraceInv => CommittedRootCovers
<1> SUFFICES ASSUME TraceInv PROVE CommittedRootCovers
  OBVIOUS
<1> USE DEF TraceInv
<1>1. \A c \in Commitments : commits[c].state = "success" =>
        commits[c].acknowledged \subseteq {leaves[i] : i \in 1..commits[c].root}
  BY DEF RootsCover, NotCommitted
<1>2. \A i \in DOMAIN messages : messages[i] \in InTree
  BY DEF AppendedIsInTree
<1>3. Cardinality({i \in DOMAIN leaves : leaves[i] \in JsonEvents}) >= Len(messages) + handled
  <2>1. Len(messages) \in Nat /\ handled \in Nat
    BY DEF TraceTypes
  <2>2. Cardinality(JsonLeaves) >= Len(messages) + handled
    BY <2>1, CountsAreNats DEF LeavesCover
  <2>3. QED
    BY <2>2 DEF JsonLeaves
<1>4. ASSUME NEW e \in BatchEvents
      PROVE  Cardinality({i \in DOMAIN leaves : leaves[i] = e}) +
               Cardinality({i \in DOMAIN batched : batched[i] = e}) <= 1
  <2> DEFINE A == {i \in DOMAIN leaves : leaves[i] = e}
  <2> DEFINE B == {i \in DOMAIN batched : batched[i] = e}
  <2>1. \A i, j \in A : i = j
    BY DEF BatchedOnce
  <2>2. \A i, j \in B : i = j
    BY DEF BatchedOnce
  <2>3. A = {} \/ B = {}
    BY DEF BatchedOnce, InTree
  <2> HIDE DEF A, B
  <2>4. (A = {} => Cardinality(A) = 0) /\ Cardinality(A) \in {0, 1}
    BY <2>1, AtMostOneCounts
  <2>5. (B = {} => Cardinality(B) = 0) /\ Cardinality(B) \in {0, 1}
    BY <2>2, AtMostOneCounts
  <2>6. Cardinality(A) + Cardinality(B) <= 1
    BY <2>3, <2>4, <2>5
  <2>7. QED
    BY <2>6 DEF A, B
<1>5. QED
  BY <1>1, <1>2, <1>3, <1>4 DEF CommittedRootCovers

(* For any events, capacity, batch size and certificates, in any order of  *)
(* the callers and around a stop or a crash (example.go:112, 133).         *)
THEOREM TraceRootCovers == TraceSpec => []CommittedRootCovers
<1>1. TraceInit => TraceInv
  <2> SUFFICES ASSUME TraceInit PROVE TraceInv
    OBVIOUS
  <2>1. JsonLeaves = {} /\ Unpublished = {}
    BY DEF TraceInit, JsonLeaves, Unpublished, SingleEvents
  <2>2. LeavesCover
    BY <2>1, FS_EmptySet DEF TraceInit, LeavesCover
  <2>3. QED
    BY <2>2 DEF TraceInit, TraceInv, TraceTypes, AppendedIsInTree, RootsCover, BatchedOnce
<1>2. TraceInv /\ [TraceNext]_traceVars => TraceInv'
  <2> SUFFICES ASSUME TraceInv, [TraceNext]_traceVars PROVE TraceInv'
    OBVIOUS
  <2>1. CASE Flush
    <3>1. FlushBatch(batched)
      BY <2>1 DEF Flush
    <3>2. QED
      BY <3>1, FlushBatchKeeps DEF TraceInv, TraceTypes, BatchedOnce
  <2>2. CASE UNCHANGED traceVars
    BY <2>2 DEF traceVars, TraceInv, TraceTypes, AppendedIsInTree, RootsCover, LeavesCover, BatchedOnce,
                InTree, JsonLeaves, Unpublished
  <2>3. CASE StopAnchorer
    BY <2>3 DEF StopAnchorer, TraceInv, TraceTypes, AppendedIsInTree, RootsCover, LeavesCover, BatchedOnce,
                InTree, JsonLeaves, Unpublished
  <2>4. QED
    BY <2>1, <2>2, <2>3, AppendLeafKeeps, PublishEventKeeps, CommitKeeps, AddToBatchKeeps, DequeueKeeps
       DEF TraceNext
<1>3. QED
  BY <1>1, <1>2, TraceInvCovers, PTL DEF TraceSpec

----------------------------------------------------------------------------
(***************************************************************************)
(* ZKProofs, for any goroutines, requests, key pairs and restarts, and     *)
(* whatever the circuits are.                                              *)
(*                                                                         *)
(* The prover makes the keys of a type once and keeps them as long as the  *)
(* process lives; the invariant follows the copies. The verifier has the   *)
(* prover's key or none, a request that has passed Setup finds a key, and  *)
(* a cached proof was made with the key that the prover still has.         *)
(***************************************************************************)

HasKey(t) == t \in TypeNames /\ proverKeys[t] # 0

KeyCopies == \A t \in TypeNames : verifierKeys[t] \in {0, proverKeys[t]}

CachedProofs ==
  \A h \in ProofHashes :
    proofCache[h] = NoProof \/ (HasKey(proofCache[h].type) /\ proofCache[h].key = proverKeys[proofCache[h].type])

PendingRequests == \A p \in Provers : proving[p] = NoRequest \/ HasKey(proving[p].type)

KeyTypes ==
  /\ proverKeys \in [TypeNames -> Nat] /\ verifierKeys \in [TypeNames -> Nat]
  /\ DOMAIN proofCache = ProofHashes /\ DOMAIN proving = Provers
  /\ keysMade \in Nat
  /\ initStep[1] \in Nat \ {0}

ZKInv == KeyTypes /\ KeyCopies /\ CachedProofs /\ PendingRequests

----------------------------------------------------------------------------
LEMMA Types ==
  /\ TypeNames = {"hash_preimage", "content_ownership", "fingerprint_verify", "merkle_proof"}
  /\ DOMAIN ProofTypes = 1 .. 4 /\ Len(ProofTypes) = 4
  /\ \A i \in 1 .. 4 : ProofTypes[i] \in TypeNames
BY DEF TypeNames, ProofTypes

LEMMA SetupFacts ==
  ASSUME KeyTypes, NEW t \in TypeNames, Setup(t)
  PROVE  /\ proverKeys' \in [TypeNames -> Nat] /\ keysMade' \in Nat
         /\ proverKeys'[t] # 0
         /\ \A u \in TypeNames : proverKeys[u] # 0 => proverKeys'[u] = proverKeys[u]
BY DEF KeyTypes, Setup, NeedsKeys

(* Keys that are there stay: all that relates to them does.                *)
LEMMA KeysStay ==
  ASSUME ZKInv, \A u \in TypeNames : proverKeys[u] # 0 => proverKeys'[u] = proverKeys[u],
         verifierKeys' = verifierKeys, proofCache' = proofCache
  PROVE  /\ KeyCopies' /\ CachedProofs'
         /\ \A t : HasKey(t) => HasKey(t)'
BY DEF ZKInv, KeyTypes, KeyCopies, CachedProofs, HasKey

LEMMA ZKInvInit == ZKInit => ZKInv
BY Types DEF ZKInit, ZKInv, KeyTypes, KeyCopies, CachedProofs, PendingRequests

LEMMA ZKInvNext == ZKInv /\ [ZKNext]_zkVars => ZKInv'
<1> SUFFICES ASSUME ZKInv, [ZKNext]_zkVars PROVE ZKInv'
  OBVIOUS
<1> USE DEF ZKInv
<1>1. CASE InitializeSetup
  <2>1. ProofTypes[initStep[1]] \in TypeNames /\ Setup(ProofTypes[initStep[1]])
    BY <1>1, Types DEF InitializeSetup, Initializing, KeyTypes
  <2>2. KeyTypes'
    BY <1>1, <2>1, SetupFacts DEF InitializeSetup, KeyTypes
  <2>3. KeyCopies' /\ CachedProofs' /\ \A t : HasKey(t) => HasKey(t)'
    BY <1>1, <2>1, SetupFacts, KeysStay DEF InitializeSetup
  <2>4. PendingRequests'
    BY <1>1, <2>3 DEF InitializeSetup, PendingRequests
  <2>5. QED
    BY <2>2, <2>3, <2>4
<1>2. CASE InitializeFails
  BY <1>2 DEF InitializeFails, NextType, KeyTypes, KeyCopies, CachedProofs, PendingRequests, HasKey
<1>3. CASE InitializeSync
  <2>1. ProofTypes[initStep[1]] \in TypeNames
    BY <1>3, Types DEF InitializeSync, Initializing, KeyTypes
  <2>2. KeyTypes'
    BY <1>3, <2>1 DEF InitializeSync, NextType, KeyTypes
  <2>3. KeyCopies'
    BY <1>3, <2>1 DEF InitializeSync, KeyTypes, KeyCopies
  <2>4. CachedProofs' /\ PendingRequests'
    BY <1>3 DEF InitializeSync, CachedProofs, PendingRequests, HasKey
  <2>5. QED
    BY <2>2, <2>3, <2>4
<1>4. ASSUME NEW p \in Provers, NEW req \in ZKRequests, BeginProof(p, req) PROVE ZKInv'
  <2>1. req.type \in TypeNames /\ Setup(req.type)
    BY <1>4, Types, ZKAssumption DEF BeginProof
  <2>2. KeyTypes'
    BY <1>4, <2>1, SetupFacts DEF BeginProof, KeyTypes
  <2>3. KeyCopies' /\ CachedProofs' /\ \A t : HasKey(t) => HasKey(t)'
    BY <1>4, <2>1, SetupFacts, KeysStay DEF BeginProof
  <2>4. HasKey(req.type)'
    BY <2>1, SetupFacts DEF HasKey
  <2>5. proving'[p] = req /\ \A q \in Provers : q # p => proving'[q] = proving[q]
    BY <1>4 DEF BeginProof, KeyTypes
  <2>6. PendingRequests'
    <3>1. ASSUME NEW q \in Provers PROVE (proving[q] = NoRequest \/ HasKey(proving[q].type))'
      BY <2>3, <2>4, <2>5 DEF PendingRequests, HasKey
    <3>2. QED
      BY <3>1 DEF PendingRequests
  <2>7. QED
    BY <2>2, <2>3, <2>6
<1>5. ASSUME NEW p \in Provers, NEW h \in ProofHashes, EndProof(p, h) PROVE ZKInv'
  <2> DEFINE t == proving[p].type
  <2>1. HasKey(t) /\ proverKeys' = proverKeys /\ verifierKeys' = verifierKeys
    BY <1>5 DEF EndProof, PendingRequests
  <2>2. /\ proofCache'[h] = [type |-> t, key |-> proverKeys[t]]
        /\ \A g \in ProofHashes : g # h => proofCache'[g] = proofCache[g]
    BY <1>5 DEF EndProof, KeyTypes
  <2>3. proving'[p] = NoRequest /\ \A q \in Provers : q # p => proving'[q] = proving[q]
    BY <1>5 DEF EndProof, Drop, KeyTypes
  <2>4. KeyTypes' /\ KeyCopies'
    BY <1>5 DEF EndProof, Drop, KeyTypes, KeyCopies
  <2>5. CachedProofs'
    <3>1. proofCache'[h].type = t /\ proofCache'[h].key = proverKeys[t]
      BY <2>2
    <3>2. QED
      BY <2>1, <2>2, <3>1 DEF CachedProofs, HasKey
  <2>6. PendingRequests'
    BY <2>1, <2>3 DEF PendingRequests, HasKey
  <2>7. QED
    BY <2>4, <2>5, <2>6
<1>6. ASSUME NEW p \in Provers, RefuseProof(p) PROVE ZKInv'
  <2>1. proving'[p] = NoRequest /\ \A q \in Provers : q # p => proving'[q] = proving[q]
    BY <1>6 DEF RefuseProof, Drop, KeyTypes
  <2>2. PendingRequests'
    BY <1>6, <2>1 DEF RefuseProof, PendingRequests, HasKey
  <2>3. QED
    BY <1>6, <2>2 DEF RefuseProof, Drop, KeyTypes, KeyCopies, CachedProofs, HasKey
<1>7. CASE RestartService
  BY <1>7 DEF RestartService, KeyTypes, KeyCopies, CachedProofs, PendingRequests
<1>8. CASE UNCHANGED zkVars
  BY <1>8 DEF zkVars, KeyTypes, KeyCopies, CachedProofs, PendingRequests, HasKey
<1>9. QED
  BY <1>1, <1>2, <1>3, <1>4, <1>5, <1>6, <1>7, <1>8 DEF ZKNext

(* The keys and their copies agree in every reachable state of the service.*)
THEOREM KeysAgree == ZKSpec => []ZKInv
BY ZKInvInit, ZKInvNext, PTL DEF ZKSpec

(* A proof that the service keeps is never refuted, singly or in a batch,  *)
(* and it exports the keys it verifies with, whichever goroutine made the  *)
(* keys and wherever Initialize is (prover.go:63, service.go:48).          *)
THEOREM KeptProofsStayValid == ZKSpec => []KeptProofsHold
<1>1. ZKInv => KeptProofsHold
  <2> SUFFICES ASSUME ZKInv PROVE KeptProofsHold
    OBVIOUS
  <2> USE DEF ZKInv
  <2>1. ASSUME NEW h \in ProofHashes, proofCache[h] # NoProof
        PROVE  VerifyProof(proofCache[h]) \in {"error", "valid"}
    BY <2>1 DEF VerifyProof, CachedProofs, KeyCopies, HasKey
  <2>2. \A h \in ProofHashes : VerifyProofByHash(h) # "invalid"
    BY <2>1 DEF VerifyProofByHash
  <2> DEFINE kept == {proofCache[h] : h \in ProofHashes} \ {NoProof}
             batch == BatchVerify(kept)
  <2>3. ~batch.err => \A proof \in DOMAIN batch.results : batch.results[proof]
    <3>1. /\ batch.err = \E proof \in kept : VerifyProof(proof) = "error"
          /\ batch.results = [proof \in kept |-> VerifyProof(proof) = "valid"]
      BY DEF BatchVerify
    <3>2. \A proof \in kept : VerifyProof(proof) \in {"error", "valid"}
      BY <2>1
    <3>3. QED
      BY <3>1, <3>2
  <2>4. \A t \in DOMAIN ExportVerifyingKeys : ExportVerifyingKeys[t] = verifierKeys[t]
    BY DEF ExportVerifyingKeys, KeyCopies
  <2>5. QED
    BY <2>2, <2>3, <2>4 DEF KeptProofsHold
<1>2. QED
  BY <1>1, KeysAgree, PTL

----------------------------------------------------------------------------
(***************************************************************************)
(* ContentVault, for any tenants, requests and key replacements.           *)
(*                                                                         *)
(* The inductive invariant follows a key from the moment a request is      *)
(* given it: it is the tenant's key as long as drops has not moved since   *)
(* (KeyInv). Around it stand what each place of a request implies (Place)  *)
(* and what a decryption knows of the request whose object it opens, which *)
(* is over and changes no more (Reference).                                *)
(***************************************************************************)

USE VaultAssumption DEF VaultAssumption, NoKey

KeyInv ==
  /\ \A t \in Tenants : keys[t] # NoKey => t \notin ShortNamed
  /\ \A r \in Requests : dek[r] # NoKey =>
       /\ owner[r] \in Tenants \ ShortNamed
       /\ since[r] <= drops[owner[r]]
       /\ dek[r] = keys[owner[r]] <=> since[r] = drops[owner[r]]

Place(r) ==
  /\ pc[r] = "idle" => dek[r] = NoKey /\ answer[r] = "none"
  /\ pc[r] \in UnderWay => owner[r] \in Tenants
  /\ pc[r] = "put" => op[r] = "store" /\ dek[r] # NoKey
  /\ answer[r] = "stored" => pc[r] = "done" /\ dek[r] # NoKey
  /\ Stored(r) => objects[r] = Sealed(r) /\ pc[r] = "done" /\ dek[r] # NoKey

Reference(r) ==
  op[r] = "decrypt" =>
    /\ ref[r] # Missing => answer[ref[r]] = "stored"
    /\ pc[r] = "fetch" /\ ref[r] # Missing => owner[ref[r]] = owner[r]
    /\ pc[r] \in {"getKey", "createKey", "open"} => ref[r] # Missing /\ owner[ref[r]] = owner[r]
    /\ answer[r] = "success" =>
         /\ ref[r] # Missing
         /\ owner[ref[r]] = owner[r]
         /\ dek[ref[r]] = dek[r]
         /\ pc[r] \in {"log", "respond", "done", "lost"}
    /\ pc[r] \in {"respond", "done"} /\ logged[r] => audit[r] = AuditRow(r)

VaultInv ==
  /\ VaultTypeOK
  /\ KeyInv
  /\ \A r \in Requests : Place(r) /\ Reference(r)

----------------------------------------------------------------------------
(* Type correctness.                                                       *)

LEMMA RowTypes ==
  ASSUME VaultTypeOK, NEW r \in Requests, owner[r] \in Tenants
  PROVE  /\ Sealed(r) \in Object
         /\ AuditRow(r) \in [tenant : Tenants, ref : Requests \cup {Missing}, reason : Outcomes]
BY DEF VaultTypeOK, Sealed, Object, AuditRow

LEMMA VaultTypeNext ==
  ASSUME VaultInv, [VaultNext]_vaultVars
  PROVE  VaultTypeOK'
<1> USE DEF VaultTypeOK, store, request
<1> USE DEF VaultInv
<1>1. ASSUME NEW r \in Requests, GetTenantDEK(r) PROVE VaultTypeOK'
  <2>1. owner[r] \in Tenants
    BY <1>1 DEF GetTenantDEK, Place, UnderWay
  <2>2. QED
    BY <1>1, <2>1 DEF GetTenantDEK, GiveKey, UnderWay
<1>2. ASSUME NEW r \in Requests, CreateTenantDEK(r) PROVE VaultTypeOK'
  <2>1. owner[r] \in Tenants
    BY <1>2 DEF CreateTenantDEK, Place, UnderWay
  <2>2. CASE KeyCameBetween(r)
    BY <1>2, <2>1, <2>2 DEF CreateTenantDEK, GiveKey, UnderWay
  <2>3. CASE ~KeyCameBetween(r) /\ owner[r] \notin ShortNamed
    BY <1>2, <2>1, <2>3 DEF CreateTenantDEK, GiveKey, UnderWay
  <2>4. CASE ~KeyCameBetween(r) /\ owner[r] \in ShortNamed
    BY <1>2, <2>1, <2>4 DEF CreateTenantDEK, EndRequest, UnderWay, Outcomes
  <2>5. QED
    BY <2>2, <2>3, <2>4
<1>3. ASSUME NEW t \in Tenants, RotateKey(t) \/ DeleteKey(t) PROVE VaultTypeOK'
  BY <1>3 DEF RotateKey, DeleteKey
<1>4. ASSUME NEW r \in Requests, NEW t \in Tenants, BeginStore(r, t) PROVE VaultTypeOK'
  BY <1>4 DEF BeginStore, UnderWay
<1>5. ASSUME NEW r \in Requests, PutObject(r) \/ PutObjectFails(r) PROVE VaultTypeOK'
  <2>1. owner[r] \in Tenants
    BY <1>5 DEF PutObject, PutObjectFails, Place, UnderWay
  <2>2. Sealed(r) \in Object
    BY <2>1, RowTypes
  <2>3. QED
    BY <1>5, <2>2 DEF PutObject, PutObjectFails, EndRequest, Outcomes
<1>6. ASSUME NEW r \in Requests, Delete(r) PROVE VaultTypeOK'
  BY <1>6 DEF Delete
<1>7. ASSUME NEW r \in Requests, NEW t \in Tenants, NEW o \in Requests \cup {Missing}, BeginDecrypt(r, t, o)
      PROVE  VaultTypeOK'
  BY <1>7 DEF BeginDecrypt, UnderWay
<1>8. ASSUME NEW r \in Requests, canDecrypt(r) \/ FetchObject(r) PROVE VaultTypeOK'
  BY <1>8 DEF canDecrypt, FetchObject, Conclude, UnderWay, Outcomes
<1>9. ASSUME NEW r \in Requests, OpenObject(r) PROVE VaultTypeOK'
  BY <1>9 DEF OpenObject, OpensAs, Conclude, UnderWay, Outcomes
<1>10. ASSUME NEW r \in Requests, LogDecrypt(r) \/ LogDecryptFails(r) PROVE VaultTypeOK'
  <2>1. owner[r] \in Tenants
    BY <1>10 DEF LogDecrypt, LogDecryptFails, Place, UnderWay
  <2>2. AfterLog(r) \in [Requests -> [tenant : Tenants, ref : Requests \cup {Missing}, reason : Outcomes]
                                       \cup {NoAuditRow}]
    BY <2>1, RowTypes DEF AfterLog
  <2>3. QED
    BY <1>10, <2>2 DEF LogDecrypt, LogDecryptFails, UnderWay
<1>11. ASSUME NEW r \in Requests, Respond(r) PROVE VaultTypeOK'
  BY <1>11 DEF Respond
<1>12. CASE RestartVault
  BY <1>12 DEF RestartVault
<1>13. CASE UNCHANGED vaultVars
  BY <1>13 DEF vaultVars
<1>14. QED
  BY <1>1, <1>2, <1>3, <1>4, <1>5, <1>6, <1>7, <1>8, <1>9, <1>10, <1>11, <1>12, <1>13 DEF VaultNext, VaultStep

----------------------------------------------------------------------------
(* A request's key and the tenant's.                                       *)

(* What the steps that give no key and replace none leave alone.           *)
KeysKept == UNCHANGED <<keys, drops, dek, since>>

LEMMA KeysAfterGrant ==
  ASSUME VaultInv, NEW r \in Requests, GetTenantDEK(r) \/ CreateTenantDEK(r)
  PROVE  KeyInv'
<1> USE DEF VaultInv, VaultTypeOK
<1>1. owner[r] \in Tenants
  BY DEF GetTenantDEK, CreateTenantDEK, Place, UnderWay
<1>2. UNCHANGED <<owner, drops>>
  BY DEF GetTenantDEK, CreateTenantDEK, store, request
<1>3. CASE KeysKept
  BY <1>2, <1>3 DEF KeysKept, KeyInv
<1>4. CASE keys[owner[r]] # NoKey /\ keys' = keys /\ GiveKey(r, keys[owner[r]])
  BY <1>1, <1>2, <1>4 DEF GiveKey, KeyInv
<1>5. CASE /\ keys[owner[r]] = NoKey /\ owner[r] \notin ShortNamed
           /\ keys' = [keys EXCEPT ![owner[r]] = generated + 1]
           /\ GiveKey(r, generated + 1)
  <2>1. /\ dek' = [dek EXCEPT ![r] = generated + 1]
        /\ since' = [since EXCEPT ![r] = drops[owner[r]]]
    BY <1>5 DEF GiveKey
  <2>2. ASSUME NEW q \in Requests, q # r, dek[q] # NoKey
        PROVE  dek'[q] = keys'[owner[q]] <=> since'[q] = drops[owner[q]]
    <3>1. dek'[q] = dek[q] /\ since'[q] = since[q] /\ dek[q] < generated + 1 /\ owner[q] \in Tenants
      BY <2>1, <2>2 DEF KeyInv
    <3>2. CASE owner[q] = owner[r]
      <4>1. since[q] # drops[owner[q]]
        BY <1>5, <2>2, <3>2 DEF KeyInv
      <4>2. keys'[owner[q]] = generated + 1
        BY <1>1, <1>5, <3>2
      <4>3. QED
        BY <3>1, <4>1, <4>2
    <3>3. CASE owner[q] # owner[r]
      <4>1. keys'[owner[q]] = keys[owner[q]]
        BY <1>5, <3>1, <3>3
      <4>2. QED
        BY <2>2, <3>1, <4>1 DEF KeyInv
    <3>4. QED
      BY <3>2, <3>3
  <2>3. \A t \in Tenants : keys'[t] # NoKey => t \notin ShortNamed
    BY <1>1, <1>5 DEF KeyInv
  <2>4. dek'[r] = keys'[owner[r]] /\ since'[r] = drops[owner[r]]
    BY <1>1, <1>5, <2>1
  <2>5. QED
    BY <1>1, <1>2, <1>5, <2>1, <2>2, <2>3, <2>4 DEF KeyInv
<1>6. QED
  BY <1>3, <1>4, <1>5 DEF GetTenantDEK, CreateTenantDEK, KeyCameBetween, KeysKept, store, request

LEMMA KeysAfterDrop ==
  ASSUME VaultInv, NEW t \in Tenants, RotateKey(t) \/ DeleteKey(t)
  PROVE  KeyInv'
<1> USE DEF VaultInv, VaultTypeOK
<1>1. /\ UNCHANGED <<owner, dek, since>>
      /\ drops' = [drops EXCEPT ![t] = @ + 1]
      /\ keys[t] # NoKey
      /\ \/ keys' = [keys EXCEPT ![t] = generated + 1]
         \/ keys' = [keys EXCEPT ![t] = NoKey]
  BY DEF RotateKey, DeleteKey, request
<1>2. ASSUME NEW r \in Requests, dek[r] # NoKey
      PROVE  /\ since[r] <= drops'[owner[r]]
             /\ dek[r] = keys'[owner[r]] <=> since[r] = drops'[owner[r]]
  <2>1. /\ owner[r] \in Tenants /\ since[r] <= drops[owner[r]]
        /\ dek[r] = keys[owner[r]] <=> since[r] = drops[owner[r]]
        /\ dek[r] < generated + 1
    BY <1>2 DEF KeyInv
  <2>2. CASE owner[r] = t
    BY <1>1, <1>2, <2>1, <2>2
  <2>3. CASE owner[r] # t
    BY <1>1, <2>1, <2>3
  <2>4. QED
    BY <2>2, <2>3
<1>3. \A u \in Tenants : keys'[u] # NoKey => u \notin ShortNamed
  BY <1>1 DEF KeyInv
<1>4. QED
  BY <1>1, <1>2, <1>3 DEF KeyInv

LEMMA KeysAfterRestart ==
  ASSUME VaultInv, RestartVault
  PROVE  KeyInv'
<1> USE DEF VaultInv, VaultTypeOK
<1>1. /\ UNCHANGED <<owner, dek, since>>
      /\ \A t \in Tenants : keys'[t] = NoKey
      /\ \A t \in Tenants : drops'[t] = IF keys[t] = NoKey THEN drops[t] ELSE drops[t] + 1
  BY DEF RestartVault, request
<1>2. ASSUME NEW r \in Requests, dek[r] # NoKey
      PROVE  /\ since[r] <= drops'[owner[r]]
             /\ dek[r] = keys'[owner[r]] <=> since[r] = drops'[owner[r]]
  <2>1. /\ owner[r] \in Tenants /\ since[r] <= drops[owner[r]]
        /\ dek[r] = keys[owner[r]] <=> since[r] = drops[owner[r]]
    BY <1>2 DEF KeyInv
  <2>2. QED
    BY <1>1, <1>2, <2>1
<1>3. QED
  BY <1>1, <1>2 DEF KeyInv

LEMMA KeysNext ==
  ASSUME VaultInv, [VaultNext]_vaultVars
  PROVE  KeyInv'
<1> USE DEF VaultInv
<1>1. ASSUME NEW r \in Requests, NEW t \in Tenants, NEW o \in Requests \cup {Missing},
             BeginStore(r, t) \/ BeginDecrypt(r, t, o)
      PROVE  KeyInv'
  <2>1. dek[r] = NoKey /\ KeysKept
    BY <1>1 DEF BeginStore, BeginDecrypt, Place, KeysKept, store
  <2>2. \A q \in Requests : q # r => owner'[q] = owner[q]
    BY <1>1 DEF BeginStore, BeginDecrypt, VaultTypeOK
  <2>3. QED
    BY <2>1, <2>2 DEF KeysKept, KeyInv
<1>2. ASSUME NEW r \in Requests,
             \/ PutObject(r) \/ PutObjectFails(r) \/ Delete(r) \/ canDecrypt(r) \/ FetchObject(r)
             \/ OpenObject(r) \/ LogDecrypt(r) \/ LogDecryptFails(r) \/ Respond(r)
      PROVE  KeysKept /\ owner' = owner
  BY <1>2 DEF PutObject, PutObjectFails, Delete, canDecrypt, FetchObject, OpenObject, LogDecrypt,
     LogDecryptFails, Respond, KeysKept, store, request
<1>3. CASE UNCHANGED vaultVars
  BY <1>3 DEF vaultVars, KeyInv
<1>4. KeysKept /\ owner' = owner => KeyInv'
  BY DEF KeysKept, KeyInv
<1>5. QED
  BY <1>1, <1>2, <1>3, <1>4, KeysAfterGrant, KeysAfterDrop, KeysAfterRestart DEF VaultNext, VaultStep

----------------------------------------------------------------------------
(* Places and references.                                                  *)

(* What a step of request r leaves of another request q.                   *)
SameFor(q) ==
  /\ pc'[q] = pc[q] /\ op'[q] = op[q] /\ owner'[q] = owner[q] /\ ref'[q] = ref[q] /\ dek'[q] = dek[q]
  /\ answer'[q] = answer[q] /\ logged'[q] = logged[q] /\ since'[q] = since[q]
  /\ objects'[q] = objects[q] /\ audit'[q] = audit[q]

StepOf(r) == VaultStep(r) \/ \E t \in Tenants : BeginStore(r, t) \/ \E o \in Requests \cup {Missing} : BeginDecrypt(r, t, o)

LEMMA OthersStay ==
  ASSUME VaultTypeOK, NEW r \in Requests, NEW q \in Requests, q # r, StepOf(r)
  PROVE  SameFor(q)
<1> USE DEF VaultTypeOK, SameFor, store, request
<1>1. CASE GetTenantDEK(r) \/ CreateTenantDEK(r)
  BY <1>1 DEF GetTenantDEK, CreateTenantDEK, GiveKey, EndRequest
<1>2. CASE PutObject(r) \/ PutObjectFails(r)
  BY <1>2 DEF PutObject, PutObjectFails, EndRequest
<1>3. CASE canDecrypt(r) \/ FetchObject(r) \/ OpenObject(r)
  BY <1>3 DEF canDecrypt, FetchObject, OpenObject, Conclude
<1>4. CASE LogDecrypt(r) \/ LogDecryptFails(r) \/ Respond(r)
  BY <1>4 DEF LogDecrypt, LogDecryptFails, Respond, AfterLog
<1>5. ASSUME NEW t \in Tenants, BeginStore(r, t)
      PROVE  SameFor(q)
  BY <1>5 DEF BeginStore
<1>6. ASSUME NEW t \in Tenants, NEW o \in Requests \cup {Missing}, BeginDecrypt(r, t, o)
      PROVE  SameFor(q)
  BY <1>6 DEF BeginDecrypt
<1>7. QED
  BY <1>1, <1>2, <1>3, <1>4, <1>5, <1>6 DEF StepOf, VaultStep

(* A request that takes a step is not over, so nothing refers to it.       *)
LEMMA SteppersAreNotDone ==
  ASSUME VaultInv, NEW r \in Requests, StepOf(r)
  PROVE  /\ pc[r] # "done"
         /\ \A q \in Requests : op[q] = "decrypt" => ref[q] # r
<1>1. pc[r] # "done"
  BY DEF StepOf, VaultStep, GetTenantDEK, CreateTenantDEK, PutObject, PutObjectFails, canDecrypt, FetchObject,
     OpenObject, LogDecrypt, LogDecryptFails, Respond, BeginStore, BeginDecrypt
<1>2. QED
  BY <1>1 DEF VaultInv, Place, Reference

LEMMA OthersKeepPlaces ==
  ASSUME VaultInv, NEW r \in Requests, NEW q \in Requests, q # r, StepOf(r)
  PROVE  Place(q)' /\ Reference(q)'
<1>1. SameFor(q)
  BY OthersStay DEF VaultInv
<1>2. Place(q)'
  BY <1>1 DEF VaultInv, SameFor, Place, Stored, Sealed
<1>3. Reference(q)'
  <2>1. CASE op[q] # "decrypt"
    BY <1>1, <2>1 DEF SameFor, Reference
  <2>2. CASE op[q] = "decrypt" /\ ref[q] = Missing
    BY <1>1, <2>2 DEF SameFor, VaultInv, Reference, AuditRow
  <2>3. CASE op[q] = "decrypt" /\ ref[q] # Missing
    <3>1. ref[q] \in Requests /\ ref[q] # r
      BY <2>3, SteppersAreNotDone DEF VaultInv, VaultTypeOK
    <3>2. SameFor(ref[q])
      BY <3>1, OthersStay DEF VaultInv
    <3>3. QED
      BY <1>1, <2>3, <3>2 DEF SameFor, VaultInv, Reference, AuditRow
  <2>4. QED
    BY <2>1, <2>2, <2>3
<1>4. QED
  BY <1>2, <1>3

(* What r itself has after its step.                                       *)
LEMMA OwnPlace ==
  ASSUME VaultInv, VaultTypeOK', NEW r \in Requests, StepOf(r)
  PROVE  Place(r)'
<1> USE DEF VaultInv, VaultTypeOK, Place, Stored, Sealed, store, request, UnderWay
<1>1. CASE GetTenantDEK(r)
  BY <1>1 DEF GetTenantDEK, GiveKey
<1>2. CASE CreateTenantDEK(r)
  BY <1>2 DEF CreateTenantDEK, KeyCameBetween, GiveKey, EndRequest
<1>3. CASE PutObject(r) \/ PutObjectFails(r)
  BY <1>3 DEF PutObject, PutObjectFails, EndRequest
<1>4. CASE canDecrypt(r) \/ FetchObject(r) \/ OpenObject(r)
  BY <1>4 DEF canDecrypt, FetchObject, OpenObject, OpensAs, Conclude
<1>5. CASE LogDecrypt(r) \/ LogDecryptFails(r) \/ Respond(r)
  BY <1>5 DEF LogDecrypt, LogDecryptFails, Respond
<1>6. ASSUME NEW t \in Tenants, BeginStore(r, t)
      PROVE  Place(r)'
  BY <1>6 DEF BeginStore
<1>7. ASSUME NEW t \in Tenants, NEW o \in Requests \cup {Missing}, BeginDecrypt(r, t, o)
      PROVE  Place(r)'
  BY <1>7 DEF BeginDecrypt
<1>8. QED
  BY <1>1, <1>2, <1>3, <1>4, <1>5, <1>6, <1>7 DEF StepOf, VaultStep

(* The request whose object r opens has not changed.                       *)
LEMMA ReferredStays ==
  ASSUME VaultInv, NEW r \in Requests, StepOf(r), op[r] = "decrypt", ref[r] # Missing
  PROVE  SameFor(ref[r]) /\ ref[r] \in Requests
<1>1. ref[r] \in Requests /\ ref[r] # r
  BY SteppersAreNotDone DEF VaultInv, VaultTypeOK
<1>2. QED
  BY <1>1, OthersStay DEF VaultInv

LEMMA OwnReference ==
  ASSUME VaultInv, VaultTypeOK', NEW r \in Requests, StepOf(r)
  PROVE  Reference(r)'
<1> USE DEF VaultInv, VaultTypeOK, store, request
<1>0. Place(r) /\ Reference(r) /\ (op[r] = "decrypt" /\ ref[r] # Missing => SameFor(ref[r]))
  BY ReferredStays
<1>1. CASE GetTenantDEK(r)
  BY <1>0, <1>1 DEF GetTenantDEK, GiveKey, SameFor, Reference, AuditRow
<1>2. CASE CreateTenantDEK(r)
  <2>1. op[r] = "decrypt" => owner[r] \notin ShortNamed
    BY <1>0, <1>2 DEF CreateTenantDEK, Reference, Place, KeyInv
  <2>2. QED
    BY <1>0, <1>2, <2>1 DEF CreateTenantDEK, KeyCameBetween, GiveKey, EndRequest, SameFor, Reference, AuditRow
<1>3. CASE PutObject(r) \/ PutObjectFails(r)
  BY <1>0, <1>3 DEF PutObject, PutObjectFails, EndRequest, Place, Reference
<1>4. CASE canDecrypt(r)
  BY <1>0, <1>4 DEF canDecrypt, RefTenant, Conclude, SameFor, Reference, AuditRow
<1>5. CASE FetchObject(r)
  BY <1>0, <1>5 DEF FetchObject, NamesObject, Conclude, SameFor, Reference, AuditRow
<1>6. CASE OpenObject(r)
  BY <1>0, <1>6 DEF OpenObject, OpensAs, Conclude, SameFor, Reference, AuditRow
<1>7. CASE LogDecrypt(r) \/ LogDecryptFails(r)
  BY <1>0, <1>7 DEF LogDecrypt, LogDecryptFails, AfterLog, SameFor, Reference, AuditRow
<1>8. CASE Respond(r)
  BY <1>0, <1>8 DEF Respond, SameFor, Reference, AuditRow
<1>9. ASSUME NEW t \in Tenants, BeginStore(r, t)
      PROVE  Reference(r)'
  BY <1>9 DEF BeginStore, Reference
<1>10. ASSUME NEW t \in Tenants, NEW o \in Requests \cup {Missing}, BeginDecrypt(r, t, o)
       PROVE  Reference(r)'
  BY <1>0, <1>10 DEF BeginDecrypt, Place, Reference
<1>11. QED
  BY <1>1, <1>2, <1>3, <1>4, <1>5, <1>6, <1>7, <1>8, <1>9, <1>10 DEF StepOf, VaultStep

(* Rotations, deletions and restarts touch no request but to lose it.      *)
LEMMA OperatorsKeepPlaces ==
  ASSUME VaultInv, NEW q \in Requests,
         \/ \E t \in Tenants : RotateKey(t) \/ DeleteKey(t)
         \/ \E r \in Requests : Delete(r)
         \/ RestartVault
         \/ UNCHANGED vaultVars
  PROVE  Place(q)' /\ Reference(q)'
<1> USE DEF VaultInv, VaultTypeOK, store, request
<1>1. UNCHANGED <<op, owner, ref, dek, answer, logged, audit, since>>
  BY DEF RotateKey, DeleteKey, Delete, RestartVault, vaultVars
<1>2. /\ objects'[q] \in {objects[q], NoObject}
      /\ pc'[q] = pc[q] \/ (pc[q] \in UnderWay /\ pc'[q] = "lost")
  <2>1. CASE \E t \in Tenants : RotateKey(t) \/ DeleteKey(t)
    BY <2>1 DEF RotateKey, DeleteKey
  <2>2. CASE \E r \in Requests : Delete(r)
    <3>1. PICK r \in Requests : Delete(r)
      BY <2>2
    <3>2. objects' = [objects EXCEPT ![r] = NoObject] /\ pc' = pc
      BY <3>1 DEF Delete
    <3>3. QED
      BY <3>2
  <2>3. CASE RestartVault
    BY <2>3 DEF RestartVault
  <2>4. CASE UNCHANGED vaultVars
    BY <2>4 DEF vaultVars
  <2>5. QED
    BY <2>1, <2>2, <2>3, <2>4
<1>3. Place(q)'
  BY <1>1, <1>2 DEF Place, Stored, Sealed, UnderWay
<1>4. Reference(q)'
  BY <1>1, <1>2 DEF Reference, AuditRow
<1>5. QED
  BY <1>3, <1>4

LEMMA PlacesNext ==
  ASSUME VaultInv, [VaultNext]_vaultVars, NEW q \in Requests
  PROVE  Place(q)' /\ Reference(q)'
<1>1. ASSUME NEW r \in Requests, StepOf(r)
      PROVE  Place(q)' /\ Reference(q)'
  BY <1>1, VaultTypeNext, OthersKeepPlaces, OwnPlace, OwnReference
<1>2. QED
  BY <1>1, OperatorsKeepPlaces DEF VaultNext, StepOf

(* The invariant holds in every reachable state.                           *)
THEOREM VaultInductiveInvariant == VaultSpec => []VaultInv
<1>1. VaultInit => VaultInv
  <2> SUFFICES ASSUME VaultInit PROVE VaultInv
    OBVIOUS
  <2>1. VaultTypeOK
    BY DEF VaultInit, VaultTypeOK, UnderWay, Outcomes
  <2>2. KeyInv
    BY DEF VaultInit, KeyInv
  <2>3. \A r \in Requests : Place(r) /\ Reference(r)
    BY DEF VaultInit, Place, Reference, Stored, UnderWay
  <2>4. QED
    BY <2>1, <2>2, <2>3 DEF VaultInv
<1>2. VaultInv /\ [VaultNext]_vaultVars => VaultInv'
  BY VaultTypeNext, KeysNext, PlacesNext DEF VaultInv
<1>3. QED
  BY <1>1, <1>2, PTL DEF VaultSpec

(* For any tenants and requests: what was sealed with a key obtained since *)
(* the tenant's key was last replaced or lost can be read, and nothing     *)
(* older can (keystore.go:99).                                             *)
THEOREM CurrentContentStaysReadable == VaultSpec => []CurrentContentReadable
<1>1. VaultInv => CurrentContentReadable
  <2> SUFFICES ASSUME VaultInv, NEW o \in Requests, Stored(o)
               PROVE  Readable(o) <=> objects[o].since = drops[objects[o].tenant]
    BY DEF CurrentContentReadable
  <2>1. /\ objects[o].tenant = owner[o]
        /\ objects[o].dek = dek[o]
        /\ objects[o].since = since[o]
        /\ dek[o] # NoKey
    <3>1. Place(o)
      BY DEF VaultInv
    <3>2. QED
      BY <3>1 DEF Place, Sealed
  <2>2. QED
    BY <2>1 DEF VaultInv, KeyInv, Readable
<1>2. QED
  BY <1>1, VaultInductiveInvariant, PTL

(* Every decryption that was answered has its audit row, unless the INSERT *)
(* reported a failure, and a success is one of the key that sealed the     *)
(* content and is shown to its owner (decrypt.go:138).                     *)
THEOREM AnswersAreAudited == VaultSpec => []AnsweredIsAudited
<1>1. VaultInv => AnsweredIsAudited
  <2> SUFFICES ASSUME VaultInv, NEW r \in Requests, op[r] = "decrypt", pc[r] \in {"respond", "done"}
               PROVE  /\ logged[r] => audit[r] = AuditRow(r)
                      /\ answer[r] = "success" =>
                           /\ dek[r] = dek[ref[r]]
                           /\ logged[r] => r \in GetDecryptAuditLogs(owner[ref[r]], ref[r])
    BY DEF AnsweredIsAudited
  <2>1. logged[r] => audit[r] = AuditRow(r)
    BY DEF VaultInv, Reference
  <2>2. answer[r] = "success" => ref[r] # Missing /\ owner[ref[r]] = owner[r] /\ dek[ref[r]] = dek[r]
    BY DEF VaultInv, Reference
  <2>3. AuditRow(r) # NoAuditRow /\ AuditRow(r).tenant = owner[r] /\ AuditRow(r).ref = ref[r]
    <3>1. "tenant" \in DOMAIN AuditRow(r) /\ "tenant" \notin DOMAIN NoAuditRow
      BY DEF AuditRow, NoAuditRow
    <3>2. QED
      BY <3>1 DEF AuditRow
  <2>4. QED
    BY <2>1, <2>2, <2>3 DEF GetDecryptAuditLogs, GetByEncryptedRef
<1>2. QED
  BY <1>1, VaultInductiveInvariant, PTL

HIDE VaultAssumption DEF VaultAssumption, NoKey
=============================================================================
