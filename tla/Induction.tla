----------------------------- MODULE Induction -----------------------------
(***************************************************************************)
(* Induction over Nat and over finite sets, and definition by recursion,   *)
(* with sets and functions where the library's theorems take operators:    *)
(* what the proofs about recursive definitions of the models rest on.      *)
(***************************************************************************)
EXTENDS Integers, FiniteSetTheorems, WellFoundedInduction, TLAPS

(* Induction over Nat and definition by recursion over Nat, with a set and *)
(* a function where the library's theorems take operators.                 *)
LEMMA NatLeast ==
  ASSUME NEW T, T \subseteq Nat, T # {}
  PROVE  \E x \in T : \A y \in T : x <= y
<1> DEFINE R == {ss \in Nat \X Nat : ss[1] < ss[2]}
<1>1. IsWellFoundedOn(R, Nat)
  BY NatLessThanWellFounded DEF OpToRel
<1>2. \E x \in T : \A y \in T : ~(<<y, x>> \in R)
  <2> HIDE DEF R
  <2> QED
    BY <1>1, WFMin
<1>3. \A x, y \in T : (~(<<y, x>> \in R)) => x <= y
  OBVIOUS
<1>4. QED
  BY <1>2, <1>3

LEMMA NatAll ==
  ASSUME NEW T, 0 \in T, \A n \in Nat : n \in T => n + 1 \in T
  PROVE  Nat \subseteq T
<1> SUFFICES ASSUME Nat \ T # {} PROVE FALSE
  OBVIOUS
<1>1. PICK x \in Nat \ T : \A y \in Nat \ T : x <= y
  BY NatLeast
<1>2. x - 1 \in Nat /\ x - 1 \in T
  BY <1>1
<1>3. QED
  BY <1>1, <1>2

Steps(S) == [Nat -> [S -> S]]
Iterates(f, a, step) == f[0] = a /\ \A n \in Nat : f[n + 1] = step[n][f[n]]

LEMMA Iterated ==
  ASSUME NEW S, NEW a \in S, NEW step \in Steps(S)
  PROVE  \E f \in [Nat -> S] : Iterates(f, a, step)
<1> USE DEF Steps
<1> DEFINE Good(g, n) == g[0] = a /\ \A k \in 0 .. n - 1 : g[k + 1] = step[k][g[k]]
<1> DEFINE T == {n \in Nat : \E g \in [0 .. n -> S] : Good(g, n)}
<1>1. 0 \in T
  <2> DEFINE g == [k \in 0 .. 0 |-> a]
  <2>1. g \in [0 .. 0 -> S] /\ Good(g, 0)
    OBVIOUS
  <2>2. QED
    BY <2>1
<1>2. ASSUME NEW n \in Nat, n \in T PROVE n + 1 \in T
  <2>1. PICK g \in [0 .. n -> S] : Good(g, n)
    BY <1>2
  <2> DEFINE h == [k \in 0 .. n + 1 |-> IF k = n + 1 THEN step[n][g[n]] ELSE g[k]]
  <2>2. h \in [0 .. n + 1 -> S]
    OBVIOUS
  <2>3. Good(h, n + 1)
    <3>1. h[0] = a
      BY <2>1
    <3>2. ASSUME NEW k \in 0 .. (n + 1) - 1 PROVE h[k + 1] = step[k][h[k]]
      <4>1. CASE k = n
        BY <4>1
      <4>2. CASE k # n
        <5>1. k \in 0 .. n - 1 /\ h[k] = g[k] /\ h[k + 1] = g[k + 1]
          BY <4>2
        <5>2. QED
          BY <2>1, <5>1
      <4>3. QED
        BY <4>1, <4>2
    <3>3. QED
      BY <3>1, <3>2
  <2> HIDE DEF h, Good
  <2>4. QED
    BY <2>2, <2>3
<1>3. Nat \subseteq T
  <2> HIDE DEF T
  <2> QED
    BY <1>1, <1>2, NatAll
<1>4. ASSUME NEW m \in Nat, NEW g \in [0 .. m -> S], NEW n \in Nat, NEW h \in [0 .. n -> S],
             Good(g, m), Good(h, n)
      PROVE  \A k \in Nat : k <= m /\ k <= n => g[k] = h[k]
  <2> DEFINE U == {k \in Nat : k <= m /\ k <= n => g[k] = h[k]}
  <2>1. 0 \in U
    BY <1>4
  <2>2. ASSUME NEW k \in Nat, k \in U PROVE k + 1 \in U
    <3> SUFFICES ASSUME k + 1 <= m, k + 1 <= n PROVE g[k + 1] = h[k + 1]
      OBVIOUS
    <3>1. k \in 0 .. m - 1 /\ k \in 0 .. n - 1 /\ g[k] = h[k]
      BY <2>2
    <3>2. QED
      BY <1>4, <3>1
  <2>3. Nat \subseteq U
    <3> HIDE DEF U
    <3> QED
      BY <2>1, <2>2, NatAll
  <2>4. QED
    BY <2>3
<1> DEFINE part == [n \in Nat |-> CHOOSE g \in [0 .. n -> S] : Good(g, n)]
<1>5. \A n \in Nat : part[n] \in [0 .. n -> S] /\ Good(part[n], n)
  <2> SUFFICES ASSUME NEW n \in Nat PROVE part[n] \in [0 .. n -> S] /\ Good(part[n], n)
    OBVIOUS
  <2>1. \E g \in [0 .. n -> S] : Good(g, n)
    BY <1>3
  <2> HIDE DEF Good
  <2>2. QED
    BY <2>1
<1> DEFINE f == [n \in Nat |-> part[n][n]]
<1> HIDE DEF part, T
<1>6. f \in [Nat -> S] /\ f[0] = a
  BY <1>5
<1>7. ASSUME NEW n \in Nat PROVE f[n + 1] = step[n][f[n]]
  <2>1. part[n + 1][n] = part[n][n]
    <3>1. /\ part[n + 1] \in [0 .. n + 1 -> S] /\ Good(part[n + 1], n + 1)
          /\ part[n] \in [0 .. n -> S] /\ Good(part[n], n)
      BY <1>5
    <3>2. n + 1 \in Nat /\ n <= n + 1 /\ n <= n
      OBVIOUS
    <3> HIDE DEF Good
    <3>3. \A k \in Nat : k <= n + 1 /\ k <= n => part[n + 1][k] = part[n][k]
      BY <3>1, <3>2, <1>4
    <3>4. QED
      BY <3>1, <3>2, <3>3
  <2>2. part[n + 1][n + 1] = step[n][part[n + 1][n]]
    <3>1. Good(part[n + 1], n + 1) /\ n \in 0 .. (n + 1) - 1
      BY <1>5
    <3>2. QED
      BY <3>1
  <2>3. QED
    BY <2>1, <2>2
<1>8. QED
  BY <1>6, <1>7 DEF Iterates

----------------------------------------------------------------------------
(* Finite sets, one element at a time.                                     *)

LEMMA FiniteAll ==
  ASSUME NEW S, IsFiniteSet(S), NEW T, {} \in T,
         \A A \in SUBSET S : (A # {} /\ \A x \in A : A \ {x} \in T) => A \in T
  PROVE  SUBSET S \subseteq T
<1> DEFINE U == {n \in Nat : \A A \in SUBSET S : Cardinality(A) = n => A \in T}
<1>1. \A A \in SUBSET S : IsFiniteSet(A) /\ Cardinality(A) \in Nat
  BY FS_Subset, FS_CardinalityType
<1>2. 0 \in U
  BY <1>1, FS_EmptySet
<1>3. ASSUME NEW n \in Nat, n \in U PROVE n + 1 \in U
  <2> SUFFICES ASSUME NEW A \in SUBSET S, Cardinality(A) = n + 1 PROVE A \in T
    OBVIOUS
  <2>1. A # {}
    BY FS_EmptySet
  <2>2. ASSUME NEW x \in A PROVE A \ {x} \in T
    <3>1. Cardinality(A \ {x}) = n /\ A \ {x} \in SUBSET S
      BY <1>1, FS_RemoveElement
    <3>2. QED
      BY <1>3, <3>1
  <2>3. QED
    BY <2>1, <2>2
<1>4. Nat \subseteq U
  <2> HIDE DEF U
  <2> QED
    BY <1>2, <1>3, NatAll
<1>5. QED
  BY <1>1, <1>4

----------------------------------------------------------------------------
(* Folds over finite sets: what the folds of the community modules define  *)
(* by a recursive function on subsets, c choosing the element.             *)

Choosers(S) == {c \in [(SUBSET S) \ {{}} -> S] : \A s \in (SUBSET S) \ {{}} : c[s] \in s}
Turns(S, V) == [S -> [V -> V]]

Unfolded(it, s, base, c, step) == IF s = {} THEN base ELSE step[c[s]][it[s \ {c[s]}]]
IsFold(it, S, base, c, step) == it = [s \in SUBSET S |-> Unfolded(it, s, base, c, step)]

LEMMA FoldExists ==
  ASSUME NEW S, IsFiniteSet(S), NEW V, NEW base \in V, NEW c \in Choosers(S), NEW step \in Turns(S, V)
  PROVE  \E it \in [SUBSET S -> V] : IsFold(it, S, base, c, step)
<1> DEFINE Sums == [SUBSET S -> V]
<1> DEFINE more(it) == [s \in SUBSET S |-> Unfolded(it, s, base, c, step)]
<1> DEFINE each == [n \in Nat |-> [it \in Sums |-> more(it)]]
<1> DEFINE none == [s \in SUBSET S |-> base]
<1>1. \A s \in (SUBSET S) \ {{}} : c[s] \in s /\ c[s] \in S /\ s \ {c[s]} \in SUBSET S
  BY DEF Choosers
<1>2. ASSUME NEW it \in Sums PROVE more(it) \in Sums
  <2> SUFFICES ASSUME NEW s \in SUBSET S PROVE Unfolded(it, s, base, c, step) \in V
    OBVIOUS
  <2>1. CASE s = {}
    BY <2>1 DEF Unfolded
  <2>2. CASE s # {}
    <3>1. c[s] \in S /\ it[s \ {c[s]}] \in V
      BY <1>1, <2>2
    <3>2. step[c[s]] \in [V -> V]
      BY <3>1 DEF Turns
    <3>3. QED
      BY <2>2, <3>1, <3>2 DEF Unfolded
  <2>3. QED
    BY <2>1, <2>2
<1>3. none \in Sums /\ each \in Steps(Sums)
  BY <1>2 DEF Steps
<1>4. PICK f \in [Nat -> Sums] : f[0] = none /\ \A n \in Nat : f[n + 1] = each[n][f[n]]
  <2> HIDE DEF Sums, none, each
  <2>1. \E f \in [Nat -> Sums] : Iterates(f, none, each)
    BY <1>3, Iterated
  <2>2. QED
    BY <2>1 DEF Iterates
<1>5. \A n \in Nat : f[n] \in Sums /\ f[n + 1] = more(f[n])
  BY <1>4
<1> DEFINE Settled(n) == \A s \in SUBSET S : Cardinality(s) <= n => f[n + 1][s] = f[n][s]
<1> DEFINE T == {n \in Nat : Settled(n)}
<1>6. \A n \in Nat : \A s \in SUBSET S : f[n + 1][s] = Unfolded(f[n], s, base, c, step)
  BY <1>5
<1>7. \A s \in SUBSET S : IsFiniteSet(s) /\ Cardinality(s) \in Nat
  BY FS_Subset, FS_CardinalityType
<1> HIDE DEF none, each, more
<1>8. 0 \in T
  <2> SUFFICES ASSUME NEW s \in SUBSET S, Cardinality(s) <= 0 PROVE f[0 + 1][s] = f[0][s]
    OBVIOUS
  <2>1. s = {}
    BY <1>7, FS_EmptySet
  <2>2. f[0][s] = base
    BY <1>4 DEF none
  <2>3. f[0 + 1][s] = base
    BY <1>6, <2>1 DEF Unfolded
  <2>4. QED
    BY <2>2, <2>3
<1>9. ASSUME NEW n \in Nat, n \in T PROVE n + 1 \in T
  <2> SUFFICES ASSUME NEW s \in SUBSET S, Cardinality(s) <= n + 1 PROVE f[(n + 1) + 1][s] = f[n + 1][s]
    OBVIOUS
  <2>1. f[(n + 1) + 1][s] = Unfolded(f[n + 1], s, base, c, step) /\ f[n + 1][s] = Unfolded(f[n], s, base, c, step)
    BY <1>6
  <2>2. CASE s = {}
    BY <2>1, <2>2 DEF Unfolded
  <2>3. CASE s # {}
    <3>1. PICK r \in SUBSET S : r = s \ {c[s]}
      BY <1>1, <2>3
    <3>2. Cardinality(r) <= n
      <4>1. c[s] \in s
        BY <1>1, <2>3
      <4>2. Cardinality(r) = Cardinality(s) - 1
        BY <1>7, <3>1, <4>1, FS_RemoveElement
      <4>3. QED
        BY <1>7, <4>2
    <3>3. f[n + 1][r] = f[n][r]
      BY <1>9, <3>2
    <3>4. QED
      BY <2>1, <2>3, <3>1, <3>3 DEF Unfolded
  <2>4. QED
    BY <2>2, <2>3
<1>10. PICK N \in Nat : N = Cardinality(S)
  BY <1>7
<1>11. Settled(N)
  <2>1. Nat \subseteq T
    <3> HIDE DEF T
    <3> QED
      BY <1>8, <1>9, NatAll
  <2>2. QED
    BY <2>1
<1>12. \A s \in SUBSET S : f[N][s] = Unfolded(f[N], s, base, c, step)
  <2> SUFFICES ASSUME NEW s \in SUBSET S PROVE f[N][s] = Unfolded(f[N], s, base, c, step)
    OBVIOUS
  <2>1. Cardinality(s) <= N
    BY <1>10, FS_Subset
  <2>2. QED
    BY <1>6, <1>11, <2>1
<1>13. f[N] \in Sums
  BY <1>5
<1>14. IsFold(f[N], S, base, c, step)
  <2>1. PICK it \in Sums : it = f[N]
    BY <1>13
  <2>2. \A s \in SUBSET S : it[s] = Unfolded(it, s, base, c, step)
    BY <1>12, <2>1
  <2>3. IsFold(it, S, base, c, step)
    BY <2>2 DEF IsFold
  <2>4. QED
    BY <2>1, <2>3
<1>15. QED
  BY <1>13, <1>14

(* A fold depends on what it folds alone.                                  *)
LEMMA FoldAgrees ==
  ASSUME NEW S, NEW A \in SUBSET S, IsFiniteSet(A), NEW base,
         NEW c, NEW step, NEW it, IsFold(it, S, base, c, step),
         NEW d, NEW turn, NEW jt, IsFold(jt, A, base, d, turn),
         \A s \in SUBSET A : s # {} => c[s] \in s /\ d[s] = c[s],
         \A x \in A : turn[x] = step[x]
  PROVE  \A s \in SUBSET A : jt[s] = it[s]
<1> DEFINE T == {s \in SUBSET A : jt[s] = it[s]}
<1>1. \A s \in SUBSET A : /\ jt[s] = Unfolded(jt, s, base, d, turn)
                          /\ it[s] = Unfolded(it, s, base, c, step)
  BY DEF IsFold
<1>2. {} \in T
  BY <1>1 DEF Unfolded
<1>3. ASSUME NEW s \in SUBSET A, s # {}, \A x \in s : s \ {x} \in T PROVE s \in T
  <2>1. c[s] \in s /\ c[s] \in A /\ d[s] = c[s] /\ turn[c[s]] = step[c[s]]
    BY <1>3
  <2>2. jt[s \ {c[s]}] = it[s \ {c[s]}]
    BY <1>3, <2>1
  <2>3. it[s] = step[c[s]][it[s \ {c[s]}]]
    BY <1>1, <1>3 DEF Unfolded
  <2>4. jt[s] = turn[d[s]][jt[s \ {d[s]}]]
    BY <1>1, <1>3 DEF Unfolded
  <2>5. QED
    BY <2>1, <2>2, <2>3, <2>4
<1>4. SUBSET A \subseteq T
  <2> HIDE DEF T
  <2> QED
    BY <1>2, <1>3, FiniteAll
<1>5. QED
  BY <1>4

----------------------------------------------------------------------------
(* Sums over finite sets.                                                  *)

Chosen(S) == [s \in (SUBSET S) \ {{}} |-> CHOOSE x \in s : TRUE]
Adding(h, S) == [x \in S |-> [v \in Nat |-> h[x] + v]]
IsSum(it, h, S) == IsFold(it, S, 0, Chosen(S), Adding(h, S))
Summed(it, h, S) ==
  \A s \in SUBSET S : it[s] = IF s = {} THEN 0
                              ELSE h[CHOOSE x \in s : TRUE] + it[s \ {CHOOSE x \in s : TRUE}]

(* MapThenSumSet with the values in a function.                            *)
Total(h, S) ==
  (CHOOSE it : it = [s \in SUBSET S |-> IF s = {} THEN 0
                                        ELSE h[CHOOSE x \in s : TRUE] + it[s \ {CHOOSE x \in s : TRUE}]])[S]

LEMMA ChosenChooses ==
  ASSUME NEW S
  PROVE  Chosen(S) \in Choosers(S) /\ \A s \in SUBSET S : s # {} => Chosen(S)[s] = (CHOOSE x \in s : TRUE)
<1>1. \A s \in (SUBSET S) \ {{}} : (CHOOSE x \in s : TRUE) \in s
  OBVIOUS
<1>2. QED
  BY <1>1 DEF Chosen, Choosers

LEMMA SumUnfolds ==
  ASSUME NEW S, IsFiniteSet(S), NEW h, \A x \in S : h[x] \in Nat,
         NEW it \in [SUBSET S -> Nat], IsSum(it, h, S)
  PROVE  Summed(it, h, S)
<1> SUFFICES ASSUME NEW s \in SUBSET S
             PROVE  it[s] = IF s = {} THEN 0
                            ELSE h[CHOOSE x \in s : TRUE] + it[s \ {CHOOSE x \in s : TRUE}]
  BY DEF Summed
<1>1. CASE s = {}
  BY <1>1 DEF IsSum, IsFold, Unfolded
<1>2. CASE s # {}
  <2>1. Chosen(S)[s] = (CHOOSE x \in s : TRUE) /\ Chosen(S)[s] \in s
    BY <1>2, ChosenChooses DEF Choosers
  <2>2. PICK y \in S : y = Chosen(S)[s]
    BY <2>1
  <2>3. s \ {y} \in SUBSET S /\ it[s \ {y}] \in Nat
    OBVIOUS
  <2>4. Adding(h, S)[y][it[s \ {y}]] = h[y] + it[s \ {y}]
    BY <2>3 DEF Adding
  <2>5. it[s] = Adding(h, S)[y][it[s \ {y}]]
    BY <1>2, <2>2 DEF IsSum, IsFold, Unfolded
  <2>6. QED
    BY <1>2, <2>1, <2>2, <2>4, <2>5
<1>3. QED
  BY <1>1, <1>2

LEMMA SumOf ==
  ASSUME NEW S, IsFiniteSet(S), NEW h, \A x \in S : h[x] \in Nat
  PROVE  \E it \in [SUBSET S -> Nat] : IsSum(it, h, S) /\ Total(h, S) = it[S]
<1> DEFINE Here(it) == it = [s \in SUBSET S |-> IF s = {} THEN 0
                               ELSE h[CHOOSE x \in s : TRUE] + it[s \ {CHOOSE x \in s : TRUE}]]
<1>1. Adding(h, S) \in Turns(S, Nat) /\ Chosen(S) \in Choosers(S)
  BY ChosenChooses DEF Adding, Turns
<1>2. PICK it \in [SUBSET S -> Nat] : IsSum(it, h, S)
  BY <1>1, FoldExists DEF IsSum
<1>4. Here(it)
  <2>1. Summed(it, h, S)
    BY <1>2, SumUnfolds
  <2>2. QED
    BY <1>2, <2>1 DEF Summed
<1>5. PICK jt : Here(jt) /\ Total(h, S) = jt[S]
  <2>1. Total(h, S) = (CHOOSE jt : Here(jt))[S]
    BY DEF Total
  <2>2. Here(CHOOSE jt : Here(jt))
    <3> HIDE DEF Here
    <3>1. QED
      BY <1>4
  <2> HIDE DEF Here
  <2>3. QED
    BY <2>1, <2>2
<1>6. jt[S] = it[S]
  <2> DEFINE T == {s \in SUBSET S : jt[s] = it[s]}
  <2>1. {} \in T
    BY <1>4, <1>5
  <2>2. ASSUME NEW s \in SUBSET S, s # {}, \A x \in s : s \ {x} \in T PROVE s \in T
    <3>1. PICK y \in s : y = (CHOOSE x \in s : TRUE)
      BY <2>2
    <3>a. jt[s] = h[y] + jt[s \ {y}]
      BY <1>5, <2>2, <3>1
    <3>b. it[s] = h[y] + it[s \ {y}]
      BY <1>4, <2>2, <3>1
    <3>2. jt[s] = h[y] + jt[s \ {y}] /\ it[s] = h[y] + it[s \ {y}]
      BY <3>a, <3>b
    <3>3. QED
      BY <2>2, <3>2
  <2>3. SUBSET S \subseteq T
    <3> HIDE DEF T
    <3> QED
      BY <2>1, <2>2, FiniteAll
  <2>4. QED
    BY <2>3
<1>7. QED
  BY <1>2, <1>5, <1>6

(* A sum is that of the rest and any of its elements.                      *)
Splits(it, h, S) == \A A \in SUBSET S : \A x \in A : it[A] = h[x] + it[A \ {x}]

LEMMA SumSplits ==
  ASSUME NEW S, IsFiniteSet(S), NEW h, \A x \in S : h[x] \in Nat,
         NEW it \in [SUBSET S -> Nat], IsSum(it, h, S)
  PROVE  Splits(it, h, S)
<1> DEFINE T == {A \in SUBSET S : \A x \in A : it[A] = h[x] + it[A \ {x}]}
<1>1. \A A \in SUBSET S : A # {} => \E y \in A : it[A] = h[y] + it[A \ {y}]
  <2> SUFFICES ASSUME NEW A \in SUBSET S, A # {} PROVE \E y \in A : it[A] = h[y] + it[A \ {y}]
    OBVIOUS
  <2>1. PICK y \in A : y = Chosen(S)[A]
    BY ChosenChooses DEF Choosers
  <2>2. it[A] = Adding(h, S)[y][it[A \ {y}]]
    BY <2>1 DEF IsSum, IsFold, Unfolded
  <2>3. A \ {y} \in SUBSET S /\ it[A \ {y}] \in Nat /\ y \in S
    OBVIOUS
  <2>4. QED
    BY <2>2, <2>3 DEF Adding
<1>2. {} \in T
  OBVIOUS
<1>3. ASSUME NEW A \in SUBSET S, A # {}, \A x \in A : A \ {x} \in T PROVE A \in T
  <2> SUFFICES ASSUME NEW x \in A PROVE it[A] = h[x] + it[A \ {x}]
    OBVIOUS
  <2>1. PICK y \in A : it[A] = h[y] + it[A \ {y}]
    BY <1>1, <1>3
  <2>2. CASE x = y
    BY <2>1, <2>2
  <2>3. CASE x # y
    <3>1. x \in A \ {y} /\ y \in A \ {x} /\ (A \ {y}) \ {x} = (A \ {x}) \ {y}
      BY <2>3
    <3>2. it[A \ {y}] = h[x] + it[(A \ {y}) \ {x}] /\ it[A \ {x}] = h[y] + it[(A \ {x}) \ {y}]
      BY <1>3, <3>1
    <3>3. h[x] \in Nat /\ h[y] \in Nat /\ it[(A \ {y}) \ {x}] \in Nat
      OBVIOUS
    <3>4. PICK a, b, r \in Nat : a = h[x] /\ b = h[y] /\ r = it[(A \ {y}) \ {x}]
      BY <3>3
    <3>5. it[A] = b + (a + r) /\ it[A \ {x}] = b + r
      BY <2>1, <3>1, <3>2, <3>4
    <3>6. QED
      BY <3>4, <3>5
  <2>4. QED
    BY <2>2, <2>3
<1>4. SUBSET S \subseteq T
  <2> HIDE DEF T
  <2> QED
    BY <1>2, <1>3, FiniteAll
<1>5. QED
  BY <1>4 DEF Splits

(* Of a subset, and of other values that agree there.                      *)
LEMMA SumsAgree ==
  ASSUME NEW S, IsFiniteSet(S), NEW A \in SUBSET S, NEW h, NEW k, \A x \in S : h[x] \in Nat,
         \A x \in A : k[x] = h[x],
         NEW it \in [SUBSET S -> Nat], IsSum(it, h, S)
  PROVE  Total(k, A) = it[A]
<1>1. IsFiniteSet(A) /\ \A x \in A : k[x] \in Nat
  BY FS_Subset
<1>2. PICK jt \in [SUBSET A -> Nat] : IsSum(jt, k, A) /\ Total(k, A) = jt[A]
  BY <1>1, SumOf
<1>3. \A s \in SUBSET A : s # {} => Chosen(S)[s] \in s /\ Chosen(A)[s] = Chosen(S)[s]
  <2> SUFFICES ASSUME NEW s \in SUBSET A, s # {}
               PROVE  Chosen(S)[s] \in s /\ Chosen(A)[s] = Chosen(S)[s]
    OBVIOUS
  <2>1. Chosen(S)[s] = (CHOOSE x \in s : TRUE) /\ Chosen(A)[s] = (CHOOSE x \in s : TRUE)
    BY ChosenChooses
  <2>2. QED
    BY <2>1
<1>4. \A x \in A : Adding(k, A)[x] = Adding(h, S)[x]
  BY DEF Adding
<1>5. \A s \in SUBSET A : jt[s] = it[s]
  BY <1>1, <1>2, <1>3, <1>4, FoldAgrees DEF IsSum
<1>6. QED
  BY <1>2, <1>5

LEMMA TotalOfNone ==
  ASSUME NEW h
  PROVE  Total(h, {}) = 0
<1>1. PICK it \in [SUBSET {} -> Nat] : IsSum(it, h, {}) /\ Total(h, {}) = it[{}]
  BY FS_EmptySet, SumOf
<1>2. QED
  BY <1>1 DEF IsSum, IsFold, Unfolded

LEMMA TotalIsNatural ==
  ASSUME NEW S, IsFiniteSet(S), NEW h, \A x \in S : h[x] \in Nat
  PROVE  Total(h, S) \in Nat
<1>1. PICK it \in [SUBSET S -> Nat] : IsSum(it, h, S) /\ Total(h, S) = it[S]
  BY SumOf
<1>2. QED
  BY <1>1

LEMMA TotalsAgree ==
  ASSUME NEW S, IsFiniteSet(S), NEW h, NEW k, \A x \in S : h[x] \in Nat /\ k[x] = h[x]
  PROVE  Total(k, S) = Total(h, S)
<1>1. PICK it \in [SUBSET S -> Nat] : IsSum(it, h, S) /\ Total(h, S) = it[S]
  BY SumOf
<1>2. Total(k, S) = it[S]
  BY <1>1, SumsAgree
<1>3. QED
  BY <1>1, <1>2

LEMMA TotalSplits ==
  ASSUME NEW S, IsFiniteSet(S), NEW h, \A x \in S : h[x] \in Nat, NEW z \in S
  PROVE  Total(h, S) = h[z] + Total(h, S \ {z})
<1>1. PICK it \in [SUBSET S -> Nat] : IsSum(it, h, S) /\ Total(h, S) = it[S]
  BY SumOf
<1>2. Splits(it, h, S)
  BY <1>1, SumSplits
<1>3. it[S] = h[z] + it[S \ {z}]
  BY <1>2 DEF Splits
<1>4. Total(h, S \ {z}) = it[S \ {z}]
  <2>1. PICK A \in SUBSET S : A = S \ {z}
    OBVIOUS
  <2>2. Total(h, A) = it[A]
    BY <1>1, SumsAgree
  <2>3. QED
    BY <2>1, <2>2
<1>5. QED
  BY <1>1, <1>3, <1>4

LEMMA TotalAdds ==
  ASSUME NEW S, IsFiniteSet(S), NEW z, z \notin S, NEW h, NEW k, \A x \in S : h[x] \in Nat /\ k[x] = h[x],
         k[z] \in Nat
  PROVE  Total(k, S \cup {z}) = Total(h, S) + k[z]
<1>1. IsFiniteSet(S \cup {z}) /\ (\A x \in S \cup {z} : k[x] \in Nat) /\ z \in S \cup {z}
  BY FS_AddElement
<1>2. Total(k, S \cup {z}) = k[z] + Total(k, (S \cup {z}) \ {z})
  BY <1>1, TotalSplits
<1>3. Total(k, S) = Total(h, S) /\ Total(h, S) \in Nat
  BY TotalsAgree, TotalIsNatural
<1>4. (S \cup {z}) \ {z} = S
  OBVIOUS
<1>5. Total(k, S \cup {z}) = k[z] + Total(h, S)
  BY <1>2, <1>3, <1>4
<1>6. QED
  BY <1>3, <1>5

(* A loop of N turns.                                                      *)
Loops(f, a, step, N) == f[0] = a /\ \A k \in 1 .. N : f[k] = step[k - 1][f[k - 1]]

LEMMA Looped ==
  ASSUME NEW S, NEW a \in S, NEW N \in Nat, NEW step \in Steps(S)
  PROVE  \E f \in [0 .. N -> S] : Loops(f, a, step, N)
<1>1. PICK f \in [Nat -> S] : f[0] = a /\ \A n \in Nat : f[n + 1] = step[n][f[n]]
  BY Iterated DEF Iterates
<1>2. PICK g : g = [k \in 0 .. N |-> f[k]]
  OBVIOUS
<1> g \in [0 .. N -> S]
  <2>1. \A k \in 0 .. N : k \in Nat
    OBVIOUS
  <2>2. \A k \in 0 .. N : f[k] \in S
    BY <2>1
  <2>3. QED
    BY <1>2, <2>2
<1>3. ASSUME NEW k \in 1 .. N PROVE g[k] = step[k - 1][g[k - 1]]
  <2>1. PICK n \in Nat : n = k - 1 /\ n + 1 = k /\ n \in 0 .. N /\ k \in 0 .. N
    OBVIOUS
  <2>2. g[k] = f[n + 1] /\ g[n] = f[n]
    BY <1>2, <2>1
  <2>3. f[n + 1] = step[n][f[n]]
    BY <1>1, <2>1
  <2>4. QED
    BY <2>1, <2>2, <2>3
<1>4. g[0] = a
  BY <1>1, <1>2
<1>5. QED
  BY <1>3, <1>4 DEF Loops

(* A finite set of numbers has a greatest, and can be listed in order.     *)
LEMMA NatGreatest ==
  ASSUME NEW S, IsFiniteSet(S), S \subseteq Nat, S # {}
  PROVE  \E x \in S : \A y \in S : y <= x
<1> DEFINE T == {A \in SUBSET S : A = {} \/ \E x \in A : \A y \in A : y <= x}
<1>1. {} \in T
  OBVIOUS
<1>2. ASSUME NEW A \in SUBSET S, A # {}, \A x \in A : A \ {x} \in T PROVE A \in T
  <2>1. PICK x \in A : TRUE
    BY <1>2
  <2>2. CASE A \ {x} = {}
    <3>1. \A y \in A : y = x
      BY <2>2
    <3>2. QED
      BY <2>1, <3>1
  <2>3. CASE A \ {x} # {}
    <3>1. PICK z \in A \ {x} : \A y \in A \ {x} : y <= z
      BY <1>2, <2>1, <2>3
    <3>2. x \in Nat /\ z \in Nat /\ \A y \in A : y \in Nat /\ (y = x \/ y <= z)
      BY <3>1
    <3>3. CASE x <= z
      BY <3>1, <3>2, <3>3
    <3>4. CASE ~(x <= z)
      <4>1. \A y \in A : y <= x
        BY <3>2, <3>4
      <4>2. QED
        BY <2>1, <4>1
    <3>5. QED
      BY <3>3, <3>4
  <2>4. QED
    BY <2>2, <2>3
<1>3. SUBSET S \subseteq T
  <2> HIDE DEF T
  <2> QED
    BY <1>1, <1>2, FiniteAll
<1>4. S \in T
  BY <1>3
<1>5. QED
  BY <1>4

Rising(t, n) == \A j, k \in 1 .. n : j < k => t[j] < t[k]
ListedInOrder(A) ==
  \E n \in Nat : n = Cardinality(A) /\ \E t \in [1 .. n -> A] : Rising(t, n) /\ \A x \in A : \E k \in 1 .. n : t[k] = x

LEMMA InOrderOf ==
  ASSUME NEW S, IsFiniteSet(S), S \subseteq Nat
  PROVE  ListedInOrder(S)
<1> DEFINE T == {A \in SUBSET S : ListedInOrder(A)}
<1>1. {} \in T
  <2>1. Cardinality({}) = 0
    BY FS_EmptySet
  <2>2. PICK t : t = [k \in 1 .. 0 |-> 0]
    OBVIOUS
  <2>3. t \in [1 .. 0 -> {}] /\ Rising(t, 0)
    BY <2>2 DEF Rising
  <2>4. ListedInOrder({})
    <3>1. \E u \in [1 .. 0 -> {}] : Rising(u, 0) /\ \A x \in {} : \E k \in 1 .. 0 : u[k] = x
      BY <2>3
    <3>2. \E n \in Nat : n = 0 /\ \E u \in [1 .. n -> {}] : Rising(u, n) /\ \A x \in {} : \E k \in 1 .. n : u[k] = x
      BY <3>1
    <3>3. QED
      BY <2>1, <3>2 DEF ListedInOrder
  <2>5. QED
    BY <2>4
<1>2. ASSUME NEW A \in SUBSET S, A # {}, \A x \in A : A \ {x} \in T PROVE A \in T
  <2>1. IsFiniteSet(A)
    BY FS_Subset
  <2>2. PICK x \in A : \A y \in A : y <= x
    BY <1>2, <2>1, NatGreatest
  <2>3. PICK B \in SUBSET S : B = A \ {x} /\ ListedInOrder(B)
    BY <1>2, <2>2
  <2>4. PICK n \in Nat : n = Cardinality(B) /\ \E t \in [1 .. n -> B] : Rising(t, n) /\ \A y \in B : \E k \in 1 .. n : t[k] = y
    BY <2>3 DEF ListedInOrder
  <2>5. PICK t \in [1 .. n -> B] : Rising(t, n) /\ \A y \in B : \E k \in 1 .. n : t[k] = y
    BY <2>4
  <2>6. Cardinality(A) = n + 1
    <3>1. Cardinality(B) = Cardinality(A) - 1
      BY <2>1, <2>2, <2>3, FS_RemoveElement
    <3>2. Cardinality(A) \in Nat
      BY <2>1, FS_CardinalityType
    <3>3. QED
      BY <2>4, <3>1, <3>2
  <2>7. PICK u \in [1 .. n + 1 -> A] : u = [k \in 1 .. n + 1 |-> IF k = n + 1 THEN x ELSE t[k]]
    <3>1. \A k \in 1 .. n + 1 : k = n + 1 \/ k \in 1 .. n
      OBVIOUS
    <3>2. \A k \in 1 .. n : t[k] \in A
      BY <2>3
    <3>3. QED
      BY <3>1, <3>2
  <2>8. Rising(u, n + 1)
    <3> SUFFICES ASSUME NEW j \in 1 .. n + 1, NEW k \in 1 .. n + 1, j < k PROVE u[j] < u[k]
      BY DEF Rising
    <3>1. j \in 1 .. n /\ u[j] = t[j] /\ t[j] \in A /\ t[j] # x
      BY <2>3, <2>7
    <3>2. t[j] \in Nat /\ x \in Nat /\ t[j] <= x
      BY <2>2, <3>1
    <3>3. CASE k = n + 1
      BY <2>7, <3>1, <3>2, <3>3
    <3>4. CASE k # n + 1
      <4>1. k \in 1 .. n /\ u[k] = t[k]
        BY <2>7, <3>4
      <4>2. QED
        BY <2>5, <3>1, <4>1 DEF Rising
    <3>5. QED
      BY <3>3, <3>4
  <2>9. ASSUME NEW y \in A PROVE \E k \in 1 .. n + 1 : u[k] = y
    <3>1. CASE y = x
      BY <2>7, <3>1
    <3>2. CASE y # x
      <4>1. PICK k \in 1 .. n : t[k] = y
        BY <2>3, <2>5, <3>2
      <4>2. k \in 1 .. n + 1 /\ u[k] = t[k]
        BY <2>7
      <4>3. QED
        BY <4>1, <4>2
    <3>3. QED
      BY <3>1, <3>2
  <2>10. ListedInOrder(A)
    BY <2>6, <2>8, <2>9 DEF ListedInOrder
  <2>11. QED
    BY <2>10
<1>3. SUBSET S \subseteq T
  <2> HIDE DEF T
  <2> QED
    BY <1>1, <1>2, FiniteAll
<1>4. S \in T
  BY <1>3
<1>5. QED
  BY <1>4
=============================================================================
