--------------------------- MODULE VotingPollProofs ---------------------------
(***************************************************************************)
(* Theorems about VotingPoll, for every number of choices, every modulus,  *)
(* every set of Member objects, identities and weights.                    *)
(***************************************************************************)
EXTENDS VotingPoll, FiniteSetTheorems, WellFoundedInduction, TLAPS

-----------------------------------------------------------------------------
(* Induction and recursion, with sets in the place of predicates, and the *)
(* sums and quotients of the tallies.                                      *)

(* A set of numbers that is not empty has a least one.                     *)
LEMMA LeastNumber ==
  ASSUME NEW T \in SUBSET Nat, T # {}
  PROVE  \E x \in T : \A y \in T : x <= y
<1> DEFINE R == OpToRel(<, Nat)
<1>1. IsWellFoundedOn(R, Nat)
  BY NatLessThanWellFounded
<1>2. \A x, y \in Nat : y < x => <<y, x>> \in R
  BY DEF OpToRel
<1> HIDE DEF R
<1>3. PICK x \in T : \A y \in T : ~(<<y, x>> \in R)
  BY <1>1, WFMin
<1>4. ASSUME NEW y \in T PROVE x <= y
  <2>1. x \in Nat /\ y \in Nat /\ ~(<<y, x>> \in R)
    BY <1>3
  <2>2. ~(y < x)
    BY <1>2, <2>1
  <2> QED
    BY <2>1, <2>2
<1> QED
  BY <1>4

(* Induction over the numbers, for a set of numbers in the place of a predicate. *)
LEMMA NumbersInduction ==
  ASSUME NEW P, 0 \in P, \A n \in Nat : n \in P => n + 1 \in P
  PROVE  \A n \in Nat : n \in P
<1> DEFINE T == Nat \ P
<1>1. SUFFICES ASSUME T # {} PROVE FALSE
  OBVIOUS
<1>2. PICK x \in T : \A y \in T : x <= y
  BY <1>1, LeastNumber
<1>3. x # 0 /\ x \in Nat
  OBVIOUS
<1>4. x - 1 \in Nat /\ x - 1 \in P
  BY <1>2, <1>3
<1> QED
  BY <1>4, <1>3, (x - 1) + 1 = x

(* Induction over the subsets of a finite set. *)
LEMMA SubsetInduction ==
  ASSUME NEW S, IsFiniteSet(S), NEW P,
         ASSUME NEW s \in SUBSET S, \A t \in SUBSET s : t # s => t \in P
         PROVE  s \in P
  PROVE  \A s \in SUBSET S : s \in P
<1> DEFINE Bad == {s \in SUBSET S : s \notin P}
           T == {Cardinality(s) : s \in Bad}
<1>1. SUFFICES ASSUME Bad # {} PROVE FALSE
  OBVIOUS
<1>2. \A s \in SUBSET S : IsFiniteSet(s) /\ Cardinality(s) \in Nat
  BY FS_Subset, FS_CardinalityType
<1>3. T # {} /\ T \in SUBSET Nat
  BY <1>1, <1>2
<1>4. PICK n \in T : \A y \in T : n <= y
  BY <1>3, LeastNumber
<1>5. PICK s \in Bad : Cardinality(s) = n
  BY <1>4
<1>6. ASSUME NEW t \in SUBSET s, t # s PROVE t \in P
  <2>1. Cardinality(t) < Cardinality(s)
    BY <1>2, <1>5, <1>6, FS_Subset
  <2>2. t \in SUBSET S
    OBVIOUS
  <2>3. Cardinality(t) \in T => n <= Cardinality(t)
    BY <1>4
  <2>4. Cardinality(t) \in Nat /\ n \in Nat
    BY <2>2, <1>2, <1>5
  <2>5. Cardinality(t) \notin T
    BY <2>1, <2>3, <2>4, <1>5
  <2> QED
    BY <2>2, <2>5
<1> QED
  BY <1>5, <1>6

(* D gives the value at x from a function; it looks only at lower ranks.   *)
IsRecursion(D, X, V, rank, N) ==
  /\ N \in Nat /\ rank \in [X -> 0 .. N] /\ V # {}
  /\ D \in [X -> [[X -> V] -> V]]
  /\ \A g, h \in [X -> V], x \in X :
       (\A y \in X : rank[y] < rank[x] => g[y] = h[y]) => D[x][g] = D[x][h]

Follows(f, D, X, V) == f \in [X -> V] /\ \A x \in X : f[x] = D[x][f]

(* A function that follows a recursion over ranks exists.                  *)
LEMMA Recursion ==
  ASSUME NEW D, NEW X, NEW V, NEW rank, NEW N, IsRecursion(D, X, V, rank, N)
  PROVE  \E f : Follows(f, D, X, V)
<1> USE DEF IsRecursion, Follows
<1> DEFINE Upto(f, n) == \A x \in X : rank[x] < n => f[x] = D[x][f]
           P == {n \in Nat : \E f \in [X -> V] : Upto(f, n)}
<1>1. 0 \in P
  <2>1. [x \in X |-> CHOOSE v \in V : TRUE] \in [X -> V]
    OBVIOUS
  <2>2. Upto([x \in X |-> CHOOSE v \in V : TRUE], 0)
    OBVIOUS
  <2> QED
    BY <2>1, <2>2
<1>2. ASSUME NEW n \in Nat, n \in P PROVE n + 1 \in P
  <2>1. PICK f \in [X -> V] : Upto(f, n)
    BY <1>2
  <2> DEFINE g == [x \in X |-> IF rank[x] < n THEN f[x] ELSE D[x][f]]
  <2>2. \A x \in X : D[x][f] \in V
    BY <2>1
  <2>3. g \in [X -> V]
    BY <2>2
  <2>4. ASSUME NEW x \in X, rank[x] < n + 1 PROVE g[x] = D[x][g]
    <3>1. g[x] = D[x][f]
      BY <2>1
    <3>2. \A y \in X : rank[y] < rank[x] => g[y] = f[y]
      BY <2>4
    <3> HIDE DEF g
    <3>3. D[x][g] = D[x][f]
      BY <2>3, <3>2
    <3> QED
      BY <3>1, <3>3
  <2>5. Upto(g, n + 1)
    BY <2>4
  <2> HIDE DEF g, Upto
  <2> QED
    BY <2>3, <2>5
<1>3. N + 1 \in P
  BY <1>1, <1>2, NumbersInduction
<1>4. PICK f \in [X -> V] : Upto(f, N + 1)
  BY <1>3
<1> QED
  BY <1>4

(* The function the definition of SumFunction is about. *)
IsSum(g, f, S) ==
  g = [s \in SUBSET S |->
         IF s = {} THEN 0 ELSE LET x == CHOOSE x \in s : TRUE IN f[x] + g[s \ {x}]]

(* SumFunction evaluates the function its definition chooses.              *)
LEMMA SumByDefinition ==
  ASSUME NEW f, NEW S, \E g : IsSum(g, f, S)
  PROVE  \E g : IsSum(g, f, S) /\ SumFunctionOnSet(f, S) = g[S]
<1> DEFINE G == CHOOSE g : IsSum(g, f, S)
<1>1. SumFunctionOnSet(f, S) = G[S]
  BY Zenon DEF SumFunctionOnSet, FoldFunctionOnSet, MapThenFoldSet, IsSum
<1>2. IsSum(G, f, S)
  BY Zenon
<1> QED
  BY <1>1, <1>2, Zenon

(* There is a function for it to choose.                                   *)
LEMMA SumExists ==
  ASSUME NEW S, IsFiniteSet(S), NEW f \in [S -> Nat]
  PROVE  \E g \in [SUBSET S -> Nat] : IsSum(g, f, S)
<1> DEFINE X == SUBSET S
           rank == [s \in X |-> Cardinality(s)]
           D == [s \in X |-> [g \in [X -> Nat] |->
                  IF s = {} THEN 0 ELSE LET x == CHOOSE x \in s : TRUE IN f[x] + g[s \ {x}]]]
<1>1. \A s \in X : IsFiniteSet(s) /\ Cardinality(s) \in Nat /\ Cardinality(s) <= Cardinality(S)
  BY FS_Subset, FS_CardinalityType
<1>2. rank \in [X -> 0 .. Cardinality(S)] /\ Cardinality(S) \in Nat
  BY <1>1, FS_CardinalityType
<1>3. \A s \in X : s # {} => /\ (CHOOSE x \in s : TRUE) \in s
                             /\ (CHOOSE x \in s : TRUE) \in S
                             /\ s \ {CHOOSE x \in s : TRUE} \in X
  OBVIOUS
<1>4. D \in [X -> [[X -> Nat] -> Nat]]
  BY <1>3
<1>5. ASSUME NEW g \in [X -> Nat], NEW h \in [X -> Nat], NEW s \in X,
             \A t \in X : rank[t] < rank[s] => g[t] = h[t]
      PROVE  D[s][g] = D[s][h]
  <2>1. CASE s = {}
    BY <2>1
  <2>2. CASE s # {}
    <3> DEFINE x == CHOOSE x \in s : TRUE
    <3>1. x \in s /\ s \ {x} \in X
      BY <1>3, <2>2
    <3>2. rank[s \ {x}] < rank[s]
      <4>1. Cardinality(s \ {x}) = Cardinality(s) - 1
        BY <1>1, <3>1, FS_RemoveElement
      <4>2. rank[s \ {x}] = Cardinality(s \ {x}) /\ rank[s] = Cardinality(s)
        BY <3>1
      <4> QED
        BY <4>1, <4>2, <1>1
    <3>3. g[s \ {x}] = h[s \ {x}]
      BY <1>5, <3>1, <3>2
    <3> QED
      BY <3>3, <2>2
  <2> QED
    BY <2>1, <2>2
<1>6. \E g \in [X -> Nat] : \A s \in X : g[s] = D[s][g]
  <2> HIDE DEF X, D, rank
  <2>1. IsRecursion(D, X, Nat, rank, Cardinality(S))
    BY <1>2, <1>4, <1>5 DEF IsRecursion
  <2> QED
    BY <2>1, Recursion DEF Follows
<1>7. PICK g \in [X -> Nat] : \A s \in X : g[s] = D[s][g]
  BY <1>6
<1>8. g = [s \in X |-> D[s][g]]
  BY <1>7
<1> QED
  BY <1>8 DEF IsSum

(* Any element may be added last. *)
AddsUp(g, f, S) ==
  /\ g \in [SUBSET S -> Nat]
  /\ g[{}] = 0
  /\ \A s \in SUBSET S : \A y \in s : g[s] = f[y] + g[s \ {y}]

(* Whatever element the definition takes first, any element may be it.     *)
LEMMA SumOfAny ==
  ASSUME NEW S, IsFiniteSet(S), NEW f \in [S -> Nat], NEW g, IsSum(g, f, S)
  PROVE  AddsUp(g, f, S)
<1>1. \A s \in SUBSET S : s # {} =>
        LET x == CHOOSE x \in s : TRUE IN x \in s /\ g[s] = f[x] + g[s \ {x}]
  BY DEF IsSum
<1>2. g[{}] = 0 /\ DOMAIN g = SUBSET S /\ g = [s \in SUBSET S |-> g[s]]
  BY DEF IsSum
<1> DEFINE P == {s \in SUBSET S : g[s] \in Nat /\ \A y \in s : g[s] = f[y] + g[s \ {y}]}
<1>3. ASSUME NEW s \in SUBSET S, \A t \in SUBSET s : t # s => t \in P
      PROVE  s \in P
  <2>1. CASE s = {}
    BY <2>1, <1>2
  <2>2. CASE s # {}
    <3> DEFINE x == CHOOSE x \in s : TRUE
    <3>1. x \in s /\ x \in S /\ g[s] = f[x] + g[s \ {x}]
      BY <1>1, <2>2
    <3>2. \A z \in s : s \ {z} \in SUBSET s /\ s \ {z} # s
      OBVIOUS
    <3>3. \A z \in s : s \ {z} \in P
      BY <1>3, <3>2
    <3> HIDE DEF x
    <3>4. g[s] \in Nat
      <4>1. g[s \ {x}] \in Nat /\ f[x] \in Nat
        BY <3>1, <3>3
      <4> QED
        BY <4>1, <3>1
    <3>5. ASSUME NEW y \in s PROVE g[s] = f[y] + g[s \ {y}]
      <4>1. CASE y = x
        BY <3>1, <4>1
      <4>2. CASE y # x
        <5>1. g[s \ {x}] = f[y] + g[(s \ {x}) \ {y}]
          BY <3>1, <3>3, <4>2
        <5>2. g[s \ {y}] = f[x] + g[(s \ {y}) \ {x}]
          BY <3>1, <3>3, <4>2
        <5>3. (s \ {x}) \ {y} = (s \ {y}) \ {x}
          OBVIOUS
        <5>4. g[(s \ {y}) \ {x}] \in Nat /\ f[x] \in Nat /\ f[y] \in Nat
          <6>1. (s \ {y}) \ {x} \in SUBSET s /\ (s \ {y}) \ {x} # s
            BY <3>1
          <6> QED
            BY <6>1, <1>3, <3>1
        <5> QED
          BY <3>1, <5>1, <5>2, <5>3, <5>4
      <4> QED
        BY <4>1, <4>2
    <3> QED
      BY <3>4, <3>5
  <2> QED
    BY <2>1, <2>2
<1>4. \A s \in SUBSET S : s \in P
  <2> HIDE DEF P
  <2> QED
    BY <1>3, SubsetInduction
<1> QED
  BY <1>2, <1>4 DEF AddsUp

(* SumFunction in a form that makes no choice.                             *)
LEMMA SumAddsUp ==
  ASSUME NEW S, IsFiniteSet(S), NEW f \in [S -> Nat]
  PROVE  \E g : AddsUp(g, f, S) /\ SumFunction(f) = g[S]
<1>1. PICK g : IsSum(g, f, S) /\ SumFunctionOnSet(f, S) = g[S]
  BY SumExists, SumByDefinition
<1>2. AddsUp(g, f, S)
  BY <1>1, SumOfAny
<1>3. SumFunction(f) = SumFunctionOnSet(f, S)
  BY DEF SumFunction
<1> QED
  BY <1>1, <1>2, <1>3

(* Sums of natural numbers are natural.                                    *)
LEMMA SumIsNatural ==
  ASSUME NEW S, IsFiniteSet(S), NEW f \in [S -> Nat]
  PROVE  /\ SumFunction(f) \in Nat
         /\ S = {} => SumFunction(f) = 0
<1>1. PICK g : AddsUp(g, f, S) /\ SumFunction(f) = g[S]
  BY SumAddsUp
<1>2. g \in [SUBSET S -> Nat] /\ g[{}] = 0
  BY <1>1 DEF AddsUp
<1> QED
  BY <1>1, <1>2

(* An argument that is taken away takes its value from the sum. *)
LEMMA SumRemove ==
  ASSUME NEW S, IsFiniteSet(S), NEW f \in [S -> Nat], NEW y \in S
  PROVE  SumFunction(f) = f[y] + SumFunction([x \in S \ {y} |-> f[x]])
<1> DEFINE R == S \ {y}
           r == [x \in R |-> f[x]]
<1>1. IsFiniteSet(R) /\ r \in [R -> Nat]
  BY FS_RemoveElement
<1>2. PICK g : AddsUp(g, f, S) /\ SumFunction(f) = g[S]
  BY SumAddsUp
<1>3. PICK h : AddsUp(h, r, R) /\ SumFunction(r) = h[R]
  <2> HIDE DEF R, r
  <2> QED
    BY <1>1, SumAddsUp
<1>4. /\ g[{}] = 0
      /\ \A s \in SUBSET S : \A z \in s : g[s] = f[z] + g[s \ {z}]
  BY <1>2 DEF AddsUp
<1>5. /\ h[{}] = 0
      /\ \A s \in SUBSET R : \A z \in s : h[s] = r[z] + h[s \ {z}]
  BY <1>3 DEF AddsUp
<1> DEFINE P == {s \in SUBSET R : g[s] = h[s]}
<1>6. ASSUME NEW s \in SUBSET R, \A t \in SUBSET s : t # s => t \in P
      PROVE  s \in P
  <2>1. CASE s = {}
    BY <2>1, <1>4, <1>5
  <2>2. CASE s # {}
    <3>1. PICK z \in s : TRUE
      BY <2>2
    <3>2. s \ {z} \in P
      BY <1>6, <3>1
    <3>3. g[s] = f[z] + g[s \ {z}] /\ h[s] = r[z] + h[s \ {z}]
      BY <1>4, <1>5
    <3>4. r[z] = f[z]
      OBVIOUS
    <3> QED
      BY <3>2, <3>3, <3>4
  <2> QED
    BY <2>1, <2>2
<1>7. R \in P
  <2> HIDE DEF P
  <2>1. \A s \in SUBSET R : s \in P
    <3> HIDE DEF R
    <3> QED
      BY <1>1, <1>6, SubsetInduction
  <2> QED
    BY <2>1
<1>8. g[S] = f[y] + g[R]
  BY <1>4
<1> QED
  BY <1>2, <1>3, <1>7, <1>8

(* A value that changes changes the sum by as much. *)
LEMMA SumUpdate ==
  ASSUME NEW S, IsFiniteSet(S), NEW f \in [S -> Nat], NEW g \in [S -> Nat], NEW y \in S,
         \A x \in S \ {y} : g[x] = f[x]
  PROVE  SumFunction(g) + f[y] = SumFunction(f) + g[y]
<1> DEFINE r == [x \in S \ {y} |-> f[x]]
<1>1. r = [x \in S \ {y} |-> g[x]]
  OBVIOUS
<1>2. SumFunction(f) = f[y] + SumFunction(r)
  BY SumRemove
<1>3. SumFunction(g) = g[y] + SumFunction(r)
  <2> HIDE DEF r
  <2> QED
    BY <1>1, SumRemove
<1>4. SumFunction(r) \in Nat
  <2>1. IsFiniteSet(S \ {y}) /\ r \in [S \ {y} -> Nat]
    BY FS_RemoveElement
  <2> HIDE DEF r
  <2> QED
    BY <2>1, SumIsNatural
<1> HIDE DEF r
<1> QED
  BY <1>2, <1>3, <1>4

(* No value is more than the sum. *)
LEMMA SumIsAtLeast ==
  ASSUME NEW S, IsFiniteSet(S), NEW f \in [S -> Nat], NEW y \in S
  PROVE  f[y] <= SumFunction(f)
<1> DEFINE r == [x \in S \ {y} |-> f[x]]
<1>1. SumFunction(f) = f[y] + SumFunction(r)
  BY SumRemove
<1>2. IsFiniteSet(S \ {y}) /\ r \in [S \ {y} -> Nat]
  BY FS_RemoveElement
<1>3. SumFunction(r) \in Nat
  <2> HIDE DEF r
  <2> QED
    BY <1>2, SumIsNatural
<1> HIDE DEF r
<1> QED
  BY <1>1, <1>3

(* Quotient and remainder.                                                 *)
LEMMA DivMod ==
  ASSUME NEW m \in Nat \ {0}, NEW n \in Nat
  PROVE  n = m * (n \div m) + (n % m) /\ n % m \in 0 .. m - 1 /\ n \div m \in Nat
<1>1. n % m \in 0 .. m - 1
  OBVIOUS
<1>2. n = m * (n \div m) + (n % m)
  OBVIOUS
<1>3. n \div m \in Nat
  <2> DEFINE q == n \div m
  <2>1. q \in Int /\ n = m * q + (n % m) /\ n % m \in 0 .. m - 1
    BY <1>1, <1>2
  <2> HIDE DEF q
  <2>2. CASE q < 0
    <3>1. -q \in Nat /\ -q >= 1
      BY <2>1, <2>2
    <3>2. m * (-q) >= m
      BY <3>1
    <3>3. m * q = -(m * (-q))
      BY <2>1
    <3> QED
      BY <2>1, <3>2, <3>3
  <2> QED
    BY <2>1, <2>2 DEF q
<1> QED
  BY <1>1, <1>2, <1>3

(* The remainder is the only one. *)
LEMMA RemainderIsUnique ==
  ASSUME NEW m \in Nat \ {0}, NEW k \in Nat, NEW s \in 0 .. m - 1
  PROVE  (m * k + s) % m = s /\ (m * k + s) \div m = k
<1> DEFINE n == m * k + s
           j == n \div m
           r == n % m
<1>1. m * k \in Nat /\ n \in Nat
  OBVIOUS
<1>2. j \in Nat /\ r \in 0 .. m - 1 /\ n = m * j + r
  BY <1>1
<1> HIDE DEF j, r
<1>3. m * j + r = m * k + s
  BY <1>2
<1>4. m * (j - k) = s - r
  BY <1>2, <1>3
<1>5. CASE j > k
  <2>1. j - k \in Nat /\ j - k >= 1
    BY <1>2, <1>5
  <2>2. m * (j - k) >= m
    BY <2>1
  <2> QED
    BY <2>2, <1>2, <1>4
<1>6. CASE j < k
  <2>1. k - j \in Nat /\ k - j >= 1
    BY <1>2, <1>6
  <2>2. m * (k - j) >= m
    BY <2>1
  <2>3. m * (k - j) = r - s
    BY <1>2, <1>4
  <2> QED
    BY <2>2, <2>3, <1>2
<1>7. CASE j = k
  BY <1>2, <1>3, <1>7 DEF j, r
<1> QED
  BY <1>2, <1>5, <1>6, <1>7

(* Addition modulo m loses nothing but multiples of m. *)
LEMMA AddModulo ==
  ASSUME NEW m \in Nat \ {0}, NEW a \in Nat, NEW b \in Nat
  PROVE  /\ a % m \in 0 .. m - 1
         /\ ((a % m) + b) % m = (a + b) % m
         /\ a < m => a % m = a
<1> DEFINE q == a \div m
           r == a % m
           p == (r + b) \div m
           s == (r + b) % m
<1>1. q \in Nat /\ r \in 0 .. m - 1 /\ a = m * q + r
  OBVIOUS
<1>2. p \in Nat /\ s \in 0 .. m - 1 /\ r + b = m * p + s
  BY <1>1
<1>3. a + b = m * (q + p) + s
  BY <1>1, <1>2
<1>4. (m * (q + p) + s) % m = s
  <2>1. q + p \in Nat
    BY <1>1, <1>2
  <2> HIDE DEF q, p, s
  <2> QED
    BY <2>1, <1>2, RemainderIsUnique
<1> QED
  BY <1>1, <1>3, <1>4

(* Rounding down loses less than one for every summand. *)
LEMMA SumOfQuotients ==
  ASSUME NEW S, IsFiniteSet(S), NEW f \in [S -> Nat], NEW h \in [S -> Nat],
         NEW k \in Nat, NEW m \in Nat \ {0}, \A x \in S : h[x] = (f[x] * k) \div m
  PROVE  /\ m * SumFunction(h) <= k * SumFunction(f)
         /\ k * SumFunction(f) + Cardinality(S) <= m * (SumFunction(h) + Cardinality(S))
<1>1. PICK F : AddsUp(F, f, S) /\ SumFunction(f) = F[S]
  BY SumAddsUp
<1>2. PICK H : AddsUp(H, h, S) /\ SumFunction(h) = H[S]
  BY SumAddsUp
<1>3. \A x \in S : m * h[x] <= k * f[x] /\ k * f[x] + 1 <= m * h[x] + m
  <2> TAKE x \in S
  <2>1. f[x] \in Nat /\ f[x] * k \in Nat /\ h[x] \in Nat
    OBVIOUS
  <2> DEFINE n == f[x] * k
  <2>2. n \in Nat /\ h[x] = n \div m
    BY <2>1
  <2> HIDE DEF n
  <2>3. n = m * (n \div m) + (n % m) /\ n % m \in 0 .. m - 1 /\ n \div m \in Nat
    BY <2>2, DivMod
  <2>4. m * h[x] <= n /\ n + 1 <= m * h[x] + m
    BY <2>2, <2>3
  <2> QED
    BY <2>1, <2>4 DEF n
<1> DEFINE P == {s \in SUBSET S : /\ m * H[s] <= k * F[s]
                                  /\ k * F[s] + Cardinality(s) <= m * H[s] + m * Cardinality(s)}
<1>4. ASSUME NEW s \in SUBSET S, \A t \in SUBSET s : t # s => t \in P
      PROVE  s \in P
  <2>1. CASE s = {}
    <3>1. F[s] = 0 /\ H[s] = 0 /\ Cardinality(s) = 0
      BY <2>1, <1>1, <1>2, FS_EmptySet DEF AddsUp
    <3> QED
      BY <3>1
  <2>2. CASE s # {}
    <3>1. PICK x \in s : TRUE
      BY <2>2
    <3>2. s \ {x} \in P
      BY <1>4, <3>1
    <3>3. F[s] = f[x] + F[s \ {x}] /\ H[s] = h[x] + H[s \ {x}]
      BY <1>1, <1>2 DEF AddsUp
    <3>4. IsFiniteSet(s) /\ Cardinality(s) \in Nat /\ Cardinality(s \ {x}) = Cardinality(s) - 1
      BY FS_Subset, FS_CardinalityType, FS_RemoveElement
    <3> DEFINE a == F[s \ {x}]
               b == H[s \ {x}]
               u == f[x]
               v == h[x]
               n == Cardinality(s)
    <3>5. a \in Nat /\ b \in Nat /\ u \in Nat /\ v \in Nat /\ n \in Nat
      BY <3>4, <1>1, <1>2 DEF AddsUp
    <3>6. m * b <= k * a /\ k * a + (n - 1) <= m * b + m * (n - 1)
      BY <3>2, <3>4
    <3>7. m * v <= k * u /\ k * u + 1 <= m * v + m
      BY <1>3
    <3>8. F[s] = u + a /\ H[s] = v + b
      BY <3>3
    <3> HIDE DEF a, b, u, v, n
    <3>9. /\ m * (v + b) = m * v + m * b /\ k * (u + a) = k * u + k * a
          /\ m * (n - 1) = m * n - m
      BY <3>5
    <3>10. m * v \in Nat /\ m * b \in Nat /\ k * u \in Nat /\ k * a \in Nat /\ m * n \in Nat
      BY <3>5
    <3>11. m * (v + b) <= k * (u + a) /\ k * (u + a) + n <= m * (v + b) + m * n
      BY <3>5, <3>6, <3>7, <3>9, <3>10
    <3> QED
      BY <3>8, <3>11 DEF n
  <2> QED
    BY <2>1, <2>2
<1>5. S \in P
  <2> HIDE DEF P
  <2>1. \A s \in SUBSET S : s \in P
    BY <1>4, SubsetInduction
  <2> QED
    BY <2>1
<1>6. H[S] \in Nat /\ F[S] \in Nat /\ Cardinality(S) \in Nat
  BY <1>1, <1>2, FS_CardinalityType DEF AddsUp
<1>7. m * (H[S] + Cardinality(S)) = m * H[S] + m * Cardinality(S)
  BY <1>6
<1> QED
  BY <1>1, <1>2, <1>5, <1>7

(* A sum of zeros is zero.                                                 *)
LEMMA SumOfZeros ==
  ASSUME NEW S, IsFiniteSet(S), NEW f \in [S -> {0}]
  PROVE  SumFunction(f) = 0
<1>1. f \in [S -> Nat] /\ \A x \in S : f[x] = (f[x] * 0) \div 1
  OBVIOUS
<1>2. 1 * SumFunction(f) <= 0 * SumFunction(f)
  BY <1>1, SumOfQuotients
<1> QED
  BY <1>1, <1>2, SumIsNatural

-----------------------------------------------------------------------------
(* The ballots the voting functions build are legal, and legal ballots are *)
(* vectors of natural numbers.                                             *)

(* A legal ballot gives a natural number of points to every choice.        *)
LEMMA LegalAreBallots == LegalBallots \subseteq Ballots
<1> USE DEF Ballots
<1>1. SingleBallots \subseteq Ballots
  <2>1. {1} \union {w \in Weights : w > 0} \union {0} \subseteq Nat
    <3>1. \A w \in Weights : w > 0 => w \in Nat
      BY WeightsAssumption
    <3>2. 0 \in Nat /\ 1 \in Nat
      OBVIOUS
    <3> QED
      BY <3>1, <3>2, Zenon
  <2>2. SingleBallots \subseteq
          [ChoiceIndices -> {1} \union {w \in Weights : w > 0} \union {0}]
    BY Zenon DEF SingleBallots
  <2> QED
    BY <2>1, <2>2
<1>2. RankedBallots \subseteq Ballots
  BY DEF RankedBallots
<1>3. ApprovalBallots \subseteq Ballots
  BY DEF ApprovalBallots
<1> QED
  BY <1>1, <1>2, <1>3 DEF LegalBallots

(* What vote and voteWeighted add is a legal ballot.                       *)
LEMMA SingleIsLegal ==
  ASSUME NEW i \in ChoiceIndices,
         NEW w \in {1} \union {v \in Weights : v > 0}
  PROVE  Single(i, w) \in LegalBallots
<1> DEFINE b == Single(i, w)
<1>1. w # 0
  BY WeightsAssumption
<1>2. {c \in ChoiceIndices : b[c] # 0} = {i}
  BY <1>1 DEF Single
<1>3. Cardinality({c \in ChoiceIndices : b[c] # 0}) = 1
  BY <1>2, FS_Singleton
<1>4. b \in [ChoiceIndices -> {1} \union {v \in Weights : v > 0} \union {0}]
  BY DEF Single
<1> QED
  BY <1>3, <1>4 DEF LegalBallots, SingleBallots

(* The selections callers pass are finite sequences of indices.            *)
LEMMA SelectionIsSequence ==
  ASSUME NEW s \in Selections, ValidSelection(s)
  PROVE  /\ s \in Seq(ChoiceIndices)
         /\ Len(s) \in 1 .. NumChoices
         /\ \A j, k \in 1 .. Len(s) : s[j] = s[k] => j = k
<1>1. PICK n \in 0 .. NumChoices : s \in [1 .. n -> Indices]
  BY DEF Selections, BoundedSeq, SeqOf
<1>2. s \in Seq(Indices) /\ Len(s) = n /\ DOMAIN s = 1 .. n
  BY <1>1
<1>3. s \in [1 .. n -> ChoiceIndices]
  BY <1>1, <1>2 DEF ValidSelection
<1>4. Len(s) # 0
  BY <1>2 DEF ValidSelection
<1> QED
  BY <1>2, <1>3, <1>4, NumChoicesAssumption DEF ValidSelection, IsInjective

(* What voteApproval adds for a valid selection is a legal ballot.         *)
LEMMA ApprovalIsLegal ==
  ASSUME NEW a \in Selections, ValidSelection(a)
  PROVE  ApprovalPoints(a) \in LegalBallots
<1>1. a \in Seq(ChoiceIndices) /\ Len(a) \in 1 .. NumChoices
  BY SelectionIsSequence
<1>2. a[1] \in ChoiceIndices /\ 1 \in DOMAIN a
  BY <1>1
<1>3. ApprovalPoints(a) \in [ChoiceIndices -> {0, 1}]
  BY DEF ApprovalPoints
<1>4. ApprovalPoints(a)[a[1]] = 1
  BY <1>2 DEF ApprovalPoints
<1> QED
  BY <1>2, <1>3, <1>4 DEF LegalBallots, ApprovalBallots

(* What voteRanked adds for a valid selection is a legal ballot: the       *)
(* points are 1 to the number of ranked choices, each once.                *)
LEMMA RankedIsLegal ==
  ASSUME NEW r \in Selections, ValidSelection(r)
  PROVE  RankPoints(r) \in LegalBallots
<1> DEFINE n == Len(r)
           b == RankPoints(r)
           ranked == {c \in ChoiceIndices : b[c] # 0}
<1>1. /\ r \in Seq(ChoiceIndices)
      /\ n \in 1 .. NumChoices
      /\ \A j, k \in 1 .. n : r[j] = r[k] => j = k
  BY SelectionIsSequence
<1>2. DOMAIN r = 1 .. n /\ \A k \in 1 .. n : r[k] \in ChoiceIndices
  BY <1>1
<1>3. \A k \in 1 .. n : b[r[k]] = n + 1 - k
  <2> TAKE k \in 1 .. n
  <2>1. (CHOOSE j \in DOMAIN r : r[j] = r[k]) = k
    BY <1>1, <1>2
  <2> QED
    BY <2>1, <1>2 DEF RankPoints
<1>4. \A c \in ChoiceIndices : c \notin {r[k] : k \in 1 .. n} => b[c] = 0
  BY <1>2 DEF RankPoints
<1>5. ranked = {r[k] : k \in 1 .. n}
  BY <1>1, <1>2, <1>3, <1>4
<1>6. Cardinality(ranked) = n
  <2>1. r \in [1 .. n -> ranked]
    BY <1>1, <1>2, <1>5
  <2>2. r \in Surjection(1 .. n, ranked)
    BY <2>1, <1>5 DEF Surjection
  <2>3. r \in Injection(1 .. n, ranked)
    BY <2>1, <1>1 DEF Injection, IsInjective
  <2>4. IsFiniteSet(1 .. n) /\ Cardinality(1 .. n) = n
    BY <1>1, FS_Interval
  <2> QED
    BY <2>2, <2>3, <2>4, FS_Surjection
<1>7. {b[c] : c \in ranked} = 1 .. n
  <2>1. \A c \in ranked : b[c] \in 1 .. n
    BY <1>1, <1>3, <1>5
  <2>2. ASSUME NEW p \in 1 .. n
        PROVE  \E c \in ranked : b[c] = p
    <3>1. n + 1 - p \in 1 .. n /\ b[r[n + 1 - p]] = n + 1 - (n + 1 - p)
      BY <1>1, <1>3
    <3> QED
      BY <3>1, <1>1, <1>5
  <2> QED
    BY <2>1, <2>2
<1>8. b \in [ChoiceIndices -> 0 .. NumChoices]
  <2>1. \A k \in 1 .. n : b[r[k]] \in 0 .. NumChoices
    BY <1>1, <1>3, NumChoicesAssumption
  <2>2. \A c \in ChoiceIndices : b[c] \in 0 .. NumChoices
    BY <2>1, <1>4, NumChoicesAssumption
  <2> QED
    BY <2>2 DEF RankPoints
<1>9. ranked # {}
  BY <1>1, <1>5
<1>10. b \in RankedBallots
  BY <1>6, <1>7, <1>8, <1>9 DEF RankedBallots
<1> QED
  BY <1>10 DEF LegalBallots
-----------------------------------------------------------------------------
(* A ballot is broken off half-way.                                        *)
Broken ==
  \E m \in Members, b \in LegalBallots, s \in Selections, k \in Nat : BreakOff(m, b, s, k)

(* What a step does, with the arguments of the voting functions forgotten. *)
LEMMA StepKinds ==
  ASSUME Next
  PROVE  \/ \E m \in Members, b \in LegalBallots : CastBallot(m, b)
         \/ Broken
         \/ \E m \in Members : CallGenerateEncryptedReceipt(m)
         \/ Close
<1>1. ASSUME NEW m \in Members, NEW i \in Indices, Vote(m, i)
      PROVE  \E b \in LegalBallots : CastBallot(m, b)
  <2>1. i \in ChoiceIndices /\ CastBallot(m, Single(i, 1))
    BY <1>1 DEF Vote
  <2> QED
    BY <2>1, SingleIsLegal
<1>2. ASSUME NEW m \in Members, NEW i \in Indices, NEW w \in Weights,
             VoteWeighted(m, i, w)
      PROVE  \E b \in LegalBallots : CastBallot(m, b)
  <2>1. i \in ChoiceIndices /\ w > 0 /\ CastBallot(m, Single(i, w))
    BY <1>2 DEF VoteWeighted
  <2> QED
    BY <2>1, SingleIsLegal
<1>3. ASSUME NEW m \in Members, NEW r \in Selections, VoteRanked(m, r)
      PROVE  \E b \in LegalBallots : CastBallot(m, b) \/ \E k \in Nat : BreakOff(m, b, r, k)
  <2>1. 1 .. Len(r) - 1 \subseteq Nat
    BY <1>3, SelectionIsSequence DEF VoteRanked
  <2> QED
    BY <1>3, <2>1, RankedIsLegal DEF VoteRanked
<1>4. ASSUME NEW m \in Members, NEW a \in Selections, VoteApproval(m, a)
      PROVE  \E b \in LegalBallots : CastBallot(m, b) \/ \E k \in Nat : BreakOff(m, b, a, k)
  <2>1. 1 .. Len(a) - 1 \subseteq Nat
    BY <1>4, SelectionIsSequence DEF VoteApproval
  <2> QED
    BY <1>4, <2>1, ApprovalIsLegal DEF VoteApproval
<1> QED
  BY <1>1, <1>2, <1>3, <1>4 DEF Next, Broken

-----------------------------------------------------------------------------
(* Type correctness: tallies stay below n, the stored receipts are among   *)
(* those issued, the ledger holds ballots (poll.ts as a whole).            *)
THEOREM TypeCorrect == Spec => []TypeOK
<1>1. Init => TypeOK
  <2> SUFFICES ASSUME Init
               PROVE  TypeOK
    OBVIOUS
  <2>1. votes \in [ChoiceIndices -> Plaintexts]
    BY ModulusAssumption DEF Init, Plaintexts
  <2>2. issued \in Seq(Ids) /\ receipts \in [Ids -> 0 .. Len(issued)]
    BY DEF Init, NoReceipt
  <2>3. <<>> \in Seq(Ballots)
    OBVIOUS
  <2>4. ledger \in [Ids -> Seq(Ballots)]
    BY <2>3 DEF Init
  <2> QED
    BY <2>1, <2>2, <2>4 DEF TypeOK, Init
<1>2. TypeOK /\ [Next]_vars => TypeOK'
  <2> SUFFICES ASSUME TypeOK, [Next]_vars
               PROVE  TypeOK'
    OBVIOUS
  <2>1. CASE \E m \in Members, b \in LegalBallots : CastBallot(m, b)
    <3> PICK m \in Members, b \in LegalBallots : CastBallot(m, b)
      BY <2>1
    <3>1. IdOf[m] \in Ids /\ b \in Ballots
      BY IdOfAssumption, LegalAreBallots
    <3>2. votes' \in [ChoiceIndices -> Plaintexts]
      BY <3>1, ModulusAssumption
      DEF TypeOK, CastBallot, AddBallot, Plaintexts, Ballots
    <3>3. ledger' \in [Ids -> Seq(Ballots)]
      BY <3>1 DEF TypeOK, CastBallot
    <3>4. receipts' \in [Ids -> 0 .. Len(issued')] /\ issued' \in Seq(Ids)
      <4>1. CASE GenerateEncryptedReceipt(m)
        BY <4>1, <3>1 DEF TypeOK, GenerateEncryptedReceipt
      <4>2. CASE UNCHANGED <<receipts, issued>>
        BY <4>2 DEF TypeOK
      <4> QED
        BY <4>1, <4>2 DEF CastBallot
    <3> QED
      BY <3>2, <3>3, <3>4 DEF TypeOK, CastBallot
  <2>2. CASE \E m \in Members : CallGenerateEncryptedReceipt(m)
    BY <2>2, IdOfAssumption
    DEF TypeOK, CallGenerateEncryptedReceipt, GenerateEncryptedReceipt
  <2>3. CASE Close
    BY <2>3 DEF TypeOK, Close
  <2>4. CASE UNCHANGED vars
    BY <2>4 DEF TypeOK, vars
  <2>5. CASE Broken
    <3> PICK m \in Members, b \in LegalBallots, s \in Selections, k \in Nat : BreakOff(m, b, s, k)
      BY <2>5 DEF Broken
    <3> DEFINE part == [c \in ChoiceIndices |-> IF \E j \in 1 .. k : s[j] = c THEN b[c] ELSE 0]
    <3>1. IdOf[m] \in Ids /\ part \in Ballots
      BY IdOfAssumption, LegalAreBallots DEF Ballots
    <3>2. /\ votes' = AddBallot(part)
          /\ ledger' = [ledger EXCEPT ![IdOf[m]] = Append(@, part)]
          /\ UNCHANGED <<receipts, closed, issued>>
      BY DEF BreakOff
    <3> HIDE DEF part
    <3>3. votes' \in [ChoiceIndices -> Plaintexts]
      BY <3>1, <3>2, ModulusAssumption DEF TypeOK, AddBallot, Plaintexts, Ballots
    <3>4. ledger' \in [Ids -> Seq(Ballots)]
      BY <3>1, <3>2 DEF TypeOK
    <3> QED
      BY <3>2, <3>3, <3>4 DEF TypeOK
  <2> QED
    BY <2>1, <2>2, <2>3, <2>4, <2>5, StepKinds
<1> QED
  BY <1>1, <1>2, PTL DEF Spec
-----------------------------------------------------------------------------
(* Double-vote prevention needs the receipts: what is inductive is that an *)
(* identity with a ballot in the ledger holds a receipt, so the            *)
(* already-voted guard stops the next one.  It is true only as long as the *)
(* receipt follows the tallies without fail.                               *)
CountedHasReceipt == \A id \in Ids : ledger[id] # <<>> => receipts[id] # NoReceipt

OneBallotInv == TypeOK /\ CountedHasReceipt /\ OneBallotPerId

(* Without failing receipts, a ballot in the tallies always has a receipt. *)
LEMMA OneBallotInvInductive ==
  ASSUME ~ReceiptsMayFail, OneBallotInv, [Next]_vars
  PROVE  CountedHasReceipt' /\ OneBallotPerId'
<1> USE DEF OneBallotInv
<1>1. CASE \E m \in Members, b \in LegalBallots : CastBallot(m, b)
  <2> PICK m \in Members, b \in LegalBallots : CastBallot(m, b)
    BY <1>1
  <2>1. IdOf[m] \in Ids /\ b \in Ballots
    BY IdOfAssumption, LegalAreBallots
  <2>2. GenerateEncryptedReceipt(m)
    BY DEF CastBallot
  <2>3. receipts[IdOf[m]] = NoReceipt /\ ledger[IdOf[m]] = <<>>
    BY <2>1 DEF CastBallot, MemberVoted, CountedHasReceipt
  <2>4. ledger' = [ledger EXCEPT ![IdOf[m]] = <<b>>]
    BY <2>1, <2>3 DEF CastBallot
  <2>5. receipts' = [receipts EXCEPT ![IdOf[m]] = Len(issued) + 1]
    BY <2>2 DEF GenerateEncryptedReceipt
  <2>6. Len(issued) + 1 # NoReceipt
    BY DEF TypeOK, NoReceipt
  <2>7. CountedHasReceipt'
    BY <2>1, <2>4, <2>5, <2>6 DEF CountedHasReceipt, TypeOK
  <2>8. Len(<<b>>) = 1
    OBVIOUS
  <2>9. OneBallotPerId'
    BY <2>1, <2>4, <2>8 DEF OneBallotPerId, TypeOK
  <2> QED
    BY <2>7, <2>9
<1>2. CASE \E m \in Members : CallGenerateEncryptedReceipt(m)
  <2> PICK m \in Members : CallGenerateEncryptedReceipt(m)
    BY <1>2
  <2>1. Len(issued) + 1 # NoReceipt
    BY DEF TypeOK, NoReceipt
  <2>2. receipts' = [receipts EXCEPT ![IdOf[m]] = Len(issued) + 1] /\ ledger' = ledger
    BY DEF CallGenerateEncryptedReceipt, GenerateEncryptedReceipt
  <2> QED
    BY <2>1, <2>2, IdOfAssumption DEF TypeOK, CountedHasReceipt, OneBallotPerId
<1>3. CASE Close
  BY <1>3 DEF Close, CountedHasReceipt, OneBallotPerId
<1>4. CASE UNCHANGED vars
  BY <1>4 DEF vars, CountedHasReceipt, OneBallotPerId
<1> QED
  BY <1>1, <1>2, <1>3, <1>4, StepKinds DEF Broken, BreakOff

(* Every reachable state satisfies OneBallotInv when receipts do not fail. *)
LEMMA OneBallotInvariant == ASSUME ~ReceiptsMayFail PROVE Spec => []OneBallotInv
<1>1. Init => CountedHasReceipt /\ OneBallotPerId
  BY DEF Init, CountedHasReceipt, OneBallotPerId
<1>2. TypeOK /\ CountedHasReceipt /\ OneBallotPerId /\ [Next]_vars
        => (CountedHasReceipt /\ OneBallotPerId)'
  BY OneBallotInvInductive DEF OneBallotInv
<1> QED
  BY <1>1, <1>2, TypeCorrect, PTL DEF Spec, OneBallotInv

(* Double-vote prevention (poll.ts memberVoted and the guard of the four   *)
(* voting functions): without failing receipts no identity ever has two    *)
(* ballots in the tallies, through any number of Member objects.           *)
THEOREM DoubleVotePrevented ==
  ASSUME ~ReceiptsMayFail
  PROVE  Spec => []OneBallotPerId
<1>1. OneBallotInv => OneBallotPerId
  BY DEF OneBallotInv
<1> QED
  BY <1>1, OneBallotInvariant, PTL

-----------------------------------------------------------------------------
(* The poll implements the ballot box as long as no receipt fails: every   *)
(* step is one legal ballot for an identity that had none, the sealing of  *)
(* the box, or invisible to it.                                            *)
THEOREM PollImplementsBallotBox ==
  ASSUME ~ReceiptsMayFail
  PROVE  Spec => ImplementsBallotBox
<1> DEFINE seen == [id \in Ids |-> IF ledger[id] = <<>> THEN <<>> ELSE ledger[id][1]]
<1>1. Init => Box!Init
  BY DEF Init, Box!Init
<1>2. OneBallotInv /\ [Next]_vars => [Box!Next]_(Box!vars)
  <2> SUFFICES ASSUME OneBallotInv, [Next]_vars
               PROVE  [Box!Next]_(Box!vars)
    OBVIOUS
  <2>1. CASE \E m \in Members, b \in LegalBallots : CastBallot(m, b)
    <3> PICK m \in Members, b \in LegalBallots : CastBallot(m, b)
      BY <2>1
    <3> DEFINE id == IdOf[m]
    <3>1. id \in Ids /\ b \in Ballots
      BY IdOfAssumption, LegalAreBallots
    <3>2. ledger[id] = <<>>
      BY <3>1 DEF CastBallot, MemberVoted, OneBallotInv, CountedHasReceipt
    <3>3. ledger' = [ledger EXCEPT ![id] = <<b>>]
      BY <3>1, <3>2 DEF CastBallot
    <3>4. <<b>> # <<>> /\ <<b>>[1] = b
      OBVIOUS
    <3>5. seen' = [seen EXCEPT ![id] = b]
      BY <3>1, <3>3, <3>4 DEF OneBallotInv, TypeOK
    <3>6. ~closed /\ closed' = closed /\ seen[id] = <<>>
      BY <3>1, <3>2 DEF CastBallot
    <3>7. Box!Cast(id, b)
      BY <3>5, <3>6 DEF Box!Cast
    <3> QED
      BY <3>1, <3>7 DEF Box!Next
  <2>2. CASE \E m \in Members : CallGenerateEncryptedReceipt(m)
    BY <2>2 DEF CallGenerateEncryptedReceipt, Box!vars
  <2>3. CASE Close
    BY <2>3 DEF Close, Box!Next, Box!Seal
  <2>4. CASE UNCHANGED vars
    BY <2>4 DEF vars, Box!vars
  <2> QED
    BY <2>1, <2>2, <2>3, <2>4, StepKinds DEF Broken, BreakOff
<1> QED
  BY <1>1, <1>2, OneBallotInvariant, PTL DEF Spec, Box!Spec, ImplementsBallotBox
-----------------------------------------------------------------------------
(* In every mode the stored receipt of an identity is the last one issued  *)
(* to it; an identity with none stored was issued none.                    *)
StoredIsLast ==
  \A id \in Ids :
    /\ receipts[id] # NoReceipt =>
         /\ issued[receipts[id]] = id
         /\ \A j \in receipts[id] + 1 .. Len(issued) : issued[j] # id
    /\ receipts[id] = NoReceipt => \A j \in 1 .. Len(issued) : issued[j] # id

(* Issuing a receipt makes it the last one of its identity and the stored  *)
(* one.                                                                    *)
LEMMA IssuingKeepsStoredIsLast ==
  ASSUME TypeOK, StoredIsLast,
         NEW m \in Members, GenerateEncryptedReceipt(m)
  PROVE  StoredIsLast'
<1> DEFINE new == IdOf[m]
           n   == Len(issued)
<1>1. new \in Ids /\ n \in Nat
  BY IdOfAssumption DEF TypeOK
<1>2. /\ issued' \in Seq(Ids)
      /\ Len(issued') = n + 1
      /\ issued'[n + 1] = new
      /\ \A j \in 1 .. n : issued'[j] = issued[j]
  BY <1>1 DEF TypeOK, GenerateEncryptedReceipt
<1>3. receipts' = [receipts EXCEPT ![new] = n + 1]
  BY DEF GenerateEncryptedReceipt
<1>4. ASSUME NEW id \in Ids
      PROVE  /\ receipts'[id] # NoReceipt =>
                  /\ issued'[receipts'[id]] = id
                  /\ \A j \in receipts'[id] + 1 .. Len(issued') : issued'[j] # id
             /\ receipts'[id] = NoReceipt =>
                  \A j \in 1 .. Len(issued') : issued'[j] # id
  <2>1. CASE id = new
    BY <2>1, <1>1, <1>2, <1>3 DEF TypeOK, NoReceipt
  <2>2. CASE id # new
    <3>1. receipts'[id] = receipts[id] /\ receipts[id] \in 0 .. n
      BY <2>2, <1>1, <1>3 DEF TypeOK
    <3>2. ASSUME receipts[id] # NoReceipt, NEW j \in receipts[id] + 1 .. n + 1
          PROVE  issued'[j] # id
      <4>1. j = n + 1 \/ (j \in receipts[id] + 1 .. n /\ j \in 1 .. n)
        BY <1>1, <3>1
      <4> QED
        BY <4>1, <3>2, <2>2, <1>2 DEF StoredIsLast
    <3>3. receipts[id] # NoReceipt => issued'[receipts[id]] = id
      <4>1. receipts[id] # NoReceipt => receipts[id] \in 1 .. n
        BY <1>1, <3>1 DEF NoReceipt
      <4> QED
        BY <4>1, <1>2 DEF StoredIsLast
    <3>4. ASSUME receipts[id] = NoReceipt, NEW j \in 1 .. n + 1
          PROVE  issued'[j] # id
      <4>1. j = n + 1 \/ j \in 1 .. n
        BY <1>1
      <4> QED
        BY <4>1, <3>4, <2>2, <1>2 DEF StoredIsLast
    <3> QED
      BY <3>1, <3>2, <3>3, <3>4, <1>2
  <2> QED
    BY <2>1, <2>2
<1> QED
  BY <1>4 DEF StoredIsLast

(* In every reachable state the stored receipt is the last one issued.     *)
LEMMA StoredIsLastInvariant == Spec => []StoredIsLast
<1>1. Init => StoredIsLast
  BY DEF Init, StoredIsLast, NoReceipt
<1>2. TypeOK /\ StoredIsLast /\ [Next]_vars => StoredIsLast'
  <2> SUFFICES ASSUME TypeOK, StoredIsLast, [Next]_vars
               PROVE  StoredIsLast'
    OBVIOUS
  <2>1. CASE UNCHANGED <<receipts, issued>>
    BY <2>1 DEF StoredIsLast
  <2>2. CASE \E m \in Members : GenerateEncryptedReceipt(m)
    BY <2>2, IssuingKeepsStoredIsLast
  <2> QED
    BY <2>1, <2>2, StepKinds
    DEF CastBallot, Broken, BreakOff, CallGenerateEncryptedReceipt, Close, vars
<1> QED
  BY <1>1, <1>2, TypeCorrect, PTL DEF Spec

(* verifyReceipt accepts exactly the most recent receipt of an identity,   *)
(* from whichever Member object presents it, whatever fails or is called.  *)
THEOREM LatestReceiptAlwaysVerifies == Spec => []LatestReceiptVerifies
<1>1. TypeOK /\ StoredIsLast => LatestReceiptVerifies
  <2> SUFFICES ASSUME TypeOK, StoredIsLast,
                      NEW k \in DOMAIN issued, NEW m \in Members
               PROVE  VerifyReceipt(m, k) <=>
                        /\ issued[k] = IdOf[m]
                        /\ \A j \in k + 1 .. Len(issued) : issued[j] # IdOf[m]
    BY DEF LatestReceiptVerifies
  <2> DEFINE id == IdOf[m]
  <2>1. /\ id \in Ids
        /\ k \in 1 .. Len(issued)
        /\ Len(issued) \in Nat
        /\ receipts[id] \in 0 .. Len(issued)
    BY IdOfAssumption DEF TypeOK
  <2>2. ASSUME VerifyReceipt(m, k)
        PROVE  /\ issued[k] = id
               /\ \A j \in k + 1 .. Len(issued) : issued[j] # id
    BY <2>1, <2>2 DEF VerifyReceipt, MemberVoted, StoredIsLast
  <2>3. ASSUME issued[k] = id, \A j \in k + 1 .. Len(issued) : issued[j] # id
        PROVE  VerifyReceipt(m, k)
    <3>1. receipts[id] # NoReceipt
      BY <2>1, <2>3 DEF StoredIsLast
    <3> DEFINE r == receipts[id]
    <3>2. issued[r] = id /\ \A j \in r + 1 .. Len(issued) : issued[j] # id
      BY <2>1, <3>1 DEF StoredIsLast
    <3>3. r \in 1 .. Len(issued)
      BY <2>1, <3>1 DEF NoReceipt
    <3>4. k \notin r + 1 .. Len(issued) /\ r \notin k + 1 .. Len(issued)
      BY <2>3, <3>2
    <3>5. r = k
      BY <2>1, <3>3, <3>4
    <3> QED
      BY <3>1, <3>5 DEF VerifyReceipt, MemberVoted
  <2> QED
    BY <2>2, <2>3
<1> QED
  BY <1>1, TypeCorrect, StoredIsLastInvariant, PTL
-----------------------------------------------------------------------------
(* When every receipt comes from a vote, voterCount is the number of       *)
(* identities whose ballots are in the tallies.                            *)
THEOREM VoterCountIsTrue ==
  ASSUME ~ReceiptsMayFail, ~DirectReceipts
  PROVE  Spec => []VotersAreCounted
<1>1. Init => VotersAreCounted
  BY DEF Init, VotersAreCounted
<1>2. TypeOK /\ VotersAreCounted /\ [Next]_vars => VotersAreCounted'
  <2> SUFFICES ASSUME TypeOK, VotersAreCounted, [Next]_vars
               PROVE  VotersAreCounted'
    OBVIOUS
  <2>1. CASE \E m \in Members, b \in LegalBallots : CastBallot(m, b)
    <3> PICK m \in Members, b \in LegalBallots : CastBallot(m, b)
      BY <2>1
    <3>1. IdOf[m] \in Ids /\ b \in Ballots
      BY IdOfAssumption, LegalAreBallots
    <3>2. receipts' = [receipts EXCEPT ![IdOf[m]] = Len(issued) + 1]
      BY DEF CastBallot, GenerateEncryptedReceipt
    <3>3. Len(issued) + 1 # NoReceipt
      BY DEF TypeOK, NoReceipt
    <3>4. ledger[IdOf[m]] = <<>>
      BY <3>1 DEF CastBallot, MemberVoted, VotersAreCounted
    <3>5. ledger' = [ledger EXCEPT ![IdOf[m]] = <<b>>] /\ <<b>> # <<>>
      BY <3>1, <3>4 DEF CastBallot
    <3> QED
      BY <3>1, <3>2, <3>3, <3>4, <3>5 DEF TypeOK, VotersAreCounted
  <2>2. CASE Close
    BY <2>2 DEF Close, VotersAreCounted
  <2>3. CASE UNCHANGED vars
    BY <2>3 DEF vars, VotersAreCounted
  <2> QED
    BY <2>1, <2>2, <2>3, StepKinds DEF CallGenerateEncryptedReceipt, Broken, BreakOff
<1> QED
  BY <1>1, <1>2, TypeCorrect, PTL DEF Spec

(* In every mode, a closed poll keeps its tallies and ballots, and its     *)
(* voter count moves only by a receipt issued directly to an identity      *)
(* without one (poll.ts:84).                                               *)
THEOREM ClosedResultsAreFinal == Spec => ResultsFinalOnceClosed
<1>1. ASSUME TypeOK, [Next]_vars
      PROVE  [closed =>
                /\ closed' /\ UNCHANGED <<votes, ledger>>
                /\ VoterCount' # VoterCount =>
                     /\ VoterCount' = VoterCount + 1
                     /\ \E m \in Members : ~MemberVoted(m) /\ CallGenerateEncryptedReceipt(m)]_vars
  <2> SUFFICES ASSUME closed
               PROVE  /\ closed' /\ UNCHANGED <<votes, ledger>>
                      /\ VoterCount' # VoterCount =>
                           /\ VoterCount' = VoterCount + 1
                           /\ \E m \in Members : ~MemberVoted(m) /\ CallGenerateEncryptedReceipt(m)
    OBVIOUS
  <2>1. CASE UNCHANGED vars
    <3>1. VoterCount' = VoterCount
      BY <2>1 DEF vars, VoterCount
    <3> QED
      BY <2>1, <3>1 DEF vars
  <2>2. CASE \E m \in Members : CallGenerateEncryptedReceipt(m)
    <3> PICK m \in Members : CallGenerateEncryptedReceipt(m)
      BY <2>2
    <3> DEFINE Voters == {id \in Ids : receipts[id] # NoReceipt}
    <3>1. IdOf[m] \in Ids /\ closed' /\ UNCHANGED <<votes, ledger>>
      BY IdOfAssumption DEF CallGenerateEncryptedReceipt
    <3>2. receipts' = [receipts EXCEPT ![IdOf[m]] = Len(issued) + 1]
      BY DEF CallGenerateEncryptedReceipt, GenerateEncryptedReceipt
    <3>3. Len(issued) + 1 # NoReceipt
      BY DEF TypeOK, NoReceipt
    <3>4. Voters' = Voters \union {IdOf[m]}
      <4>1. \A id \in Ids : receipts'[id] = IF id = IdOf[m] THEN Len(issued) + 1 ELSE receipts[id]
        BY <1>1, <3>2 DEF TypeOK
      <4> QED
        BY <3>1, <3>3, <4>1
    <3>5. IsFiniteSet(Voters)
      BY IdsAssumption, FS_Subset
    <3>6. VoterCount = Cardinality(Voters) /\ VoterCount' = Cardinality(Voters')
      BY DEF VoterCount
    <3>7. CASE MemberVoted(m)
      <4>1. IdOf[m] \in Voters
        BY <3>1, <3>7 DEF MemberVoted
      <4>2. Voters' = Voters
        BY <3>4, <4>1
      <4> QED
        BY <3>1, <3>6, <4>2
    <3>8. CASE ~MemberVoted(m)
      <4>1. IdOf[m] \notin Voters
        BY <3>8 DEF MemberVoted
      <4> HIDE DEF Voters
      <4>2. Cardinality(Voters \union {IdOf[m]}) = Cardinality(Voters) + 1
        BY <3>5, <4>1, FS_AddElement
      <4>3. VoterCount' = VoterCount + 1
        BY <3>4, <3>6, <4>2
      <4>4. \E r \in Members : ~MemberVoted(r) /\ CallGenerateEncryptedReceipt(r)
        <5>1. m \in Members /\ ~MemberVoted(m) /\ CallGenerateEncryptedReceipt(m)
          BY <3>8, Zenon
        <5> QED
          BY <5>1, Zenon
      <4> HIDE DEF Voters
      <4> QED
        BY <3>1, <4>3, <4>4, Zenon
    <3> QED
      BY <3>7, <3>8
  <2> QED
    BY <1>1, <2>1, <2>2, StepKinds DEF CastBallot, Broken, BreakOff, Close
<1> QED
  BY <1>1, TypeCorrect, PTL DEF Spec, ResultsFinalOnceClosed

(* In every mode, holding a receipt ends an identity's voting.             *)
THEOREM ReceiptAlwaysEndsVoting == Spec => ReceiptEndsVoting
<1>1. ASSUME TypeOK, [Next]_vars
      PROVE  [\A id \in Ids : receipts[id] # NoReceipt =>
                receipts'[id] # NoReceipt /\ ledger'[id] = ledger[id]]_vars
  <2>1. CASE \E m \in Members, b \in LegalBallots : CastBallot(m, b)
    <3> PICK m \in Members, b \in LegalBallots : CastBallot(m, b)
      BY <2>1
    <3>1. \A id \in Ids \ {IdOf[m]} :
            receipts'[id] = receipts[id] /\ ledger'[id] = ledger[id]
      BY <1>1 DEF TypeOK, CastBallot, GenerateEncryptedReceipt
    <3>2. receipts[IdOf[m]] = NoReceipt
      BY DEF CastBallot, MemberVoted
    <3> QED
      BY <3>1, <3>2
  <2>2. CASE \E m \in Members : CallGenerateEncryptedReceipt(m)
    <3>1. Len(issued) + 1 # NoReceipt
      BY <1>1 DEF TypeOK, NoReceipt
    <3> QED
      BY <1>1, <2>2, <3>1
      DEF TypeOK, CallGenerateEncryptedReceipt, GenerateEncryptedReceipt
  <2>3. CASE Close
    BY <2>3 DEF Close
  <2>4. CASE UNCHANGED vars
    BY <2>4
  <2>5. CASE Broken
    <3> PICK m \in Members, b \in LegalBallots, s \in Selections, k \in Nat : BreakOff(m, b, s, k)
      BY <2>5 DEF Broken
    <3>1. receipts' = receipts /\ receipts[IdOf[m]] = NoReceipt
      BY DEF BreakOff, MemberVoted
    <3>2. \A id \in Ids \ {IdOf[m]} : ledger'[id] = ledger[id]
      BY <1>1 DEF TypeOK, BreakOff
    <3> QED
      BY <3>1, <3>2
  <2> QED
    BY <1>1, <2>1, <2>2, <2>3, <2>4, <2>5, StepKinds
<1> QED
  BY <1>1, TypeCorrect, PTL DEF Spec, ReceiptEndsVoting

-----------------------------------------------------------------------------
(* The tallies are the ballots: in every mode the points in the ledger and *)
(* the tallies grow by the same ballot.                                    *)

(* The points a ledger gives to a choice. *)
PointsIn(l, c) == SumFunction([id \in Ids |-> SumFunction([k \in DOMAIN l[id] |-> l[id][k][c]])])

(* The points in a list of ballots, and with one ballot more.              *)
LEMMA PointsOfList ==
  ASSUME NEW q \in Seq(Ballots), NEW b \in Ballots, NEW c \in ChoiceIndices
  PROVE  /\ SumFunction([k \in DOMAIN q |-> q[k][c]]) \in Nat
         /\ SumFunction([k \in DOMAIN Append(q, b) |-> Append(q, b)[k][c]])
              = SumFunction([k \in DOMAIN q |-> q[k][c]]) + b[c]
<1> DEFINE n == Len(q)
           f == [k \in DOMAIN q |-> q[k][c]]
           g == [k \in DOMAIN Append(q, b) |-> Append(q, b)[k][c]]
<1>1. n \in Nat /\ DOMAIN q = 1 .. n /\ DOMAIN Append(q, b) = 1 .. n + 1
  OBVIOUS
<1>2. IsFiniteSet(1 .. n) /\ IsFiniteSet(1 .. n + 1)
  BY <1>1, FS_Interval
<1>3. f \in [1 .. n -> Nat]
  <2>1. \A k \in 1 .. n : q[k] \in Ballots
    BY <1>1
  <2> QED
    BY <1>1, <2>1 DEF Ballots
<1>4. g \in [1 .. n + 1 -> Nat] /\ g[n + 1] = b[c] /\ n + 1 \in 1 .. n + 1
  <2>1. \A k \in 1 .. n + 1 : Append(q, b)[k] \in Ballots
    BY <1>1
  <2> QED
    BY <1>1, <2>1 DEF Ballots
<1>5. f = [k \in (1 .. n + 1) \ {n + 1} |-> g[k]]
  <2>1. (1 .. n + 1) \ {n + 1} = 1 .. n
    BY <1>1
  <2>2. \A k \in 1 .. n : Append(q, b)[k] = q[k]
    BY <1>1
  <2> QED
    BY <1>1, <2>1, <2>2
<1> HIDE DEF f, g, n
<1>6. SumFunction(f) \in Nat
  BY <1>2, <1>3, SumIsNatural
<1>7. SumFunction(g) = g[n + 1] + SumFunction(f)
  <2> DEFINE S == 1 .. n + 1
             y == n + 1
  <2>1. IsFiniteSet(S) /\ g \in [S -> Nat] /\ y \in S /\ f = [k \in S \ {y} |-> g[k]]
    BY <1>2, <1>4, <1>5
  <2> HIDE DEF S, y
  <2>2. SumFunction(g) = g[y] + SumFunction([k \in S \ {y} |-> g[k]])
    BY <2>1, SumRemove
  <2> QED
    BY <2>1, <2>2 DEF y
<1>8. b[c] \in Nat
  BY DEF Ballots
<1>9. SumFunction(g) = SumFunction(f) + b[c]
  BY <1>4, <1>6, <1>7, <1>8
<1> QED
  BY <1>6, <1>9 DEF f, g

(* A ballot appended for one identity adds its points to the ledger.       *)
LEMMA PointsAdded ==
  ASSUME NEW l \in [Ids -> Seq(Ballots)], NEW i \in Ids, NEW b \in Ballots,
         NEW c \in ChoiceIndices
  PROVE  /\ PointsIn(l, c) \in Nat
         /\ PointsIn([l EXCEPT ![i] = Append(@, b)], c) = PointsIn(l, c) + b[c]
<1> DEFINE sum(q) == SumFunction([k \in DOMAIN q |-> q[k][c]])
           m == [l EXCEPT ![i] = Append(@, b)]
           f == [id \in Ids |-> sum(l[id])]
           g == [id \in Ids |-> sum(m[id])]
<1>1. \A q \in Seq(Ballots) : sum(q) \in Nat /\ sum(Append(q, b)) = sum(q) + b[c]
  BY PointsOfList
<1>2. b[c] \in Nat
  BY DEF Ballots
<1> HIDE DEF sum
<1>3. f \in [Ids -> Nat] /\ f[i] = sum(l[i])
  BY <1>1
<1>4. g = [f EXCEPT ![i] = f[i] + b[c]]
  BY <1>1
<1>5. f[i] \in Nat /\ f[i] + b[c] \in Nat
  BY <1>2, <1>3
<1> HIDE DEF f, g
<1>7. SumFunction(f) \in Nat /\ SumFunction(g) \in Nat
  <2>1. g \in [Ids -> Nat]
    BY <1>3, <1>4, <1>5
  <2> QED
    BY <1>3, <2>1, IdsAssumption, SumIsNatural
<1>6. SumFunction(g) + f[i] = SumFunction(f) + (f[i] + b[c])
  <2>1. g \in [Ids -> Nat] /\ g[i] = f[i] + b[c] /\ \A id \in Ids \ {i} : g[id] = f[id]
    BY <1>3, <1>4, <1>5
  <2>2. SumFunction(g) + f[i] = SumFunction(f) + g[i]
    <3>1. IsFiniteSet(Ids) /\ f \in [Ids -> Nat]
      BY <1>3, IdsAssumption
    <3> HIDE DEF m
    <3>2. \A id \in Ids \ {i} : g[id] = f[id]
      BY <2>1
    <3>3. ASSUME NEW p \in [Ids -> Nat], NEW q \in [Ids -> Nat],
                 \A id \in Ids \ {i} : q[id] = p[id]
          PROVE  SumFunction(q) + p[i] = SumFunction(p) + q[i]
      BY <3>1, <3>3, SumUpdate
    <3> QED
      BY <2>1, <3>1, <3>2, <3>3, Zenon
  <2> QED
    BY <2>1, <2>2
<1>8. SumFunction(g) = SumFunction(f) + b[c]
  <2> DEFINE x == f[i]
             y == b[c]
             F == SumFunction(f)
             G == SumFunction(g)
  <2>1. x \in Nat /\ y \in Nat /\ F \in Nat /\ G \in Nat /\ G + x = F + (x + y)
    BY <1>2, <1>5, <1>6, <1>7
  <2> HIDE DEF x, y, F, G
  <2>2. G = F + y
    BY <2>1
  <2> QED
    BY <2>2 DEF F, G, y
<1>9. PointsIn(l, c) = SumFunction(f) /\ PointsIn(m, c) = SumFunction(g)
  BY DEF f, g, sum, PointsIn
<1> QED
  BY <1>7, <1>8, <1>9

(* The points in the ledger are a natural number.                          *)
LEMMA LedgerPointsAreNatural ==
  ASSUME TypeOK, NEW c \in ChoiceIndices
  PROVE  LedgerPoints(c) \in Nat
<1> DEFINE sum(q) == SumFunction([k \in DOMAIN q |-> q[k][c]])
           f == [id \in Ids |-> sum(ledger[id])]
<1>1. \A q \in Seq(Ballots) : sum(q) \in Nat
  <2>1. [d \in ChoiceIndices |-> 0] \in Ballots
    BY DEF Ballots
  <2> QED
    BY <2>1, PointsOfList
<1>2. LedgerPoints(c) = SumFunction(f)
  BY DEF LedgerPoints
<1> HIDE DEF sum
<1>3. f \in [Ids -> Nat]
  BY <1>1 DEF TypeOK
<1> HIDE DEF f
<1> QED
  BY <1>2, <1>3, IdsAssumption, SumIsNatural

(* A step that adds a ballot keeps tallies and ledger together. *)
LEMMA AddingKeepsTallies ==
  ASSUME TypeOK, TalliesMatchLedger, NEW i \in Ids, NEW b \in Ballots,
         votes' = AddBallot(b), ledger' = [ledger EXCEPT ![i] = Append(@, b)]
  PROVE  TalliesMatchLedger'
<1> SUFFICES ASSUME NEW c \in ChoiceIndices
             PROVE  votes'[c] = LedgerPoints(c)' % Modulus
  BY DEF TalliesMatchLedger
<1>1. LedgerPoints(c) = PointsIn(ledger, c) /\ LedgerPoints(c)' = PointsIn(ledger', c)
  BY DEF LedgerPoints, PointsIn
<1>2. PointsIn(ledger, c) \in Nat /\ PointsIn(ledger', c) = PointsIn(ledger, c) + b[c]
  BY PointsAdded DEF TypeOK
<1>3. votes[c] = PointsIn(ledger, c) % Modulus
  BY <1>1 DEF TalliesMatchLedger
<1>4. b[c] \in Nat
  BY DEF Ballots
<1>5. votes'[c] = (votes[c] + b[c]) % Modulus
  BY DEF AddBallot
<1>6. ((PointsIn(ledger, c) % Modulus) + b[c]) % Modulus = (PointsIn(ledger, c) + b[c]) % Modulus
  BY <1>2, <1>4, ModulusAssumption, AddModulo
<1> QED
  BY <1>1, <1>2, <1>3, <1>5, <1>6

(* Before the first ballot there are no points.                            *)
LEMMA EmptyLedger ==
  ASSUME NEW c \in ChoiceIndices
  PROVE  PointsIn([id \in Ids |-> <<>>], c) = 0
<1> DEFINE f == [id \in Ids |-> SumFunction([k \in DOMAIN <<>> |-> <<>>[k][c]])]
           e == [k \in DOMAIN <<>> |-> <<>>[k][c]]
<1>1. IsFiniteSet({}) /\ e \in [{} -> {0}]
  BY FS_EmptySet
<1> HIDE DEF e
<1>2. SumFunction(e) = 0
  BY <1>1, SumOfZeros
<1>3. f \in [Ids -> {0}]
  BY <1>2 DEF e
<1>4. PointsIn([id \in Ids |-> <<>>], c) = SumFunction(f)
  BY DEF PointsIn
<1> HIDE DEF f
<1> QED
  BY <1>3, <1>4, IdsAssumption, SumOfZeros

(* No call loses, repeats or misplaces points, in any mode: the tallies    *)
(* are the sum, modulo n, of every ballot ever added to them, whichever    *)
(* voting function made it and wherever a call broke off.                  *)
THEOREM TalliesAlwaysMatch == Spec => []TalliesMatchLedger
<1>1. Init => TalliesMatchLedger
  <2> SUFFICES ASSUME Init, NEW c \in ChoiceIndices
               PROVE  votes[c] = LedgerPoints(c) % Modulus
    BY DEF TalliesMatchLedger
  <2>1. LedgerPoints(c) = PointsIn([id \in Ids |-> <<>>], c)
    BY DEF Init, LedgerPoints, PointsIn
  <2>2. 0 % Modulus = 0
    BY ModulusAssumption, AddModulo
  <2> QED
    BY <2>1, <2>2, EmptyLedger DEF Init
<1>2. TypeOK /\ TalliesMatchLedger /\ [Next]_vars => TalliesMatchLedger'
  <2> SUFFICES ASSUME TypeOK, TalliesMatchLedger, [Next]_vars
               PROVE  TalliesMatchLedger'
    OBVIOUS
  <2>1. CASE UNCHANGED <<votes, ledger>>
    BY <2>1 DEF TalliesMatchLedger, LedgerPoints
  <2>2. CASE \E m \in Members, b \in LegalBallots : CastBallot(m, b)
    <3> PICK m \in Members, b \in LegalBallots : CastBallot(m, b)
      BY <2>2
    <3>1. IdOf[m] \in Ids /\ b \in Ballots
      BY IdOfAssumption, LegalAreBallots
    <3> QED
      BY <3>1, AddingKeepsTallies DEF CastBallot
  <2>3. CASE Broken
    <3> PICK m \in Members, b \in LegalBallots, s \in Selections, k \in Nat : BreakOff(m, b, s, k)
      BY <2>3 DEF Broken
    <3> DEFINE part == [c \in ChoiceIndices |-> IF \E j \in 1 .. k : s[j] = c THEN b[c] ELSE 0]
    <3>1. IdOf[m] \in Ids /\ part \in Ballots
      BY IdOfAssumption, LegalAreBallots DEF Ballots
    <3>2. votes' = AddBallot(part) /\ ledger' = [ledger EXCEPT ![IdOf[m]] = Append(@, part)]
      BY DEF BreakOff
    <3> HIDE DEF part
    <3> QED
      BY <3>1, <3>2, AddingKeepsTallies
  <2> QED
    BY <2>1, <2>2, <2>3, StepKinds DEF CallGenerateEncryptedReceipt, Close, vars
<1> QED
  BY <1>1, <1>2, TypeCorrect, PTL DEF Spec

-----------------------------------------------------------------------------
(* The reports: what the leading choice, the sorted results and the        *)
(* percentages are for every tally vector.                                 *)

Tallies == [ChoiceIndices -> Nat]

(* lead is the scan of leadingChoiceIndex over t. *)
IsLead(lead, t) ==
  lead = [i \in ChoiceIndices |->
            IF i = 0 THEN 0 ELSE IF t[i] > t[lead[i - 1]] THEN i ELSE lead[i - 1]]

(* LeadingChoiceIndex evaluates the scan its definition chooses.           *)
LEMMA LeadByDefinition ==
  ASSUME NEW t, \E lead : IsLead(lead, t)
  PROVE  \E lead : IsLead(lead, t) /\ LeadingChoiceIndex(t) = lead[NumChoices - 1]
<1> DEFINE L == CHOOSE lead : IsLead(lead, t)
<1>1. LeadingChoiceIndex(t) = L[NumChoices - 1]
  BY Zenon DEF LeadingChoiceIndex, IsLead
<1>2. IsLead(L, t)
  BY Zenon
<1> QED
  BY <1>1, <1>2, Zenon

(* There is a scan for it to choose.                                       *)
LEMMA LeadExists ==
  ASSUME NEW t \in Tallies
  PROVE  \E lead \in [ChoiceIndices -> ChoiceIndices] : IsLead(lead, t)
<1> DEFINE X == ChoiceIndices
           rank == [i \in X |-> i]
           D == [i \in X |-> [g \in [X -> X] |->
                  IF i = 0 THEN 0 ELSE IF t[i] > t[g[i - 1]] THEN i ELSE g[i - 1]]]
<1>1. 0 \in X /\ \A i \in X : i # 0 => i - 1 \in X
  BY NumChoicesAssumption DEF ChoiceIndices
<1>2. D \in [X -> [[X -> X] -> X]]
  BY <1>1
<1>3. ASSUME NEW g \in [X -> X], NEW h \in [X -> X], NEW i \in X,
             \A j \in X : rank[j] < rank[i] => g[j] = h[j]
      PROVE  D[i][g] = D[i][h]
  <2>1. i # 0 => g[i - 1] = h[i - 1]
    <3>1. i # 0 => i - 1 \in X /\ i - 1 < i
      BY <1>1 DEF ChoiceIndices
    <3> QED
      BY <3>1, <1>3
  <2> QED
    BY <2>1
<1>4. rank \in [X -> 0 .. NumChoices - 1] /\ NumChoices - 1 \in Nat
  BY NumChoicesAssumption DEF ChoiceIndices
<1>5. \E g \in [X -> X] : \A i \in X : g[i] = D[i][g]
  <2> HIDE DEF X, D, rank
  <2>1. IsRecursion(D, X, X, rank, NumChoices - 1)
    BY <1>1, <1>2, <1>3, <1>4 DEF IsRecursion
  <2> QED
    BY <2>1, Recursion DEF Follows
<1>6. PICK g \in [X -> X] : \A i \in X : g[i] = D[i][g]
  BY <1>5
<1>7. g = [i \in X |-> D[i][g]]
  BY <1>6
<1> QED
  BY <1>7 DEF IsLead

(* d ranks behind c in the results. *)
Before(t, c, d) == t[c] > t[d] \/ (t[c] = t[d] /\ c < d)

(* The leading choice is the first one with the most points. *)
LEMMA LeadIsFirstMaximum ==
  ASSUME NEW t \in Tallies
  PROVE  /\ LeadingChoiceIndex(t) \in ChoiceIndices
         /\ \A c \in ChoiceIndices \ {LeadingChoiceIndex(t)} : Before(t, LeadingChoiceIndex(t), c)
<1>1. PICK lead : IsLead(lead, t) /\ LeadingChoiceIndex(t) = lead[NumChoices - 1]
  BY LeadExists, LeadByDefinition
<1> DEFINE Holds(i) == /\ lead[i] \in 0 .. i
                       /\ \A c \in (0 .. i) \ {lead[i]} : Before(t, lead[i], c)
           P == {i \in Nat : i \in ChoiceIndices => Holds(i)}
<1>2. \A i \in ChoiceIndices :
        lead[i] = IF i = 0 THEN 0 ELSE IF t[i] > t[lead[i - 1]] THEN i ELSE lead[i - 1]
  BY <1>1 DEF IsLead
<1>3. 0 \in P
  BY <1>2 DEF ChoiceIndices
<1>4. ASSUME NEW i \in Nat, i \in P PROVE i + 1 \in P
  <2> SUFFICES ASSUME i + 1 \in ChoiceIndices PROVE Holds(i + 1)
    OBVIOUS
  <2>1. i \in ChoiceIndices /\ Holds(i)
    <3>1. i \in ChoiceIndices
      BY NumChoicesAssumption DEF ChoiceIndices
    <3> QED
      BY <1>4, <3>1
  <2>2. lead[i + 1] = IF t[i + 1] > t[lead[i]] THEN i + 1 ELSE lead[i]
    BY <1>2
  <2>3. \A c \in 0 .. i + 1 : c \in ChoiceIndices /\ t[c] \in Nat
    BY NumChoicesAssumption DEF ChoiceIndices, Tallies
  <2>4. lead[i] \in 0 .. i + 1 /\ lead[i] < i + 1
    BY <2>1
  <2>5. CASE t[i + 1] > t[lead[i]]
    <3>1. \A c \in (0 .. i + 1) \ {i + 1} : t[i + 1] > t[c]
      <4> TAKE c \in (0 .. i + 1) \ {i + 1}
      <4>1. c \in 0 .. i /\ t[c] \in Nat /\ t[lead[i]] \in Nat /\ t[i + 1] \in Nat
        BY <2>3, <2>4
      <4>2. c = lead[i] \/ t[lead[i]] >= t[c]
        BY <2>1, <4>1 DEF Before
      <4> QED
        BY <4>1, <4>2, <2>5
    <3> QED
      BY <2>2, <2>5, <3>1 DEF Before
  <2>6. CASE ~(t[i + 1] > t[lead[i]])
    <3>1. lead[i + 1] = lead[i]
      BY <2>2, <2>6
    <3>2. Before(t, lead[i], i + 1)
      <4>1. t[i + 1] \in Nat /\ t[lead[i]] \in Nat
        BY <2>3, <2>4
      <4> QED
        BY <4>1, <2>4, <2>6 DEF Before
    <3>3. \A c \in (0 .. i + 1) \ {lead[i]} : c = i + 1 \/ c \in (0 .. i) \ {lead[i]}
      OBVIOUS
    <3> QED
      BY <2>1, <2>4, <3>1, <3>2, <3>3
  <2> QED
    BY <2>5, <2>6
<1>5. NumChoices - 1 \in P
  <2> HIDE DEF P
  <2>1. \A i \in Nat : i \in P
    BY <1>3, <1>4, NumbersInduction
  <2> QED
    BY <2>1, NumChoicesAssumption
<1>6. NumChoices - 1 \in ChoiceIndices
  BY NumChoicesAssumption DEF ChoiceIndices
<1> QED
  BY <1>1, <1>5, <1>6 DEF ChoiceIndices

(* Equal tallies keep the order of the choices: the order is total. *)
LEMMA BeforeIsStrictOrder ==
  ASSUME NEW t \in Tallies
  PROVE  /\ \A c \in ChoiceIndices : ~Before(t, c, c)
         /\ \A c, d \in ChoiceIndices : c = d \/ Before(t, c, d) \/ Before(t, d, c)
         /\ \A c, d, e \in ChoiceIndices : Before(t, c, d) /\ Before(t, d, e) => Before(t, c, e)
<1>1. \A c \in ChoiceIndices : t[c] \in Nat /\ c \in Int
  BY DEF Tallies, ChoiceIndices
<1> QED
  BY <1>1 DEF Before

(* p lists the choices by points. *)
Sorts(p, t) ==
  /\ p \in Bijection(ChoiceIndices, ChoiceIndices)
  /\ \A i, j \in ChoiceIndices : i < j => Before(t, p[i], p[j])

(* The place of a choice is the number of choices before it. *)
LEMMA SortingExists ==
  ASSUME NEW t \in Tallies
  PROVE  \E p : Sorts(p, t)
<1> DEFINE X == ChoiceIndices
           Ahead(c) == {d \in X : Before(t, d, c)}
           place == [c \in X |-> Cardinality(Ahead(c))]
<1>1. IsFiniteSet(X) /\ Cardinality(X) = NumChoices
  BY NumChoicesAssumption, FS_Interval DEF ChoiceIndices
<1>2. /\ \A c \in X : ~Before(t, c, c)
      /\ \A c, d \in X : c = d \/ Before(t, c, d) \/ Before(t, d, c)
      /\ \A c, d, e \in X : Before(t, c, d) /\ Before(t, d, e) => Before(t, c, e)
  BY BeforeIsStrictOrder
<1>3. \A c \in X : Ahead(c) \in SUBSET X /\ IsFiniteSet(Ahead(c)) /\ Cardinality(Ahead(c)) \in Nat
  <2> TAKE c \in X
  <2>1. Ahead(c) \in SUBSET X
    OBVIOUS
  <2>2. IsFiniteSet(Ahead(c))
    BY <1>1, <2>1, FS_Subset
  <2> QED
    BY <2>1, <2>2, FS_CardinalityType
<1>4. \A c \in X : place[c] \in X
  <2> TAKE c \in X
  <2>1. c \notin Ahead(c)
    BY <1>2
  <2>2. Cardinality(Ahead(c)) < NumChoices
    <3>1. Ahead(c) # X
      BY <2>1
    <3> HIDE DEF X, Ahead
    <3> QED
      BY <1>1, <1>3, <3>1, FS_Subset, NumChoicesAssumption
  <2>3. place[c] = Cardinality(Ahead(c))
    OBVIOUS
  <2> HIDE DEF Ahead, place
  <2> QED
    BY <1>3, <2>2, <2>3, NumChoicesAssumption DEF ChoiceIndices
<1>5. \A c, d \in X : Before(t, c, d) => place[c] < place[d]
  <2> SUFFICES ASSUME NEW c \in X, NEW d \in X, Before(t, c, d)
               PROVE  place[c] < place[d]
    OBVIOUS
  <2>1. Ahead(c) \in SUBSET Ahead(d) /\ c \in Ahead(d) /\ c \notin Ahead(c)
    BY <1>2
  <2>2. Cardinality(Ahead(c)) < Cardinality(Ahead(d))
    <3> HIDE DEF Ahead, X
    <3> QED
      BY <1>3, <2>1, FS_Subset
  <2> QED
    BY <2>2
<1>6. \A c, d \in X : place[c] = place[d] => c = d
  <2> SUFFICES ASSUME NEW c \in X, NEW d \in X, place[c] = place[d] PROVE c = d
    OBVIOUS
  <2>1. place[c] \in Int /\ place[d] \in Int
    BY <1>4 DEF ChoiceIndices
  <2> HIDE DEF place, X
  <2> QED
    BY <1>2, <1>5, <2>1
<1>7. \A i \in X : \E c \in X : place[c] = i
  <2> HIDE DEF X, Ahead
  <2>1. place \in Injection(X, X)
    BY <1>4, <1>6 DEF Injection, IsInjective
  <2>2. place \in Surjection(X, X)
    BY <1>1, <2>1, FS_Injection
  <2> QED
    BY <2>2 DEF Surjection
<1> DEFINE p == [i \in X |-> CHOOSE c \in X : place[c] = i]
<1> HIDE DEF place
<1>8. \A i \in X : p[i] \in X /\ place[p[i]] = i
  BY <1>7
<1>9. \A c \in X : \E i \in X : p[i] = c
  <2> TAKE c \in X
  <2>1. place[c] \in X /\ p[place[c]] \in X /\ place[p[place[c]]] = place[c]
    BY <1>4, <1>8
  <2> QED
    BY <1>6, <2>1
<1>10. p \in [X -> X] /\ \A i, j \in X : p[i] = p[j] => i = j
  BY <1>8
<1> HIDE DEF p
<1>11. p \in Bijection(X, X)
  BY <1>9, <1>10 DEF Bijection, Injection, Surjection, IsInjective
<1>12. \A i, j \in X : i < j => Before(t, p[i], p[j])
  <2> SUFFICES ASSUME NEW i \in X, NEW j \in X, i < j PROVE Before(t, p[i], p[j])
    OBVIOUS
  <2>1. i \in Int /\ j \in Int /\ i # j
    BY DEF ChoiceIndices
  <2>2. p[i] \in X /\ p[j] \in X /\ p[i] # p[j]
    BY <1>8, <1>10, <2>1
  <2>3. ~Before(t, p[j], p[i])
    <3>1. place[p[i]] = i /\ place[p[j]] = j
      BY <1>8
    <3>2. SUFFICES ASSUME Before(t, p[j], p[i]) PROVE FALSE
      OBVIOUS
    <3>3. place[p[j]] < place[p[i]]
      BY <1>5, <2>2, <3>2
    <3>4. j < i
      BY <3>1, <3>3
    <3> QED
      BY <3>4, <2>1
  <2> QED
    BY <1>2, <2>2, <2>3
<1> QED
  BY <1>11, <1>12 DEF Sorts

(* The sorted results are a list of the choices by points.                 *)
LEMMA SortedResultsSort ==
  ASSUME NEW t \in Tallies
  PROVE  Sorts(GetSortedResults(t), t)
<1> DEFINE S(p) == p \in Bijection(ChoiceIndices, ChoiceIndices) /\
                     \A i, j \in ChoiceIndices : i < j =>
                        \/ t[p[i]] > t[p[j]]
                        \/ t[p[i]] = t[p[j]] /\ p[i] < p[j]
<1>1. \A p : Sorts(p, t) <=> S(p)
  BY DEF Sorts, Before
<1>2. \E p : S(p)
  BY <1>1, SortingExists
<1>3. S(GetSortedResults(t))
  BY <1>2 DEF GetSortedResults
<1> QED
  BY <1>1, <1>3

(* The largest tally is the one of the leading choice.                     *)
LEMMA MaxTallyIsLeaders ==
  ASSUME NEW t \in Tallies
  PROVE  MaxTally(t) = t[LeadingChoiceIndex(t)]
<1> DEFINE S == {0} \union Range(t)
           m == t[LeadingChoiceIndex(t)]
<1>1. LeadingChoiceIndex(t) \in ChoiceIndices
  BY LeadIsFirstMaximum
<1>2. m \in S /\ \A x \in S : x \in Nat
  BY <1>1 DEF Range, Tallies
<1>3. \A x \in S : m >= x
  <2>1. \A c \in ChoiceIndices : m >= t[c]
    BY LeadIsFirstMaximum DEF Before, Tallies
  <2> QED
    BY <1>2, <2>1 DEF Range, Tallies
<1> HIDE DEF S, m
<1>4. Max(S) = m
  <2>1. \E x \in S : \A y \in S : x >= y
    BY <1>2, <1>3
  <2>2. Max(S) \in S /\ \A y \in S : Max(S) >= y
    BY <2>1 DEF Max
  <2> QED
    BY <1>2, <1>3, <2>2
<1> QED
  BY <1>4 DEF MaxTally, S, m

(* Rounding down keeps the order. *)
LEMMA QuotientsKeepOrder ==
  ASSUME NEW m \in Nat \ {0}, NEW a \in Nat, NEW b \in Nat, a <= b
  PROVE  a \div m <= b \div m
<1> DEFINE q == a \div m
           r == a % m
           p == b \div m
           s == b % m
<1>1. /\ q \in Nat /\ r \in 0 .. m - 1 /\ a = m * q + r
      /\ p \in Nat /\ s \in 0 .. m - 1 /\ b = m * p + s
  BY DivMod
<1> HIDE DEF q, r, p, s
<1>2. CASE p < q
  <2>1. q - p \in Nat /\ q - p >= 1
    BY <1>1, <1>2
  <2>2. m * (q - p) >= m
    BY <2>1
  <2>3. m * (q - p) = m * q - m * p /\ m * q \in Nat /\ m * p \in Nat
    BY <1>1
  <2> QED
    BY <1>1, <2>2, <2>3
<1> QED
  BY <1>1, <1>2 DEF q, p

(* No tally is more than the total.                                        *)
LEMMA TotalIsNatural ==
  ASSUME NEW t \in Tallies
  PROVE  Total(t) \in Nat /\ \A c \in ChoiceIndices : t[c] <= Total(t)
<1>1. IsFiniteSet(ChoiceIndices)
  BY NumChoicesAssumption, FS_Interval DEF ChoiceIndices
<1>2. t \in [ChoiceIndices -> Nat]
  BY DEF Tallies
<1>3. Total(t) \in Nat
  BY <1>1, <1>2, SumIsNatural DEF Total
<1>4. ASSUME NEW c \in ChoiceIndices PROVE t[c] <= Total(t)
  BY <1>1, <1>2, SumIsAtLeast DEF Total
<1> QED
  BY <1>3, <1>4

(* The percentages follow the tallies and lose less than 0.01% per choice. *)
LEMMA PercentagesFollowTallies ==
  ASSUME NEW t \in Tallies
  PROVE  /\ \A c, d \in ChoiceIndices : t[c] <= t[d] => Percentages(t)[c] <= Percentages(t)[d]
         /\ Total(t) > 0 => Total(Percentages(t)) \in 10001 - NumChoices .. 10000
<1> DEFINE m == Total(t)
           p == Percentages(t)
<1>1. m \in Nat /\ t \in [ChoiceIndices -> Nat]
  BY TotalIsNatural DEF Tallies
<1>2. CASE m = 0
  BY <1>2 DEF Percentages
<1>3. CASE m # 0
  <2>1. m \in Nat \ {0} /\ m > 0
    BY <1>1, <1>3
  <2>2. p = [c \in ChoiceIndices |-> (t[c] * 10000) \div m]
    BY <2>1 DEF Percentages
  <2> HIDE DEF m, p
  <2>3. ASSUME NEW c \in ChoiceIndices, NEW d \in ChoiceIndices, t[c] <= t[d]
        PROVE  p[c] <= p[d]
    <3> DEFINE a == t[c] * 10000
               b == t[d] * 10000
    <3>1. a \in Nat /\ b \in Nat /\ a <= b
      BY <1>1, <2>3
    <3>2. p[c] = a \div m /\ p[d] = b \div m
      BY <2>2
    <3> HIDE DEF a, b
    <3> QED
      BY <2>1, <3>1, <3>2, QuotientsKeepOrder
  <2>4. p \in [ChoiceIndices -> Nat]
    <3> SUFFICES ASSUME NEW c \in ChoiceIndices PROVE p[c] \in Nat
      BY <2>2
    <3> DEFINE a == t[c] * 10000
    <3>1. a \in Nat /\ p[c] = a \div m
      BY <1>1, <2>2
    <3> HIDE DEF a
    <3> QED
      BY <2>1, <3>1, DivMod
  <2>5. IsFiniteSet(ChoiceIndices) /\ Cardinality(ChoiceIndices) = NumChoices
    BY NumChoicesAssumption, FS_Interval DEF ChoiceIndices
  <2>6. \A c \in ChoiceIndices : p[c] = (t[c] * 10000) \div m
    BY <2>2
  <2>7. /\ m * SumFunction(p) <= 10000 * SumFunction(t)
        /\ 10000 * SumFunction(t) + Cardinality(ChoiceIndices)
             <= m * (SumFunction(p) + Cardinality(ChoiceIndices))
    BY <1>1, <2>1, <2>4, <2>5, <2>6, SumOfQuotients
  <2> DEFINE s == SumFunction(p)
  <2>8. m * s <= 10000 * m /\ 10000 * m + NumChoices <= m * (s + NumChoices) /\ s \in Nat
    <3>1. SumFunction(t) = m
      BY DEF m, Total
    <3>2. s \in Nat
      BY <2>4, <2>5, SumIsNatural
    <3> QED
      BY <2>5, <2>7, <3>1, <3>2
  <2> HIDE DEF s
  <2>9. s <= 10000
    <3> SUFFICES ASSUME s > 10000 PROVE FALSE
      BY <2>8
    <3>1. s - 10000 \in Nat /\ s - 10000 >= 1
      BY <2>8
    <3>2. m * (s - 10000) >= 1
      BY <2>1, <3>1
    <3>3. m * (s - 10000) = m * s - 10000 * m /\ m * s \in Nat
      BY <2>1, <2>8
    <3> QED
      BY <2>1, <2>8, <3>2, <3>3
  <2>10. s + NumChoices >= 10001
    <3> SUFFICES ASSUME s + NumChoices <= 10000 PROVE FALSE
      BY <2>8, NumChoicesAssumption
    <3> DEFINE k == s + NumChoices
    <3>1. k \in Nat /\ 10000 - k \in Nat /\ 10000 * m + NumChoices <= m * k
      BY <2>8, NumChoicesAssumption
    <3> HIDE DEF k
    <3>2. m * (10000 - k) \in Nat /\ m * (10000 - k) = 10000 * m - m * k
      BY <2>1, <3>1
    <3>3. m * k \in Nat
      BY <2>1, <3>1
    <3> QED
      BY <2>1, <3>1, <3>2, <3>3, NumChoicesAssumption
  <2>11. Total(p) = s
    BY DEF Total, s
  <2>12. Total(p) \in 10001 - NumChoices .. 10000
    BY <2>8, <2>9, <2>10, <2>11, NumChoicesAssumption
  <2> QED
    BY <2>3, <2>12 DEF p, m
<1> QED
  BY <1>1, <1>2, <1>3

(* A tie is seen exactly when the runner-up has as many points as the      *)
(* winner.                                                                 *)
LEMMA TieIsAtTheTop ==
  ASSUME NEW t \in Tallies
  PROVE  LET s    == GetSortedResults(t)
             lead == LeadingChoiceIndex(t)
         IN  /\ s[0] = lead
             /\ HasTie(t) <=> NumChoices > 1 /\ t[s[1]] = t[lead]
<1> DEFINE X == ChoiceIndices
           s == GetSortedResults(t)
           lead == LeadingChoiceIndex(t)
           level == {c \in X : t[c] = MaxTally(t)}
<1>1. lead \in X /\ \A c \in X \ {lead} : Before(t, lead, c)
  BY LeadIsFirstMaximum
<1>2. MaxTally(t) = t[lead]
  BY MaxTallyIsLeaders
<1>3. /\ s \in [X -> X]
      /\ \A i, j \in X : s[i] = s[j] => i = j
      /\ \A c \in X : \E i \in X : s[i] = c
      /\ \A i, j \in X : i < j => Before(t, s[i], s[j])
  BY SortedResultsSort DEF Sorts, Bijection, Injection, Surjection, IsInjective
<1>4. 0 \in X /\ \A i \in X : i \in Nat /\ i < NumChoices /\ t[i] \in Nat
  BY NumChoicesAssumption DEF ChoiceIndices, Tallies
<1>5. NumChoices > 1 => 1 \in X
  BY NumChoicesAssumption DEF ChoiceIndices
<1>6. IsFiniteSet(level) /\ lead \in level
  <2>1. IsFiniteSet(X) /\ level \in SUBSET X
    BY NumChoicesAssumption, FS_Interval DEF ChoiceIndices
  <2> QED
    BY <1>1, <1>2, <2>1, FS_Subset
<1>7. HasTie(t) <=> Cardinality(level) > 1
  BY DEF HasTie
<1> HIDE DEF s, lead
<1>8. s[0] = lead
  <2>1. PICK i \in X : s[i] = lead
    BY <1>1, <1>3
  <2> SUFFICES ASSUME i # 0 PROVE FALSE
    BY <2>1
  <2>2. Before(t, s[0], lead)
    <3>1. 0 < i
      BY <1>4
    <3> QED
      BY <1>3, <1>4, <2>1, <3>1
  <2>3. s[0] \in X /\ s[0] # lead
    BY <1>3, <1>4, <2>1
  <2>4. Before(t, lead, s[0])
    BY <1>1, <2>3
  <2> QED
    BY <1>1, <1>4, <2>2, <2>3, <2>4 DEF Before
<1>9. ASSUME HasTie(t) PROVE NumChoices > 1 /\ t[s[1]] = t[lead]
  <2>1. PICK c \in level : c # lead
    <3>1. level # {lead}
      BY <1>7, <1>9, FS_Singleton
    <3> QED
      BY <1>6, <3>1
  <2>2. c \in X /\ t[c] = t[lead]
    BY <2>1, <1>2
  <2>3. PICK k \in X : s[k] = c
    BY <1>3, <2>2
  <2>4. k # 0 /\ k \in Nat /\ k < NumChoices
    BY <1>4, <1>8, <2>1, <2>3
  <2>5. NumChoices > 1
    BY <2>4, NumChoicesAssumption
  <2>6. 1 \in X /\ s[1] \in X
    BY <1>3, <1>5, <2>5
  <2>7. t[s[1]] >= t[c]
    <3>1. CASE k = 1
      BY <2>3, <3>1, <2>6, <1>4
    <3>2. CASE k # 1
      <4>1. 1 < k
        BY <2>4, <3>2
      <4>2. Before(t, s[1], c)
        BY <1>3, <2>3, <2>6, <4>1
      <4> QED
        BY <4>2, <1>4, <2>2, <2>6 DEF Before
    <3> QED
      BY <3>1, <3>2
  <2>8. t[s[1]] <= t[lead]
    BY <1>1, <1>4, <2>6 DEF Before
  <2> QED
    BY <1>1, <1>4, <2>2, <2>5, <2>6, <2>7, <2>8
<1>10. ASSUME NumChoices > 1, t[s[1]] = t[lead] PROVE HasTie(t)
  <2>1. 1 \in X /\ s[1] \in X /\ s[1] # lead
    BY <1>3, <1>4, <1>5, <1>8, <1>10
  <2>2. s[1] \in level /\ lead \in level
    BY <1>2, <1>6, <1>10, <2>1
  <2>3. Cardinality(level) \in Nat /\ Cardinality(level) # 0 /\ Cardinality(level) # 1
    <3> HIDE DEF level
    <3>1. Cardinality(level) \in Nat
      BY <1>6, FS_CardinalityType
    <3>2. Cardinality(level) # 0
      BY <1>6, FS_EmptySet
    <3>3. Cardinality(level) # 1
      BY <1>6, <2>1, <2>2, FS_Singleton
    <3> QED
      BY <3>1, <3>2, <3>3
  <2> QED
    BY <1>7, <2>3
<1> QED
  BY <1>8, <1>9, <1>10 DEF s, lead

(* Below the modulus the tallies are the points in the ledger. *)
LEMMA TrueResults ==
  ASSUME TypeOK, TalliesMatchLedger
  PROVE  ResultsTrueBelowModulus
<1> DEFINE true == [c \in ChoiceIndices |-> LedgerPoints(c)]
<1>1. true \in Tallies
  <2> SUFFICES ASSUME NEW c \in ChoiceIndices PROVE LedgerPoints(c) \in Nat
    BY DEF Tallies
  <2> QED
    BY LedgerPointsAreNatural
<1> SUFFICES ASSUME Total(true) < Modulus
             PROVE  /\ GetTotalVotes(votes) = Total(true)
                    /\ GetResults(votes, VoterCount).totalVotes = Total(true)
                    /\ \A c \in ChoiceIndices : true[c] <= true[LeadingChoiceIndex(votes)]
  BY DEF ResultsTrueBelowModulus
<1>2. \A c \in ChoiceIndices : votes[c] = true[c] % Modulus
  BY DEF TalliesMatchLedger
<1> HIDE DEF true
<1>3. Total(true) \in Nat /\ \A c \in ChoiceIndices : true[c] <= Total(true)
  BY <1>1, TotalIsNatural
<1>4. \A c \in ChoiceIndices : true[c] % Modulus = true[c]
  <2> TAKE c \in ChoiceIndices
  <2>1. true[c] \in Nat /\ true[c] < Modulus
    BY <1>1, <1>3, ModulusAssumption DEF Tallies
  <2> QED
    BY <2>1, ModulusAssumption, AddModulo
<1>5. votes = true
  <2>1. votes = [c \in ChoiceIndices |-> votes[c]] /\ true = [c \in ChoiceIndices |-> true[c]]
    BY <1>1 DEF TypeOK, Tallies
  <2> QED
    BY <1>2, <1>4, <2>1
<1>6. GetTotalVotes(votes) = Total(true)
  <2>1. Total(true) % Modulus = Total(true)
    BY <1>3, ModulusAssumption, AddModulo
  <2> QED
    BY <1>5, <2>1 DEF GetTotalVotes
<1>7. \A c \in ChoiceIndices : true[c] <= true[LeadingChoiceIndex(true)]
  BY <1>1, LeadIsFirstMaximum DEF Before, Tallies
<1> QED
  BY <1>5, <1>6, <1>7 DEF GetResults

(* In every mode the reports of one state agree with each other, and with  *)
(* what was cast as long as that fits the modulus.                         *)
THEOREM ReportsAlwaysAgree == Spec => []ReportsAgree
<1>1. TypeOK /\ TalliesMatchLedger => ReportsAgree
  <2> SUFFICES ASSUME TypeOK, TalliesMatchLedger PROVE ReportsAgree
    OBVIOUS
  <2>1. votes \in Tallies
    <3>1. Plaintexts \subseteq Nat
      BY ModulusAssumption DEF Plaintexts
    <3> QED
      BY <3>1 DEF TypeOK, Tallies
  <2>2. MaxTally(votes) = votes[LeadingChoiceIndex(votes)]
    BY <2>1, MaxTallyIsLeaders
  <2>3. HasTie(votes) => TiedChoices(votes)
          = {c \in ChoiceIndices : votes[c] = votes[LeadingChoiceIndex(votes)]}
    BY <2>2 DEF TiedChoices
  <2> QED
    BY <2>1, <2>3, TieIsAtTheTop, PercentagesFollowTallies, TrueResults DEF ReportsAgree
<1> QED
  BY <1>1, TypeCorrect, TalliesAlwaysMatch, PTL

=============================================================================
