------------------------------ MODULE Induction ------------------------------
(***************************************************************************)
(* Facts that several of the proofs need and that rest on induction: a     *)
(* function defined by recursion exists, and a fold over a finite set does *)
(* not depend on the order it takes the members in.                        *)
(***************************************************************************)
EXTENDS Integers, Functions, FiniteSetTheorems, TLAPS

---------------------------------------------------------------------------
(* Recursion: least elements, and that a recursive function exists         *)

\* A set of naturals that is not empty has a first element.
LEMMA LeastNumber ==
  ASSUME NEW T \in SUBSET Nat, T # {}
  PROVE  \E n \in T : \A m \in T : n <= m
<1>1. IsWellFoundedOn(OpToRel(<, Nat), Nat)
  BY NatLessThanWellFounded
<1>2. PICK n \in T : \A m \in T : <<m, n>> \notin OpToRel(<, Nat)
  BY <1>1, WFMin, Zenon
<1>3. \A k, m \in Nat : k < m => <<k, m>> \in OpToRel(<, Nat)
  BY DEF OpToRel
<1>4. \A m \in T : ~(m < n)
  BY <1>2, <1>3
<1> QED BY <1>4

\* What holds at 0, and at n + 1 if at n, holds everywhere.
LEMMA EveryNumber ==
  ASSUME NEW N \in Nat, NEW T \in SUBSET (0..N), 0 \in T, \A n \in T : n < N => n + 1 \in T
  PROVE  T = 0..N
<1> DEFINE U == (0..N) \ T
<1> SUFFICES ASSUME U # {} PROVE FALSE
  OBVIOUS
<1>0. U \in SUBSET Nat
  OBVIOUS
<1>1. PICK n \in U : \A m \in U : n <= m
  <2> HIDE DEF U
  <2> QED BY <1>0, LeastNumber
<1>2. n - 1 \in T
  BY <1>1
<1> QED BY <1>1, <1>2

\* A function that is defined by its first value and by its next ones exists.
Recurs(V, v0, F, K) == \E f \in [0..K -> V] : f[0] = v0 /\ \A n \in 1..K : f[n] = F[n][f[n-1]]

LEMMA Recursion ==
  ASSUME NEW V, NEW v0 \in V, NEW F \in [Nat -> [V -> V]], NEW K \in Nat
  PROVE  Recurs(V, v0, F, K)
<1> DEFINE Sol(k, f) == f = [n \in 0..k |-> IF n = 0 THEN v0 ELSE F[n][f[n-1]]]
           T == {k \in 0..K : \E f \in [0..k -> V] : Sol(k, f)}
<1>1. 0 \in T
  <2> DEFINE f == [n \in 0..0 |-> v0]
  <2>1. f \in [0..0 -> V] /\ 0 \in 0..K
    OBVIOUS
  <2>2. f = [n \in 0..0 |-> IF n = 0 THEN v0 ELSE F[n][f[n-1]]]
    OBVIOUS
  <2> HIDE DEF f
  <2> QED BY <2>1, <2>2
<1>2. ASSUME NEW k \in T, k < K PROVE k + 1 \in T
  <2>1. PICK f \in [0..k -> V] : Sol(k, f)
    OBVIOUS
  <2> DEFINE g == [n \in 0..k+1 |-> IF n = k + 1 THEN F[n][f[k]] ELSE f[n]]
  <2>2. k \in Nat /\ k + 1 \in 0..K
    BY <1>2
  <2>3. \A n \in 0..k : f[n] \in V /\ f[n] = IF n = 0 THEN v0 ELSE F[n][f[n-1]]
    BY <2>1, Zenon
  <2>4. g \in [0..k+1 -> V]
    BY <2>2, <2>3
  <2>5. ASSUME NEW n \in 0..k+1 PROVE g[n] = IF n = 0 THEN v0 ELSE F[n][g[n-1]]
    <3>1. CASE n = k + 1
      <4>1. n # 0 /\ n - 1 = k /\ k \in 0..k+1 /\ k # k + 1
        BY <2>2, <3>1
      <4> QED BY <3>1, <4>1
    <3>2. CASE n # k + 1
      <4>1. n \in 0..k /\ (n # 0 => n - 1 \in 0..k+1 /\ n - 1 # k + 1)
        BY <2>2, <3>2
      <4> QED BY <3>2, <4>1, <2>3
    <3> QED BY <3>1, <3>2
  <2>6. Sol(k + 1, g)
    <3> HIDE DEF g
    <3>1. g = [n \in 0..k+1 |-> g[n]]
      BY <2>4
    <3> QED BY <2>5, <3>1
  <2> QED BY <2>2, <2>4, <2>6
<1>3. T = 0..K
  <2> HIDE DEF T
  <2>1. T \in SUBSET (0..K)
    BY DEF T
  <2> QED BY <1>1, <1>2, <2>1, EveryNumber
<1>4. PICK f \in [0..K -> V] : Sol(K, f)
  BY <1>3
<1>5. \A n \in 0..K : f[n] = IF n = 0 THEN v0 ELSE F[n][f[n-1]]
  BY <1>4
<1> QED BY <1>5 DEF Recurs
---------------------------------------------------------------------------
(* Sums of the values of a function on a finite set                        *)

\* The sums over every subset, whichever member is taken first.
Sums(g, f, S) ==
    /\ g \in [SUBSET S -> Int] /\ g[{}] = 0
    /\ \A s \in SUBSET S : \A x \in s : g[s] = f[x] + g[s \ {x}]

\* The parts of a finite set, one member smaller.
LEMMA Smaller ==
  ASSUME NEW S, IsFiniteSet(S), NEW s \in SUBSET S
  PROVE  /\ IsFiniteSet(s) /\ Cardinality(s) \in 0..Cardinality(S)
         /\ Cardinality(s) = 0 <=> s = {}
         /\ \A x \in s : Cardinality(s \ {x}) = Cardinality(s) - 1 /\ s \ {x} \in SUBSET S
<1>1. IsFiniteSet(s) /\ Cardinality(s) <= Cardinality(S)
  BY FS_Subset
<1>2. Cardinality(s) \in Nat /\ Cardinality(S) \in Nat
  BY <1>1, FS_CardinalityType
<1>3. Cardinality(s) = 0 <=> s = {}
  BY <1>1, FS_EmptySet
<1>4. \A x \in s : Cardinality(s \ {x}) = Cardinality(s) - 1
  BY <1>1, FS_RemoveElement
<1> QED BY <1>1, <1>2, <1>3, <1>4

\* What holds of the empty part of a finite set, and of a part if it holds of
\* the parts with one member less, holds of every part.
LEMMA EveryPart ==
  ASSUME NEW S, IsFiniteSet(S), NEW P \in SUBSET (SUBSET S), {} \in P,
         \A s \in SUBSET S : s # {} /\ (\A x \in s : s \ {x} \in P) => s \in P
  PROVE  P = SUBSET S
<1> DEFINE N == Cardinality(S)
           T == {n \in 0..N : \A s \in SUBSET S : Cardinality(s) = n => s \in P}
<1>1. N \in Nat
  BY FS_CardinalityType
<1>2. 0 \in T
  <2>1. \A s \in SUBSET S : Cardinality(s) = 0 => s \in P
    BY Smaller
  <2> QED BY <1>1, <2>1
<1>3. ASSUME NEW n \in T, n < N PROVE n + 1 \in T
  <2>1. ASSUME NEW s \in SUBSET S, Cardinality(s) = n + 1 PROVE s \in P
    <3>1. s # {} /\ \A x \in s : Cardinality(s \ {x}) = n /\ s \ {x} \in SUBSET S
      BY <2>1, <1>1, Smaller
    <3> QED BY <3>1
  <2> QED BY <1>1, <1>3, <2>1
<1>4. T = 0..N
  <2> HIDE DEF T, N
  <2>1. T \in SUBSET (0..N)
    BY DEF T
  <2> QED BY <1>1, <1>2, <1>3, <2>1, EveryNumber
<1>5. ASSUME NEW s \in SUBSET S PROVE s \in P
  BY <1>4, Smaller
<1> QED BY <1>5

\* Two functions that agree have the same sums.
LEMMA SameSums ==
  ASSUME NEW S, IsFiniteSet(S), NEW T, S \subseteq T, NEW f, NEW e, NEW g, NEW h,
         \A x \in S : f[x] = e[x], Sums(g, f, S), Sums(h, e, T)
  PROVE  \A s \in SUBSET S : g[s] = h[s]
<1> DEFINE P == {s \in SUBSET S : g[s] = h[s]}
<1>1. {} \in P
  BY DEF Sums
<1>2. ASSUME NEW s \in SUBSET S, s # {}, \A x \in s : s \ {x} \in P PROVE s \in P
  <2>1. PICK x \in s : TRUE
    BY <1>2
  <2>2. g[s] = f[x] + g[s \ {x}] /\ h[s] = e[x] + h[s \ {x}] /\ f[x] = e[x]
    BY DEF Sums
  <2> QED BY <1>2, <2>1, <2>2
<1>3. P = SUBSET S
  <2> HIDE DEF P
  <2>1. P \in SUBSET (SUBSET S)
    BY DEF P
  <2> QED BY <1>1, <1>2, <2>1, EveryPart
<1> QED BY <1>3

\* A step of the fold: take the member that CHOOSE gives.
FirstOf(s) == CHOOSE x \in s : TRUE
FoldStep(f, S, g) == [s \in SUBSET S |-> IF s = {} THEN 0 ELSE f[FirstOf(s)] + g[s \ {FirstOf(s)}]]

LEMMA FoldExists ==
  ASSUME NEW S, IsFiniteSet(S), NEW f \in [S -> Int]
  PROVE  \E g \in [SUBSET S -> Int] : g = FoldStep(f, S, g)
<1> DEFINE V == [SUBSET S -> Int]
           v0 == [s \in SUBSET S |-> 0]
           F == [n \in Nat |-> [g \in V |-> FoldStep(f, S, g)]]
           N == Cardinality(S)
<1>0. N \in Nat
  BY FS_CardinalityType
<1>1. \A g \in V : FoldStep(f, S, g) \in V
  BY DEF FoldStep, FirstOf
<1>2. v0 \in V /\ F \in [Nat -> [V -> V]]
  BY <1>1
<1>3. PICK G \in [0..N -> V] : G[0] = v0 /\ \A n \in 1..N : G[n] = F[n][G[n-1]]
  <2> HIDE DEF V, v0, F, N
  <2>1. Recurs(V, v0, F, N)
    BY <1>0, <1>2, Recursion
  <2> QED BY <2>1 DEF Recurs
<1>4. ASSUME NEW n \in 1..N PROVE G[n] = FoldStep(f, S, G[n-1]) /\ n-1 \in 0..N
  <2>1. n \in Nat /\ n-1 \in 0..N
    BY <1>0
  <2>2. \A h \in V : F[n][h] = FoldStep(f, S, h)
    BY <2>1
  <2> HIDE DEF V, F
  <2>3. G[n-1] \in V
    BY <2>1
  <2> QED BY <1>3, <2>1, <2>2, <2>3
<1> DEFINE Done(n) == \A s \in SUBSET S : Cardinality(s) <= n => G[n][s] = FoldStep(f, S, G[n])[s]
           T == {n \in 0..N : Done(n)}
<1>5. 0 \in T
  <2>1. \A s \in SUBSET S : Cardinality(s) <= 0 => s = {}
    BY Smaller
  <2>2. v0[{}] = 0 /\ \A h : FoldStep(f, S, h)[{}] = 0
    BY DEF FoldStep
  <2>3. G[0][{}] = FoldStep(f, S, G[0])[{}]
    BY <1>3, <2>2
  <2>4. 0 \in 0..N
    BY <1>0
  <2>5. Done(0)
    BY <2>1, <2>3
  <2> HIDE DEF Done, N
  <2> QED BY <2>4, <2>5
<1>6. ASSUME NEW n \in T, n < N PROVE n + 1 \in T
  <2>1. n + 1 \in 1..N /\ (n + 1) - 1 = n /\ n \in 0..N /\ n + 1 \in 0..N
    BY <1>0, <1>6
  <2>2. G[n+1] = FoldStep(f, S, G[n])
    BY <1>4, <2>1
  <2>3. ASSUME NEW s \in SUBSET S, Cardinality(s) <= n + 1
        PROVE  G[n+1][s] = FoldStep(f, S, G[n+1])[s]
    <3>1. CASE s = {}
      BY <2>2, <3>1 DEF FoldStep
    <3>2. CASE s # {}
      <4> DEFINE c == FirstOf(s)
                 t == s \ {c}
      <4>1. c \in s
        BY <3>2 DEF FirstOf
      <4>2. t \in SUBSET S /\ Cardinality(t) <= n
        BY <2>1, <2>3, <4>1, Smaller
      <4>3. G[n][t] = FoldStep(f, S, G[n])[t]
        BY <4>2
      <4>4. /\ FoldStep(f, S, G[n+1])[s] = f[c] + G[n+1][t]
            /\ FoldStep(f, S, G[n])[s] = f[c] + G[n][t]
        BY <3>2 DEF FoldStep
      <4> QED BY <2>2, <4>3, <4>4
    <3> QED BY <3>1, <3>2
  <2> QED BY <2>1, <2>3
<1>7. T = 0..N
  <2> HIDE DEF T, N
  <2>1. T \in SUBSET (0..N)
    BY DEF T
  <2> QED BY <1>0, <1>5, <1>6, <2>1, EveryNumber
<1>8. N \in 0..N /\ G[N] \in V
  BY <1>0, <1>3
<1>9. \A s \in SUBSET S : G[N][s] = FoldStep(f, S, G[N])[s]
  <2>1. Done(N)
    BY <1>7, <1>8
  <2>2. \A s \in SUBSET S : Cardinality(s) <= N
    BY Smaller
  <2> QED BY <2>1, <2>2
<1>10. G[N] = FoldStep(f, S, G[N])
  <2> DEFINE g == G[N]
  <2>1. g \in [SUBSET S -> Int] /\ FoldStep(f, S, g) \in [SUBSET S -> Int]
    BY <1>1, <1>8
  <2>2. \A s \in SUBSET S : g[s] = FoldStep(f, S, g)[s]
    BY <1>9
  <2> HIDE DEF g
  <2>3. g = FoldStep(f, S, g)
    BY <2>1, <2>2
  <2> QED BY <2>3 DEF g
<1> QED BY <1>8, <1>10

\* The order in which a fold takes the members does not matter.
LEMMA FoldSums ==
  ASSUME NEW S, IsFiniteSet(S), NEW f \in [S -> Int], NEW g, g = FoldStep(f, S, g)
  PROVE  Sums(g, f, S)
<1>0. /\ \A s \in SUBSET S : g[s] = IF s = {} THEN 0 ELSE f[FirstOf(s)] + g[s \ {FirstOf(s)}]
      /\ DOMAIN g = SUBSET S /\ g = [s \in DOMAIN g |-> g[s]]
  <2> DEFINE R == [s \in SUBSET S |-> IF s = {} THEN 0 ELSE f[FirstOf(s)] + g[s \ {FirstOf(s)}]]
  <2>1. PICK H : H = R
    OBVIOUS
  <2>2. H = g
    BY <2>1 DEF FoldStep
  <2> QED BY <2>1, <2>2
<1>6. \A s \in SUBSET S : g[s] \in Int
  <2> DEFINE I == {s \in SUBSET S : g[s] \in Int}
  <2>1. {} \in I
    BY <1>0
  <2>2. ASSUME NEW s \in SUBSET S, s # {}, \A x \in s : s \ {x} \in I PROVE s \in I
    <3>1. FirstOf(s) \in s
      BY <2>2 DEF FirstOf
    <3>2. g[s] = f[FirstOf(s)] + g[s \ {FirstOf(s)}] /\ f[FirstOf(s)] \in Int
      BY <1>0, <2>2, <3>1
    <3>3. g[s \ {FirstOf(s)}] \in Int
      BY <2>2, <3>1
    <3> QED BY <3>2, <3>3
  <2> HIDE DEF I
  <2>3. I \in SUBSET (SUBSET S)
    BY DEF I
  <2>4. I = SUBSET S
    BY <2>1, <2>2, <2>3, EveryPart
  <2> QED BY <2>4 DEF I
<1> DEFINE P == {s \in SUBSET S : g[s] \in Int /\ \A x \in s : g[s] = f[x] + g[s \ {x}]}
<1>1. {} \in P
  BY <1>0
<1>2. ASSUME NEW s \in SUBSET S, s # {}, \A x \in s : s \ {x} \in P PROVE s \in P
  <2> DEFINE c == FirstOf(s)
  <2>1. c \in s
    BY <1>2 DEF FirstOf
  <2>2. g[s] = f[c] + g[s \ {c}] /\ g[s \ {c}] \in Int /\ f[c] \in Int
    BY <1>0, <1>2, <2>1
  <2> HIDE DEF c
  <2>3. ASSUME NEW x \in s, x # c PROVE g[s] = f[x] + g[s \ {x}]
    <3>1. s \ {c} \in P /\ s \ {x} \in P /\ x \in s \ {c} /\ c \in s \ {x}
      BY <1>2, <2>1, <2>3
    <3>2. (s \ {c}) \ {x} = (s \ {x}) \ {c}
      OBVIOUS
    <3>3. /\ g[s \ {c}] = f[x] + g[(s \ {c}) \ {x}] /\ g[s \ {x}] = f[c] + g[(s \ {x}) \ {c}]
          /\ g[s \ {x}] \in Int
      BY <3>1
    <3>4. (s \ {c}) \ {x} \in SUBSET S
      OBVIOUS
    <3>5. g[(s \ {c}) \ {x}] \in Int /\ f[x] \in Int
      BY <1>6, <3>4
    <3> DEFINE t == (s \ {c}) \ {x}
    <3>6. /\ g[s] = f[c] + g[s \ {c}] /\ g[s \ {c}] = f[x] + g[t] /\ g[s \ {x}] = f[c] + g[t]
          /\ g[t] \in Int /\ f[x] \in Int /\ f[c] \in Int
      BY <2>2, <3>2, <3>3, <3>5, Zenon
    <3> HIDE DEF t
    <3> QED BY <3>6
  <2>4. g[s] \in Int
    BY <2>2
  <2> QED BY <2>2, <2>3, <2>4
<1>3. P = SUBSET S
  <2> HIDE DEF P
  <2>1. P \in SUBSET (SUBSET S)
    BY DEF P
  <2> QED BY <1>1, <1>2, <2>1, EveryPart
<1>4. \A s \in SUBSET S : g[s] \in Int /\ \A x \in s : g[s] = f[x] + g[s \ {x}]
  BY <1>3
<1>5. g \in [SUBSET S -> Int]
  BY <1>0, <1>4
<1> QED BY <1>0, <1>4, <1>5 DEF Sums

\* SumFunction adds up the values of a function.
SumOf(f, S, v) == \E g : Sums(g, f, S) /\ v = g[S]

LEMMA SumFolds ==
  ASSUME NEW S, IsFiniteSet(S), NEW f \in [S -> Int]
  PROVE  SumOf(f, S, SumFunction(f))
<1> DEFINE g == CHOOSE g : g = FoldStep(f, S, g)
<1>1. g = FoldStep(f, S, g)
  <2>1. \E h : h = FoldStep(f, S, h)
    BY FoldExists
  <2> QED BY <2>1, Zenon
<1>2. SumFunction(f) = g[S]
  <2>1. DOMAIN f = S
    OBVIOUS
  <2> QED BY <2>1, Zenon DEF SumFunction, SumFunctionOnSet, FoldFunctionOnSet, MapThenFoldSet, FoldStep, FirstOf
<1> HIDE DEF g
<1>3. Sums(g, f, S)
  BY <1>1, FoldSums
<1> QED BY <1>2, <1>3 DEF SumOf

\* One value more.
LEMMA SumOneMore ==
  ASSUME NEW S, IsFiniteSet(S), NEW x, x \notin S, NEW T, T = S \cup {x}, NEW e \in [S -> Int],
         NEW f \in [T -> Int], \A y \in S : f[y] = e[y]
  PROVE  /\ SumFunction(f) \in Int /\ SumFunction(e) \in Int
         /\ SumFunction(f) = SumFunction(e) + f[x]
<1>1. IsFiniteSet(T)
  BY FS_AddElement
<1>2. PICK g : Sums(g, e, S) /\ SumFunction(e) = g[S]
  BY SumFolds DEF SumOf
<1>3. SumOf(f, T, SumFunction(f))
  BY <1>1, SumFolds
<1>4. PICK h : Sums(h, f, T) /\ SumFunction(f) = h[T]
  BY <1>3 DEF SumOf
<1>5. S \in SUBSET T /\ T \in SUBSET T /\ S \in SUBSET S /\ x \in T
  OBVIOUS
<1>6. g[S] = h[S]
  <2>1. \A s \in SUBSET S : g[s] = h[s]
    BY <1>2, <1>4, <1>5, SameSums
  <2> QED BY <1>5, <2>1
<1>7. h[T] = f[x] + h[S]
  <2>1. T \ {x} = S
    OBVIOUS
  <2>2. h[T] = f[x] + h[T \ {x}]
    BY <1>4, <1>5 DEF Sums
  <2> QED BY <2>1, <2>2, Zenon
<1>8. h[T] \in Int /\ h[S] \in Int /\ f[x] \in Int
  BY <1>4, <1>5 DEF Sums
<1> QED BY <1>2, <1>4, <1>6, <1>7, <1>8

\* A sum of zeros.
LEMMA SumZeros ==
  ASSUME NEW S, IsFiniteSet(S), NEW f \in [S -> Int], \A x \in S : f[x] = 0
  PROVE  SumFunction(f) = 0
<1> DEFINE h == [s \in SUBSET S |-> 0]
<1>1. PICK g : Sums(g, f, S) /\ SumFunction(f) = g[S]
  BY SumFolds DEF SumOf
<1>2. Sums(h, f, S)
  BY DEF Sums
<1>3. h[S] = 0
  OBVIOUS
<1> HIDE DEF h
<1>4. \A s \in SUBSET S : g[s] = h[s]
  BY <1>1, <1>2, SameSums
<1> QED BY <1>1, <1>3, <1>4

\* When one value changes, the sum changes by as much.
LEMMA SumChanges ==
  ASSUME NEW S, IsFiniteSet(S), NEW x \in S, NEW f \in [S -> Int], NEW e \in [S -> Int],
         \A y \in S : y # x => f[y] = e[y]
  PROVE  /\ SumFunction(f) \in Int /\ SumFunction(e) \in Int
         /\ SumFunction(f) - SumFunction(e) = f[x] - e[x]
<1> DEFINE R == S \ {x}
           d == [y \in R |-> e[y]]
<1>1. IsFiniteSet(R) /\ x \notin R /\ d \in [R -> Int] /\ R \cup {x} = S
  BY FS_RemoveElement
<1>2. \A y \in R : f[y] = d[y] /\ e[y] = d[y]
  OBVIOUS
<1> HIDE DEF R, d
<1>4. SumFunction(f) \in Int /\ SumFunction(d) \in Int /\ SumFunction(f) = SumFunction(d) + f[x]
  BY <1>1, <1>2, SumOneMore
<1>5. SumFunction(e) \in Int /\ SumFunction(e) = SumFunction(d) + e[x]
  BY <1>1, <1>2, SumOneMore
<1>6. f[x] \in Int /\ e[x] \in Int
  OBVIOUS
<1> QED BY <1>4, <1>5, <1>6
=============================================================================
