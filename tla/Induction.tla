------------------------------- MODULE Induction -------------------------------
(***************************************************************************)
(* Induction over the naturals and recursive functions, in a form the      *)
(* provers can use: the predicate of the library's theorems is a set here, *)
(* and the step of a recursion is a function.                              *)
(***************************************************************************)
EXTENDS WellFoundedInduction, TLAPS

\* Some element of a nonempty set of naturals is the least one.
LEMMA LeastElement ==
  ASSUME NEW T, T \subseteq Nat, T # {}
  PROVE  \E x \in T : \A y \in T : x <= y
<1> DEFINE R == {ss \in Nat \X Nat : ss[1] < ss[2]}
<1>1. IsWellFoundedOn(R, Nat)
  BY NatLessThanWellFounded DEF OpToRel
<1> HIDE DEF R
<1>2. PICK x \in T : \A y \in T : ~ (<<y, x>> \in R)
  BY <1>1, WFMin
<1>3. ASSUME NEW y \in T PROVE x <= y
  <2>1. x \in Nat /\ y \in Nat /\ <<y, x>> \in Nat \X Nat
    OBVIOUS
  <2>2. y < x => <<y, x>> \in R
    BY <2>1 DEF R
  <2>3. QED BY <1>2, <2>1, <2>2
<1>4. QED BY <1>3

\* A set that holds 0, and with each natural the next one, holds them all.
LEMMA Induct ==
  ASSUME NEW T, 0 \in T, \A n \in Nat : n \in T => n + 1 \in T
  PROVE  \A n \in Nat : n \in T
<1> DEFINE U == Nat \ T
<1> SUFFICES ASSUME U # {} PROVE FALSE
  OBVIOUS
<1>1. U \subseteq Nat
  OBVIOUS
<1> HIDE DEF U
<1>2. PICK x \in U : \A y \in U : x <= y
  BY <1>1, LeastElement
<1>3. x \in Nat /\ x # 0 /\ x - 1 \in Nat
  BY <1>1 DEF U
<1>4. x - 1 \notin U
  BY <1>2, <1>3
<1>5. QED BY <1>2, <1>3, <1>4 DEF U

\* The same up to a bound, where the step may use that it is below it.
LEMMA InductUpTo ==
  ASSUME NEW K \in Nat, NEW T, 0 \in T,
         \A n \in 0 .. K - 1 : n \in T => n + 1 \in T
  PROVE  \A n \in 0 .. K : n \in T
<1> DEFINE U == {n \in Nat : n <= K => n \in T}
<1>1. 0 \in U
  OBVIOUS
<1>2. ASSUME NEW n \in Nat, n \in U PROVE n + 1 \in U
  BY <1>2
<1> HIDE DEF U
<1>3. \A n \in Nat : n \in U
  BY <1>1, <1>2, Induct
<1>4. QED BY <1>3 DEF U

\* The values a recursion from b takes, step by step: F[n] makes the n-th from
\* the one before it.
IsRecursive(g, K, b, F) ==
  /\ DOMAIN g = 0 .. K
  /\ g[0] = b
  /\ \A n \in 1 .. K : g[n] = F[n][g[n - 1]]

\* A recursion whose steps stay in V has a result.
LEMMA Recursion ==
  ASSUME NEW K \in Nat, NEW V, NEW b \in V, NEW F \in [1 .. K -> [V -> V]]
  PROVE  \E g \in [0 .. K -> V] : IsRecursive(g, K, b, F)
<1> DEFINE T == {k \in Nat : \E g \in [0 .. k -> V] : g[0] = b /\ \A n \in 1 .. k : g[n] = F[n][g[n - 1]]}
<1>1. 0 \in T
  <2> DEFINE g == [n \in 0 .. 0 |-> b]
  <2>1. g \in [0 .. 0 -> V] /\ g[0] = b /\ \A n \in 1 .. 0 : g[n] = F[n][g[n - 1]]
    OBVIOUS
  <2>2. QED BY <2>1
<1>2. ASSUME NEW k \in 0 .. K - 1, k \in T PROVE k + 1 \in T
  <2>1. PICK g \in [0 .. k -> V] : g[0] = b /\ \A n \in 1 .. k : g[n] = F[n][g[n - 1]]
    BY <1>2
  <2> DEFINE h == [n \in 0 .. k + 1 |-> IF n = k + 1 THEN F[k + 1][g[k]] ELSE g[n]]
  <2>2. F[k + 1] \in [V -> V] /\ g[k] \in V
    BY <2>1
  <2>3. h \in [0 .. k + 1 -> V]
    BY <2>2
  <2>4. h[0] = b
    BY <2>1
  <2>5. ASSUME NEW n \in 1 .. k + 1 PROVE h[n] = F[n][h[n - 1]]
    <3>1. n - 1 \in 0 .. k /\ h[n - 1] = g[n - 1]
      OBVIOUS
    <3>2. CASE n = k + 1
      <4>1. n - 1 = k /\ h[n] = F[k + 1][g[k]]
        BY <3>2
      <4>2. QED BY <3>1, <3>2, <4>1
    <3>3. CASE n # k + 1
      <4>1. n \in 1 .. k /\ h[n] = g[n]
        BY <3>3
      <4>2. QED BY <2>1, <3>1, <4>1
    <3>4. QED BY <3>2, <3>3
  <2> HIDE DEF h
  <2>6. k + 1 \in Nat
    OBVIOUS
  <2>7. QED BY <2>3, <2>4, <2>5, <2>6
<1> HIDE DEF T
<1>3. \A n \in 0 .. K : n \in T
  BY <1>1, <1>2, InductUpTo
<1>4. K \in T
  BY <1>3
<1>5. QED BY <1>4 DEF T, IsRecursive

\* f is computed by that recursion as long as its values are in V.
Computes(f, K, V, b, F) ==
  /\ f = [n \in 0 .. K |-> f[n]]
  /\ f[0] = b
  /\ \A n \in 1 .. K : f[n - 1] \in V => f[n] = F[n][f[n - 1]]

\* What a recursion whose steps stay in V computes is in V.
LEMMA RecursionType ==
  ASSUME NEW K \in Nat, NEW V, NEW b \in V, NEW F \in [1 .. K -> [V -> V]], NEW f,
         Computes(f, K, V, b, F)
  PROVE  f \in [0 .. K -> V] /\ IsRecursive(f, K, b, F)
<1>0. /\ f = [n \in 0 .. K |-> f[n]] /\ f[0] = b
      /\ \A n \in 1 .. K : f[n - 1] \in V => f[n] = F[n][f[n - 1]]
  BY DEF Computes
<1> DEFINE T == {n \in 0 .. K : f[n] \in V}
<1>1. 0 \in T
  BY <1>0
<1>2. ASSUME NEW n \in 0 .. K - 1, n \in T PROVE n + 1 \in T
  <2>1. n + 1 \in 1 .. K /\ (n + 1) - 1 = n /\ f[n] \in V
    BY <1>2
  <2>2. f[n + 1] = F[n + 1][f[n]]
    BY <1>0, <2>1
  <2>3. F[n + 1] \in [V -> V]
    BY <2>1
  <2>4. QED BY <2>1, <2>2, <2>3
<1> HIDE DEF T
<1>3. \A n \in 0 .. K : n \in T
  BY <1>1, <1>2, InductUpTo
<1>4. \A n \in 0 .. K : f[n] \in V
  BY <1>3 DEF T
<1>5. f \in [0 .. K -> V]
  BY <1>0, <1>4
<1>6. \A n \in 1 .. K : n - 1 \in 0 .. K
  OBVIOUS
<1>7. QED BY <1>0, <1>4, <1>5, <1>6 DEF IsRecursive

\* What holds of x if it holds of everything below it holds of all.
LEMMA RankedInduction ==
  ASSUME NEW S, NEW rank \in [S -> Nat], NEW T,
         \A x \in S : (\A y \in S : rank[y] < rank[x] => y \in T) => x \in T
  PROVE  S \subseteq T
<1> DEFINE U == {n \in Nat : \A x \in S : rank[x] < n => x \in T}
<1>1. 0 \in U
  <2>1. \A x \in S : ~ (rank[x] < 0)
    OBVIOUS
  <2>2. QED BY <2>1
<1>2. ASSUME NEW n \in Nat, n \in U PROVE n + 1 \in U
  <2>1. ASSUME NEW x \in S, rank[x] < n + 1 PROVE x \in T
    <3>1. \A y \in S : rank[y] < rank[x] => rank[y] < n
      BY <2>1
    <3>2. QED BY <1>2, <3>1
  <2>2. QED BY <2>1
<1> HIDE DEF U
<1>3. \A n \in Nat : n \in U
  BY <1>1, <1>2, Induct
<1>4. ASSUME NEW x \in S PROVE x \in T
  <2>1. rank[x] + 1 \in U /\ rank[x] < rank[x] + 1
    BY <1>3
  <2>2. QED BY <2>1 DEF U
<1>5. QED BY <1>4

\* F makes the value of x in V from the values of what is below x.
LooksBelow(F, S, V, rank) ==
  /\ rank \in [S -> Nat]
  /\ F \in [S -> [[S -> V] -> V]]
  /\ \A x \in S : \A g, h \in [S -> V] :
       (\A y \in S : rank[y] < rank[x] => g[y] = h[y]) => F[x][g] = F[x][h]

\* Such a recursion has a result.
LEMMA RankedRecursion ==
  ASSUME NEW S, NEW V, NEW v0 \in V, NEW rank, NEW F, LooksBelow(F, S, V, rank)
  PROVE  \E f \in [S -> V] : \A x \in S : f[x] = F[x][f]
<1> USE DEF LooksBelow
<1> DEFINE Up(f, n) == f \in [S -> V] /\ \A x \in S : rank[x] < n => f[x] = F[x][f]
           U == {n \in Nat : \E f \in [S -> V] : Up(f, n)}
<1>1. 0 \in U
  <2> DEFINE f == [x \in S |-> v0]
  <2>1. f \in [S -> V] /\ \A x \in S : ~ (rank[x] < 0)
    OBVIOUS
  <2>2. Up(f, 0)
    BY <2>1
  <2>3. QED BY <2>1, <2>2
<1>2. ASSUME NEW n \in Nat, n \in U PROVE n + 1 \in U
  <2>1. PICK f \in [S -> V] : Up(f, n)
    BY <1>2
  <2> DEFINE g == [x \in S |-> F[x][f]]
  <2>2. g \in [S -> V]
    OBVIOUS
  <2>3. \A x \in S : rank[x] < n => g[x] = f[x]
    BY <2>1
  <2>4. ASSUME NEW x \in S, rank[x] < n + 1 PROVE g[x] = F[x][g]
    <3>1. \A y \in S : rank[y] < rank[x] => f[y] = g[y]
      <4>1. \A y \in S : rank[y] < rank[x] => rank[y] < n
        BY <2>4
      <4>2. QED BY <2>3, <4>1
    <3>2. F[x][f] = F[x][g]
      BY <2>1, <2>2, <3>1
    <3>3. QED BY <3>2
  <2> HIDE DEF g
  <2>5. Up(g, n + 1)
    BY <2>2, <2>4
  <2>6. QED BY <2>2, <2>5
<1> HIDE DEF U
<1>3. \A n \in Nat : \E f \in [S -> V] : Up(f, n)
  <2>1. \A n \in Nat : n \in U
    BY <1>1, <1>2, Induct
  <2>2. QED BY <2>1 DEF U
<1>4. ASSUME NEW n \in Nat, NEW f, NEW g, Up(f, n), Up(g, n)
      PROVE  \A x \in S : rank[x] < n => f[x] = g[x]
  <2> DEFINE T == {x \in S : rank[x] < n => f[x] = g[x]}
  <2>1. ASSUME NEW x \in S, \A y \in S : rank[y] < rank[x] => y \in T PROVE x \in T
    <3>1. CASE ~ (rank[x] < n)
      BY <3>1
    <3>2. CASE rank[x] < n
      <4>1. \A y \in S : rank[y] < rank[x] => f[y] = g[y]
        <5>1. \A y \in S : rank[y] < rank[x] => rank[y] < n
          BY <3>2
        <5>2. QED BY <2>1, <5>1
      <4>2. f \in [S -> V] /\ g \in [S -> V] /\ f[x] = F[x][f] /\ g[x] = F[x][g]
        BY <1>4, <3>2
      <4>3. F[x][f] = F[x][g]
        BY <4>1, <4>2
      <4>4. QED BY <4>2, <4>3
    <3>3. QED BY <3>1, <3>2
  <2> HIDE DEF T
  <2>2. S \subseteq T
    BY <2>1, RankedInduction
  <2>3. QED BY <2>2 DEF T
<1> DEFINE w(n) == CHOOSE f \in [S -> V] : Up(f, n)
<1>5. ASSUME NEW n \in Nat PROVE Up(w(n), n)
  BY <1>3, <1>5
<1> HIDE DEF w
<1> DEFINE f == [x \in S |-> w(rank[x] + 1)[x]]
<1>6. ASSUME NEW x \in S PROVE rank[x] + 1 \in Nat /\ rank[x] < rank[x] + 1 /\ Up(w(rank[x] + 1), rank[x] + 1)
  BY <1>5
<1>7. f \in [S -> V]
  BY <1>6
<1>8. ASSUME NEW x \in S PROVE f[x] = F[x][f]
  <2> DEFINE g == w(rank[x] + 1)
  <2>1. Up(g, rank[x] + 1)
    BY <1>6
  <2>2. ASSUME NEW y \in S, rank[y] < rank[x] PROVE f[y] = g[y]
    <3>1. Up(w(rank[y] + 1), rank[y] + 1) /\ rank[y] + 1 \in Nat /\ rank[y] < rank[y] + 1
      BY <1>6
    <3>2. Up(g, rank[y] + 1)
      BY <2>1, <2>2
    <3>3. w(rank[y] + 1)[y] = g[y]
      BY <1>4, <3>1, <3>2
    <3>4. QED BY <3>3
  <2>3. g \in [S -> V] /\ g[x] = F[x][g]
    BY <1>6, <2>1
  <2>4. f[x] = g[x]
    OBVIOUS
  <2> HIDE DEF f, g
  <2>5. F[x][f] = F[x][g]
    BY <1>7, <2>2, <2>3
  <2>6. QED BY <2>3, <2>4, <2>5
<1> HIDE DEF f
<1>9. QED BY <1>7, <1>8
=============================================================================
