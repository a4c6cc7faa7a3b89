------------------------------ MODULE Recursion ------------------------------
(***************************************************************************)
(* Induction over the natural numbers, and the functions it defines, as    *)
(* statements about sets, which every prover can instantiate.  They rest   *)
(* on the library's theorem that the finite sets are well-founded under    *)
(* inclusion: the naturals are the sets 1 .. n.                            *)
(***************************************************************************)
EXTENDS Integers, FiniteSetTheorems, TLAPS

\* A set of naturals has a least member.
LEMMA LeastNatural ==
  ASSUME NEW S, S \subseteq Nat, S # {}
  PROVE  \E n \in S : \A m \in S : n <= m
<1> DEFINE T == {1 .. n : n \in S}
<1>1. T \subseteq FiniteSubsetsOf(Nat) /\ T # {}
  <2>1. ASSUME NEW n \in S PROVE IsFiniteSet(1 .. n)
    <3>1. n \in Int /\ 1 \in Int
      OBVIOUS
    <3> QED BY <3>1, FS_Interval, Zenon
  <2>2. \A n \in S : 1 .. n \subseteq Nat
    OBVIOUS
  <2> QED BY <2>1, <2>2 DEF FiniteSubsetsOf
<1> HIDE DEF T
<1>2. PICK x \in T : \A y \in T : <<y, x>> \notin StrictSubsetOrdering(Nat)
  BY <1>1, WFMin, FS_StrictSubsetOrderingWellFounded, Zenon
<1>3. PICK n \in S : x = 1 .. n
  BY DEF T
<1>4. ASSUME NEW m \in S PROVE n <= m
  <2>1. SUFFICES ASSUME m < n PROVE FALSE
    BY n \in Nat, m \in Nat
  <2>2. 1 .. m \in T
    BY DEF T
  <2>3. <<1 .. m, 1 .. n>> \notin StrictSubsetOrdering(Nat)
    BY <1>2, <1>3, <2>2
  <2>4. /\ n \in 1 .. n /\ n \notin 1 .. m
        /\ 1 .. m \subseteq 1 .. n /\ 1 .. m \subseteq Nat /\ 1 .. n \subseteq Nat
    BY <2>1, n \in Nat, m \in Nat
  <2> QED BY <2>3, <2>4 DEF StrictSubsetOrdering
<1> QED BY <1>3, <1>4

\* Induction up to a bound: the form in which sequences and recursive
\* functions over 0 .. Len(s) use it.
LEMMA UpTo ==
  ASSUME NEW N \in Nat, NEW S, 0 \in S,
         \A n \in Nat : n < N /\ n \in S => n + 1 \in S
  PROVE  \A n \in 0 .. N : n \in S
<1>1. SUFFICES ASSUME NEW k \in 0 .. N, k \notin S PROVE FALSE
  OBVIOUS
<1> DEFINE Rest == {n \in Nat : n \notin S}
<1>2. Rest \subseteq Nat /\ Rest # {}
  BY <1>1
<1>3. PICK n \in Rest : \A m \in Rest : n <= m
  <2> HIDE DEF Rest
  <2> QED BY <1>2, LeastNatural, Zenon
<1>4. n \in Nat /\ n # 0 /\ n <= N
  BY <1>1, <1>3
<1>5. n - 1 \in Nat /\ n - 1 < N /\ (n - 1) + 1 = n
  BY <1>4
<1>6. n - 1 \in S
  BY <1>3, <1>5
<1> QED BY <1>3, <1>5, <1>6

\* f starts with first and goes on, up to N, from each value to the next.
Recurses(f, N, V, first, next) ==
  /\ f \in [0 .. N -> V]
  /\ f[0] = first
  /\ \A n \in 1 .. N : f[n] = next[n][f[n - 1]]

\* There is such a function.
THEOREM RecursionExists ==
  ASSUME NEW N \in Nat, NEW V, NEW first \in V, NEW next \in [1 .. N -> [V -> V]]
  PROVE  \E f : Recurses(f, N, V, first, next)
<1> DEFINE Upto(f, k) ==
      /\ f \in [0 .. N -> V]
      /\ f[0] = first
      /\ \A n \in 1 .. k : f[n] = next[n][f[n - 1]]
    S == {k \in 0 .. N : \E f : Upto(f, k)}
<1>1. 0 \in S
  <2>1. Upto([n \in 0 .. N |-> first], 0)
    OBVIOUS
  <2>2. \E f : Upto(f, 0)
    <3> HIDE DEF Upto
    <3> QED BY <2>1, Zenon
  <2> QED BY <2>2
<1>2. ASSUME NEW k \in Nat, k < N, k \in S PROVE k + 1 \in S
  <2>1. PICK f : Upto(f, k)
    BY <1>2
  <2>2. f[k] \in V /\ k + 1 \in 1 .. N /\ k + 1 # 0
    BY <1>2, <2>1
  <2>3. next[k + 1][f[k]] \in V
    BY <2>2
  <2> DEFINE g == [f EXCEPT ![k + 1] = next[k + 1][f[k]]]
  <2>4. g \in [0 .. N -> V] /\ g[0] = first
    BY <2>1, <2>2, <2>3
  <2>5. ASSUME NEW n \in 1 .. (k + 1) PROVE g[n] = next[n][g[n - 1]]
    <3>1. n \in 0 .. N /\ n - 1 \in 0 .. N /\ n - 1 # k + 1
      BY <1>2
    <3>2. g[n - 1] = f[n - 1]
      BY <2>1, <3>1
    <3>3. CASE n = k + 1
      <4>1. n - 1 = k
        BY <3>3, <1>2
      <4> QED BY <2>1, <2>2, <3>2, <3>3, <4>1
    <3>4. CASE n # k + 1
      <4>1. n \in 1 .. k
        BY <3>4, <1>2
      <4> QED BY <2>1, <3>1, <3>2, <3>4, <4>1
    <3> QED BY <3>3, <3>4
  <2>6. Upto(g, k + 1)
    <3> HIDE DEF g
    <3> QED BY <2>4, <2>5
  <2>7. \E h : Upto(h, k + 1)
    <3> HIDE DEF Upto
    <3> QED BY <2>6, Zenon
  <2> QED BY <2>2, <2>7
<1>3. N \in S
  <2> HIDE DEF S
  <2>1. \A n \in 0 .. N : n \in S
    BY <1>1, <1>2, UpTo, Zenon
  <2> QED BY <2>1
<1> QED BY <1>3 DEF Recurses
=============================================================================
