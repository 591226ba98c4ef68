--------------------------- MODULE RecursionLemmas ---------------------------
(* Induction over the naturals with a set in the place of a predicate, and *)
(* what it gives: a function defined by recursion on 0 .. N exists.  The   *)
(* modules compute with such functions over rows and messages.             *)
EXTENDS Naturals, WellFoundedInduction, TLAPS

(* Every set of naturals that is not empty has a least element.            *)
LEMMA LeastNumber ==
    ASSUME NEW T, T \subseteq Nat, T # {}
    PROVE  \E m \in T : \A k \in T : m <= k
<1> DEFINE R == OpToRel(<, Nat)
<1>1. IsWellFoundedOn(R, Nat)
  BY NatLessThanWellFounded
<1>2. \E m \in T : \A k \in T : ~(<<k, m>> \in R)
  <2> HIDE DEF R
  <2> QED BY <1>1, WFMin
<1>3. \A k, m \in Nat : k < m => <<k, m>> \in R
  BY DEF OpToRel
<1>4. PICK m \in T : \A k \in T : ~(<<k, m>> \in R)
  BY <1>2
<1>5. ASSUME NEW k \in T PROVE m <= k
  <2>1. ~(<<k, m>> \in R)
    BY <1>4
  <2>2. k \in Nat /\ m \in Nat
    OBVIOUS
  <2>3. ~(k < m)
    <3> HIDE DEF R
    <3> QED BY <1>3, <2>1, <2>2, Zenon
  <2> QED BY <2>2, <2>3
<1> QED BY <1>4, <1>5

(* A set that holds 0 and with every number the next holds all of them.    *)
LEMMA Induction ==
    ASSUME NEW S, 0 \in S, \A n \in Nat : n \in S => n + 1 \in S
    PROVE  \A n \in Nat : n \in S
<1> SUFFICES ASSUME Nat \ S # {} PROVE FALSE
  OBVIOUS
<1>1. PICK m \in Nat \ S : \A k \in Nat \ S : m <= k
  BY LeastNumber
<1>2. m - 1 \in Nat
  BY <1>1
<1>3. m - 1 \in S
  BY <1>1, <1>2
<1> QED BY <1>1, <1>2, <1>3

(* The same up to a bound.                                                 *)
LEMMA BoundedInduction ==
    ASSUME NEW S, NEW N \in Nat, 0 \in S, \A n \in 0 .. N : n < N /\ n \in S => n + 1 \in S
    PROVE  \A n \in 0 .. N : n \in S
<1> DEFINE T == { n \in Nat : n <= N => n \in S }
<1>1. 0 \in T
  OBVIOUS
<1>2. ASSUME NEW n \in Nat, n \in T PROVE n + 1 \in T
  BY <1>2
<1>3. \A n \in Nat : n \in T
  <2> HIDE DEF T
  <2> QED BY <1>1, <1>2, Induction
<1> QED BY <1>3

(* h on 0 .. N starts with b and goes on by the step function g.           *)
Solves(h, N, A, b, g) ==
    h \in [0 .. N -> A] /\ h[0] = b /\ \A i \in 1 .. N : h[i] = g[i][h[i - 1]]

(* A recursion whose step stays within A has a solution within A.          *)
LEMMA RecursionExists ==
    ASSUME NEW N \in Nat, NEW A, NEW b \in A, NEW g \in [1 .. N -> [A -> A]]
    PROVE  \E h : Solves(h, N, A, b, g)
<1> DEFINE S == { n \in 0 .. N : \E h : Solves(h, n, A, b, g) }
<1>1. 0 \in S
  <2>1. Solves([i \in 0 .. 0 |-> b], 0, A, b, g)
    BY DEF Solves
  <2> QED BY <2>1
<1>2. ASSUME NEW n \in 0 .. N, n < N, n \in S PROVE n + 1 \in S
  <2>1. PICK h : Solves(h, n, A, b, g)
    BY <1>2
  <2> DEFINE k == [i \in 0 .. n + 1 |-> IF i <= n THEN h[i] ELSE g[n + 1][h[n]]]
  <2>2. n + 1 \in 1 .. N /\ h[n] \in A
    BY <1>2, <2>1 DEF Solves
  <2>3. k \in [0 .. n + 1 -> A]
    BY <1>2, <2>1, <2>2 DEF Solves
  <2>4. \A i \in 1 .. n + 1 : k[i] = g[i][k[i - 1]]
    BY <1>2, <2>1, <2>2 DEF Solves
  <2>5. k[0] = b
    BY <1>2, <2>1 DEF Solves
  <2>6. Solves(k, n + 1, A, b, g)
    BY <2>3, <2>4, <2>5 DEF Solves
  <2> HIDE DEF k
  <2> QED BY <2>2, <2>6
<1>3. \A n \in 0 .. N : n \in S
  <2> HIDE DEF S
  <2> QED BY <1>1, <1>2, BoundedInduction
<1> QED BY <1>3

(* A function on P that is computed from its values at lower ranks.        *)
Local(g, P, rank) ==
    \A f1, f2 \in [P -> Nat], t \in P :
        (\A u \in P : rank[u] < rank[t] => f1[u] = f2[u]) => g[f1][t] = g[f2][t]

LEMMA FixedPoint ==
    ASSUME NEW P, NEW N \in Nat, NEW rank \in [P -> Nat], \A t \in P : rank[t] < N,
           NEW g \in [[P -> Nat] -> [P -> Nat]], Local(g, P, rank)
    PROVE  \E f \in [P -> Nat] : f = g[f]
<1> DEFINE A == [P -> Nat]
           z == [t \in P |-> 0]
           k == [i \in 1 .. N + 1 |-> g]
<1>1. z \in A /\ k \in [1 .. N + 1 -> [A -> A]] /\ N + 1 \in Nat
  OBVIOUS
<1>2. PICK h : Solves(h, N + 1, A, z, k)
  <2> HIDE DEF A, z, k
  <2> QED BY <1>1, RecursionExists
<1>3. h \in [0 .. N + 1 -> A] /\ \A i \in 1 .. N + 1 : h[i] = g[h[i - 1]]
  <2>1. h \in [0 .. N + 1 -> A] /\ \A i \in 1 .. N + 1 : h[i] = k[i][h[i - 1]]
    <3> HIDE DEF A, z, k
    <3> QED BY <1>2 DEF Solves
  <2> HIDE DEF A
  <2> QED BY <2>1
<1>4. ASSUME NEW i \in 0 .. N PROVE h[i] \in A /\ h[i + 1] \in A /\ h[i + 1] = g[h[i]]
  <2>1. i + 1 \in 1 .. N + 1 /\ i \in 0 .. N + 1 /\ i + 1 \in 0 .. N + 1 /\ (i + 1) - 1 = i
    OBVIOUS
  <2> HIDE DEF A
  <2> QED BY <1>3, <2>1
<1> HIDE DEF A, z, k
<1> DEFINE S == { i \in 0 .. N : \A t \in P : rank[t] < i => h[i + 1][t] = h[i][t] }
<1>5. 0 \in S
  <2>1. \A t \in P : ~(rank[t] < 0)
    OBVIOUS
  <2> QED BY <2>1
<1>6. ASSUME NEW i \in 0 .. N, i < N, i \in S PROVE i + 1 \in S
  <2>1. i + 1 \in 0 .. N
    BY <1>6
  <2>2. PICK f1 : f1 = h[i]
    OBVIOUS
  <2>3. PICK f2 : f2 = h[i + 1]
    OBVIOUS
  <2>4. f1 \in A /\ f2 \in A /\ f2 = g[f1] /\ h[(i + 1) + 1] = g[f2]
    BY <1>4, <2>1, <2>2, <2>3
  <2>5. ASSUME NEW t \in P, rank[t] < i + 1 PROVE g[f2][t] = f2[t]
    <3>1. ASSUME NEW u \in P, rank[u] < rank[t] PROVE f1[u] = f2[u]
      <4>1. rank[u] < i
        BY <2>5, <3>1
      <4> QED BY <1>6, <2>2, <2>3, <4>1
    <3>2. g[f1][t] = g[f2][t]
      BY <2>4, <3>1 DEF Local, A
    <3> QED BY <2>4, <3>2
  <2> QED BY <2>1, <2>3, <2>4, <2>5
<1>7. N \in S
  <2>1. \A i \in 0 .. N : i \in S
    <3> HIDE DEF S
    <3> QED BY <1>5, <1>6, BoundedInduction
  <2>2. N \in 0 .. N
    OBVIOUS
  <2> HIDE DEF S
  <2> QED BY <2>1, <2>2
<1>8. PICK f : f = h[N]
  OBVIOUS
<1>9. PICK e : e = h[N + 1]
  OBVIOUS
<1>10. f \in [P -> Nat] /\ e \in [P -> Nat] /\ e = g[f]
  <2>1. N \in 0 .. N
    OBVIOUS
  <2> QED BY <1>4, <1>8, <1>9, <2>1 DEF A
<1>11. \A t \in P : e[t] = f[t]
  BY <1>7, <1>8, <1>9
<1>12. e = f
  BY <1>10, <1>11
<1> QED BY <1>10, <1>12
=============================================================================
