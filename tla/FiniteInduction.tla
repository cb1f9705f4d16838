--------------------------- MODULE FiniteInduction ---------------------------
(***************************************************************************)
(* Induction, recursion and sorting, stated for sets and functions, so     *)
(* that the proofs about the operators of the models can cite them.        *)
(***************************************************************************)
EXTENDS Integers, FiniteSets, WellFoundedInduction, FiniteSetTheorems, TLAPS

(* A set of numbers with an element has a least one.                        *)
THEOREM LeastNumber ==
  ASSUME NEW T \in SUBSET Nat, T # {}
  PROVE  \E x \in T : \A y \in T : x <= y
<1>1. IsWellFoundedOn(OpToRel(<, Nat), Nat)
  BY NatLessThanWellFounded
<1>2. PICK x \in T : \A y \in T : ~(<<y, x>> \in OpToRel(<, Nat))
  BY <1>1, WFMin
<1>3. \A y \in T : ~(y < x)
  BY <1>2 DEF OpToRel
<1> QED
  BY <1>3

(* A set that holds 0 and, with a number, the next one, holds all of them.  *)
THEOREM NumberInduction ==
  ASSUME NEW N \in Nat, NEW A, 0 \in A,
         \A n \in 1 .. N : n - 1 \in A => n \in A
  PROVE  0 .. N \subseteq A
<1> DEFINE T == {n \in 0 .. N : n \notin A}
<1>1. ASSUME T # {}
      PROVE  FALSE
  <2>1. T \in SUBSET Nat
    OBVIOUS
  <2>2. PICK x \in T : \A y \in T : x <= y
    BY <1>1, <2>1, LeastNumber
  <2>3. x \in 1 .. N /\ x - 1 \in 0 .. N
    OBVIOUS
  <2>4. x - 1 \in A
    BY <2>2, <2>3
  <2> QED
    BY <2>2, <2>3, <2>4
<1> QED
  BY <1>1

(* A function on numbers whose values stay in a set from each to the next.  *)
THEOREM FunctionInduction ==
  ASSUME NEW N \in Nat, NEW S, NEW f, DOMAIN f = 0 .. N, f = [n \in 0 .. N |-> f[n]],
         f[0] \in S, \A n \in 1 .. N : f[n - 1] \in S => f[n] \in S
  PROVE  f \in [0 .. N -> S]
<1> DEFINE A == {n \in 0 .. N : f[n] \in S}
<1>1. 0 \in A /\ \A n \in 1 .. N : n - 1 \in A => n \in A
  OBVIOUS
<1> HIDE DEF A
<1>2. 0 .. N \subseteq A
  BY <1>1, NumberInduction
<1> QED
  BY <1>2 DEF A

IsRecursive(f, N, first, step) ==
  f[0] = first /\ \A n \in 1 .. N : f[n] = step[n][f[n - 1]]

(* A function defined by its first value and, from each value, the next.    *)
THEOREM FiniteRecursion ==
  ASSUME NEW N \in Nat, NEW S, NEW first \in S, NEW step \in [1 .. N -> [S -> S]]
  PROVE  \E f \in [0 .. N -> S] : IsRecursive(f, N, first, step)
<1> DEFINE Upto(m) == \E f \in [0 .. m -> S] :
                        f[0] = first /\ \A n \in 1 .. m : f[n] = step[n][f[n - 1]]
           A == {m \in 0 .. N : Upto(m)}
<1>1. 0 \in A
  <2> DEFINE g == [n \in 0 .. 0 |-> first]
  <2>1. g \in [0 .. 0 -> S] /\ g[0] = first
    OBVIOUS
  <2> HIDE DEF g
  <2>2. Upto(0)
    BY <2>1
  <2> QED
    BY <2>2
<1>2. ASSUME NEW m \in 1 .. N, m - 1 \in A
      PROVE  m \in A
  <2>1. PICK f \in [0 .. m - 1 -> S] :
          f[0] = first /\ \A n \in 1 .. m - 1 : f[n] = step[n][f[n - 1]]
    BY <1>2
  <2> DEFINE g == [n \in 0 .. m |-> IF n = m THEN step[m][f[m - 1]] ELSE f[n]]
  <2>2. f[m - 1] \in S /\ m \in 1 .. N
    OBVIOUS
  <2>3. g \in [0 .. m -> S]
    BY <2>2
  <2>4. g[0] = first /\ g[m] = step[m][g[m - 1]]
    <3>1. 0 \in 0 .. m /\ m - 1 \in 0 .. m /\ 0 # m /\ m - 1 # m /\ m \in 0 .. m
      OBVIOUS
    <3>2. g[0] = f[0] /\ g[m - 1] = f[m - 1] /\ g[m] = step[m][f[m - 1]]
      BY <3>1
    <3> HIDE DEF g
    <3> QED
      BY <2>1, <3>2
  <2>5. \A n \in 1 .. m - 1 : g[n] = step[n][g[n - 1]]
    BY <2>1
  <2> HIDE DEF g
  <2>6. ASSUME NEW n \in 1 .. m
        PROVE  g[n] = step[n][g[n - 1]]
    <3>1. n = m \/ n \in 1 .. m - 1
      OBVIOUS
    <3> QED
      BY <2>4, <2>5, <3>1
  <2> QED
    BY <2>3, <2>4, <2>6
<1> HIDE DEF A
<1>3. 0 .. N \subseteq A
  BY <1>1, <1>2, NumberInduction
<1>4. N \in A
  BY <1>3
<1> QED
  BY <1>4 DEF A, IsRecursive

-----------------------------------------------------------------------------
(* The same from the greatest number down.                                  *)

(* A set that holds N and, with a number, the one before, holds all of them. *)
THEOREM DownwardInduction ==
  ASSUME NEW N \in Nat, NEW A, N \in A,
         \A n \in 1 .. N : n \in A => n - 1 \in A
  PROVE  0 .. N \subseteq A
<1> DEFINE B == {k \in 0 .. N : N - k \in A}
<1>1. 0 \in B
  OBVIOUS
<1>2. ASSUME NEW k \in 1 .. N, k - 1 \in B
      PROVE  k \in B
  <2>1. N - (k - 1) \in 1 .. N /\ N - (k - 1) \in A /\ (N - (k - 1)) - 1 = N - k
    BY <1>2
  <2> QED
    BY <2>1
<1> HIDE DEF B
<1>3. 0 .. N \subseteq B
  BY <1>1, <1>2, NumberInduction
<1>4. ASSUME NEW n \in 0 .. N
      PROVE  n \in A
  <2>1. N - n \in B /\ N - (N - n) = n
    BY <1>3
  <2> QED
    BY <2>1 DEF B
<1> QED
  BY <1>4

IsDownward(f, N, last, step) ==
  f[N] = last /\ \A n \in 1 .. N : f[n - 1] = step[n][f[n]]

(* A function defined by its last value and, from each value, the previous. *)
THEOREM DownwardRecursion ==
  ASSUME NEW N \in Nat, NEW S, NEW last \in S, NEW step \in [1 .. N -> [S -> S]]
  PROVE  \E f \in [0 .. N -> S] : IsDownward(f, N, last, step)
<1> DEFINE up == [k \in 1 .. N |-> step[N + 1 - k]]
<1>1. up \in [1 .. N -> [S -> S]] /\ \A k \in 1 .. N : up[k] = step[N + 1 - k]
  OBVIOUS
<1> HIDE DEF up
<1>2. PICK g \in [0 .. N -> S] : IsRecursive(g, N, last, up)
  BY <1>1, FiniteRecursion
<1> DEFINE f == [n \in 0 .. N |-> g[N - n]]
<1>3. f \in [0 .. N -> S]
  BY <1>2
<1>4. f[N] = last
  BY <1>2 DEF IsRecursive
<1>5. ASSUME NEW n \in 1 .. N
      PROVE  f[n - 1] = step[n][f[n]]
  <2> DEFINE k == N - n + 1
  <2>1. /\ k \in 1 .. N /\ N + 1 - k = n /\ N - (n - 1) = k /\ k - 1 = N - n
        /\ n - 1 \in 0 .. N /\ n \in 0 .. N
    OBVIOUS
  <2>2. f[n - 1] = g[k] /\ f[n] = g[k - 1]
    BY <2>1
  <2> HIDE DEF f, k
  <2>3. g[k] = up[k][g[k - 1]]
    BY <1>2, <2>1 DEF IsRecursive
  <2> QED
    BY <1>1, <2>1, <2>2, <2>3
<1> HIDE DEF f
<1> QED
  BY <1>3, <1>4, <1>5 DEF IsDownward

(* A function whose values stay in a set from each to the previous.          *)
THEOREM DownwardFunction ==
  ASSUME NEW N \in Nat, NEW S, NEW f, DOMAIN f = 0 .. N, f = [n \in 0 .. N |-> f[n]],
         f[N] \in S, \A n \in 1 .. N : f[n] \in S => f[n - 1] \in S
  PROVE  f \in [0 .. N -> S]
<1> DEFINE A == {n \in 0 .. N : f[n] \in S}
<1>1. N \in A /\ \A n \in 1 .. N : n \in A => n - 1 \in A
  OBVIOUS
<1> HIDE DEF A
<1>2. 0 .. N \subseteq A
  BY <1>1, DownwardInduction
<1> QED
  BY <1>2 DEF A

-----------------------------------------------------------------------------
(* Counting.                                                               *)

(* A set of numbers up to n that holds those below each of its elements is   *)
(* an initial segment, as long as it has elements.                          *)
THEOREM InitialSegment ==
  ASSUME NEW n \in Nat, NEW S \in SUBSET (1 .. n),
         \A i \in S : \A j \in 1 .. n : j <= i => j \in S
  PROVE  Cardinality(S) \in 0 .. n /\ S = 1 .. Cardinality(S)
<1> DEFINE T == {i \in 1 .. n + 1 : i \notin S}
<1>1. T \in SUBSET Nat /\ n + 1 \in T
  OBVIOUS
<1>2. PICK k \in T : \A i \in T : k <= i
  BY <1>1, LeastNumber
<1>5. k \in 1 .. n + 1 /\ k \notin S
  OBVIOUS
<1>6. ASSUME NEW i \in S
      PROVE  i \in 1 .. k - 1
  <2>1. i \in 1 .. n /\ (k \in 1 .. n /\ k <= i => k \in S)
    OBVIOUS
  <2> QED
    BY <1>5, <2>1
<1>7. ASSUME NEW i \in 1 .. k - 1
      PROVE  i \in S
  <2>1. i \in 1 .. n + 1 /\ ~(k <= i)
    BY <1>5
  <2> QED
    BY <1>2, <2>1
<1>3. k \in 1 .. n + 1 /\ S = 1 .. k - 1
  BY <1>5, <1>6, <1>7
<1>4. Cardinality(1 .. k - 1) = k - 1
  BY <1>3, FS_Interval
<1> QED
  BY <1>3, <1>4

(* One that holds those above each of its elements is a final segment.       *)
THEOREM FinalSegment ==
  ASSUME NEW n \in Nat, NEW S \in SUBSET (1 .. n),
         \A i \in S : \A j \in 1 .. n : i <= j => j \in S
  PROVE  Cardinality(S) \in 0 .. n /\ S = n - Cardinality(S) + 1 .. n
<1> DEFINE C == (1 .. n) \ S
<1>1. C \in SUBSET (1 .. n) /\ \A i \in C : \A j \in 1 .. n : j <= i => j \in C
  OBVIOUS
<1> HIDE DEF C
<1>2. Cardinality(C) \in 0 .. n /\ C = 1 .. Cardinality(C)
  BY <1>1, InitialSegment
<1>3. S = Cardinality(C) + 1 .. n
  <2> DEFINE c == Cardinality(C)
  <2>1. c \in 0 .. n /\ \A i \in 1 .. n : i \in S <=> i \notin 1 .. c
    BY <1>2 DEF C
  <2> HIDE DEF c
  <2>2. ASSUME NEW i \in S
        PROVE  i \in c + 1 .. n
    <3>1. i \in 1 .. n /\ i \notin 1 .. c
      BY <2>1
    <3> QED
      BY <2>1, <3>1
  <2>3. ASSUME NEW i \in c + 1 .. n
        PROVE  i \in S
    BY <2>1
  <2> QED
    BY <2>2, <2>3 DEF c
<1>4. Cardinality(S) = n - Cardinality(C)
  BY <1>2, <1>3, FS_Interval
<1> QED
  BY <1>2, <1>3, <1>4

-----------------------------------------------------------------------------
(* R orders the elements of K, each before or after each other.            *)
OrdersStrictly(R, K) ==
  /\ \A x \in K : <<x, x>> \notin R
  /\ \A x, y, z \in K : <<x, y>> \in R /\ <<y, z>> \in R => <<x, z>> \in R
  /\ \A x, y \in K : x = y \/ <<x, y>> \in R \/ <<y, x>> \in R

Before(R, K, x) == {y \in K : <<y, x>> \in R}

(* The number of elements before one is its place, and each place has one.  *)
THEOREM PlacesOfOrdered ==
  ASSUME NEW K, IsFiniteSet(K), NEW R, OrdersStrictly(R, K)
  PROVE  /\ \A x \in K : Cardinality(Before(R, K, x)) \in 0 .. Cardinality(K) - 1
         /\ \A x, y \in K :
              <<x, y>> \in R => Cardinality(Before(R, K, x)) < Cardinality(Before(R, K, y))
         /\ \A i \in 1 .. Cardinality(K) :
              \E x \in K : Cardinality(Before(R, K, x)) = i - 1
<1> DEFINE n == Cardinality(K)
           place == [x \in K |-> Cardinality(Before(R, K, x)) + 1]
<1>1. n \in Nat
  BY FS_CardinalityType
<1>2. ASSUME NEW x \in K
      PROVE  /\ IsFiniteSet(Before(R, K, x)) /\ Cardinality(Before(R, K, x)) \in Nat
             /\ Cardinality(Before(R, K, x)) < n
  <2>1. Before(R, K, x) \subseteq K /\ x \notin Before(R, K, x)
    BY DEF Before, OrdersStrictly
  <2> QED
    BY <2>1, FS_Subset, FS_CardinalityType
<1>3. ASSUME NEW x \in K, NEW y \in K, <<x, y>> \in R
      PROVE  Cardinality(Before(R, K, x)) < Cardinality(Before(R, K, y))
  <2>1. Before(R, K, x) \subseteq Before(R, K, y)
    BY <1>3 DEF Before, OrdersStrictly
  <2>2. x \in Before(R, K, y) /\ x \notin Before(R, K, x)
    BY <1>3 DEF Before, OrdersStrictly
  <2> QED
    BY <1>2, <2>1, <2>2, FS_Subset
<1> HIDE DEF n
<1>4. place \in Injection(K, 1 .. n)
  <2>1. place \in [K -> 1 .. n]
    BY <1>1, <1>2
  <2>2. ASSUME NEW x \in K, NEW y \in K, place[x] = place[y]
        PROVE  x = y
    <3>1. Cardinality(Before(R, K, x)) = Cardinality(Before(R, K, y))
      BY <1>2, <2>2
    <3>2. <<x, y>> \notin R /\ <<y, x>> \notin R
      BY <1>2, <1>3, <3>1
    <3> QED
      BY <3>2 DEF OrdersStrictly
  <2> HIDE DEF place
  <2> QED
    BY <2>1, <2>2 DEF Injection, IsInjective
<1>5. IsFiniteSet(1 .. n) /\ Cardinality(1 .. n) = n
  <2>1. n \in Int /\ 1 \in Int
    BY <1>1
  <2>2. IsFiniteSet(1 .. n) /\ Cardinality(1 .. n) = IF 1 > n THEN 0 ELSE n - 1 + 1
    BY <2>1, FS_Interval
  <2> QED
    BY <1>1, <2>2
<1>6. place \in Surjection(K, 1 .. n)
  <2>1. Cardinality(K) = Cardinality(1 .. n)
    BY <1>5 DEF n
  <2> HIDE DEF place
  <2> QED
    BY <1>4, <1>5, <2>1, FS_Injection
<1>7. \A i \in 1 .. n : \E x \in K : place[x] = i
  BY <1>6 DEF Surjection
<1>8. \A i \in 1 .. n : \E x \in K : Cardinality(Before(R, K, x)) = i - 1
  BY <1>1, <1>2, <1>7
<1>9. \A x \in K : Cardinality(Before(R, K, x)) \in 0 .. n - 1
  BY <1>1, <1>2
<1> QED
  BY <1>3, <1>8, <1>9 DEF n

=============================================================================
