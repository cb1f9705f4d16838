------------------------ MODULE ExportContentProofs ------------------------
(***************************************************************************)
(* What an export stores (ExportPipeline), for every set of exports: when  *)
(* no chunk is sent before its last row, every cell of the array reads as  *)
(* the query's value or as it should without one.                          *)
(***************************************************************************)
EXTENDS ExportPipelineProofs

-----------------------------------------------------------------------------
(* The row-major place of a cell in its chunk.                             *)

Sizes(n) == [1 .. n -> Nat \ {0}]
Tuples(n) == [1 .. n -> Int]

(* v is the sequence of volumes of the leading dimensions, and f of the     *)
(* places that r has among these.                                          *)
IsVolumes(v, cs, n) ==
  v[0] = 1 /\ \A d \in 1 .. n : v[d] = v[d - 1] * cs[d]
SamePlace(r, q, cs, m) == \A d \in 1 .. m : r[d] % cs[d] = q[d] % cs[d]
IsFlat(f, r, cs, n) ==
  /\ f \in [0 .. n -> Nat]
  /\ f[0] = 0 /\ \A d \in 1 .. n : f[d] = f[d - 1] * cs[d] + (r[d] % cs[d])

(* The volumes of the leading dimensions lead to the volume.               *)
LEMMA VolumesOf ==
  ASSUME NEW n \in Nat, NEW cs \in Sizes(n)
  PROVE  \E v \in [0 .. n -> Nat \ {0}] : IsVolumes(v, cs, n) /\ Volume(cs) = v[n]
<1> DEFINE P == Nat \ {0}
           Volumes(f) == f = [d \in 0 .. n |-> IF d = 0 THEN 1 ELSE f[d - 1] * cs[d]]
           volume == CHOOSE f : Volumes(f)
<1>1. Len(cs) = n /\ cs \in [1 .. n -> P]
  BY LenProperties, SeqDef DEF Sizes
<1>2. Volume(cs) = volume[n]
  BY <1>1 DEF Volume
<1>3. \A v, c \in P : v * c \in P
  OBVIOUS
<1>4. \E f \in [0 .. n -> P] : Volumes(f)
  <2> DEFINE step == [d \in 1 .. n |-> [v \in P |-> v * cs[d]]]
  <2>1. step \in [1 .. n -> [P -> P]]
    BY <1>1, <1>3
  <2>2. \A d \in 1 .. n, v \in P : step[d][v] = v * cs[d]
    OBVIOUS
  <2> HIDE DEF step
  <2> DEFINE one == 1
  <2>3. PICK f \in [0 .. n -> P] : IsRecursive(f, n, one, step)
    <3>1. one \in P
      OBVIOUS
    <3> HIDE DEF one, P
    <3> QED
      BY <2>1, <3>1, FiniteRecursion
  <2>4. \A d \in 1 .. n : f[d] = f[d - 1] * cs[d]
    <3>1. \A d \in 1 .. n : d - 1 \in 0 .. n
      OBVIOUS
    <3> HIDE DEF P
    <3> QED
      BY <2>2, <2>3, <3>1 DEF IsRecursive
  <2>5. \A d \in 0 .. n : f[d] = IF d = 0 THEN 1 ELSE f[d - 1] * cs[d]
    BY <2>3, <2>4 DEF IsRecursive
  <2> QED
    BY <2>5
<1>5. Volumes(volume)
  BY <1>4
<1> HIDE DEF volume
<1>6. /\ DOMAIN volume = 0 .. n /\ volume = [d \in 0 .. n |-> volume[d]]
      /\ volume[0] = 1 /\ \A d \in 1 .. n : volume[d] = volume[d - 1] * cs[d]
  BY <1>5
<1> HIDE DEF Volumes
<1>7. volume \in [0 .. n -> P]
  <2>1. volume[0] \in P /\ \A d \in 1 .. n : volume[d - 1] \in P => volume[d] \in P
    <3>1. 1 \in P /\ \A d \in 1 .. n : cs[d] \in P
      BY <1>1
    <3> HIDE DEF P
    <3> QED
      BY <1>3, <1>6, <3>1
  <2> HIDE DEF P
  <2> QED
    BY <1>6, <2>1, FunctionInduction
<1> QED
  BY <1>2, <1>6, <1>7 DEF IsVolumes

(* The places among the leading dimensions lead to the place.              *)
LEMMA FlatOf ==
  ASSUME NEW n \in Nat, NEW cs \in Sizes(n), NEW r \in Tuples(n)
  PROVE  \E f : IsFlat(f, r, cs, n) /\ FlatIdx(r, cs) = f[n]
<1> DEFINE x(d) == r[d] % cs[d]
           Flats(f) == f = [d \in 0 .. n |-> IF d = 0 THEN 0 ELSE f[d - 1] * cs[d] + x(d)]
           flat == CHOOSE f : Flats(f)
<1>1. Len(cs) = n /\ cs \in [1 .. n -> Nat \ {0}]
  BY LenProperties, SeqDef DEF Sizes
<1>2. FlatIdx(r, cs) = flat[n]
  BY <1>1 DEF FlatIdx
<1>3. \A d \in 1 .. n : x(d) \in Nat /\ cs[d] \in Nat
  BY <1>1, SMTT(30) DEF Tuples
<1> HIDE DEF x
<1>4. \A v \in Nat : \A d \in 1 .. n : v * cs[d] + x(d) \in Nat
  <2>1. \A v, c, y \in Nat : v * c + y \in Nat
    OBVIOUS
  <2> QED
    BY <1>3, <2>1
<1>5. \E f \in [0 .. n -> Nat] : Flats(f)
  <2> DEFINE step == [d \in 1 .. n |-> [v \in Nat |-> v * cs[d] + x(d)]]
  <2>1. step \in [1 .. n -> [Nat -> Nat]]
    BY <1>4
  <2>2. \A d \in 1 .. n, v \in Nat : step[d][v] = v * cs[d] + x(d)
    OBVIOUS
  <2> HIDE DEF step
  <2> DEFINE none == 0
  <2>3. PICK f \in [0 .. n -> Nat] : IsRecursive(f, n, none, step)
    <3>1. none \in Nat
      OBVIOUS
    <3> HIDE DEF none
    <3> QED
      BY <2>1, <3>1, FiniteRecursion
  <2>4. \A d \in 1 .. n : f[d] = f[d - 1] * cs[d] + x(d)
    <3>1. \A d \in 1 .. n : d - 1 \in 0 .. n
      OBVIOUS
    <3> QED
      BY <2>2, <2>3, <3>1 DEF IsRecursive
  <2>5. \A d \in 0 .. n : f[d] = IF d = 0 THEN 0 ELSE f[d - 1] * cs[d] + x(d)
    BY <2>3, <2>4 DEF IsRecursive
  <2> QED
    BY <2>5
<1>6. Flats(flat)
  BY <1>5
<1> HIDE DEF flat
<1>7. /\ DOMAIN flat = 0 .. n /\ flat = [d \in 0 .. n |-> flat[d]]
      /\ flat[0] = 0 /\ \A d \in 1 .. n : flat[d] = flat[d - 1] * cs[d] + x(d)
  <2>1. DOMAIN flat = 0 .. n /\ flat = [d \in 0 .. n |-> flat[d]]
    BY <1>6
  <2>2. \A d \in 0 .. n : flat[d] = IF d = 0 THEN 0 ELSE flat[d - 1] * cs[d] + x(d)
    BY <1>6
  <2>3. 0 \in 0 .. n /\ \A d \in 1 .. n : d \in 0 .. n /\ d # 0
    OBVIOUS
  <2> HIDE DEF Flats
  <2> QED
    BY <2>1, <2>2, <2>3
<1> HIDE DEF Flats
<1>8. flat \in [0 .. n -> Nat]
  <2>1. ASSUME NEW d \in 1 .. n, flat[d - 1] \in Nat
        PROVE  flat[d] \in Nat
    <3>1. flat[d - 1] * cs[d] + x(d) \in Nat
      BY <1>4, <2>1
    <3> QED
      BY <1>7, <3>1
  <2>2. flat[0] \in Nat
    BY <1>7
  <2> QED
    BY <1>7, <2>1, <2>2, FunctionInduction
<1> QED
  BY <1>2, <1>7, <1>8 DEF IsFlat, x

(* A remainder is below the size.                                          *)
LEMMA Remainder ==
  ASSUME NEW x \in Int, NEW c \in Nat \ {0}
  PROVE  x % c \in 0 .. c - 1 /\ x % c \in Nat
OBVIOUS

AreDigits(j, k, i, w, c) ==
  j < w /\ k \in 0 .. c - 1 /\ k % c = k /\ j * c + k = i

(* A number below a product has a digit for each factor.                    *)
LEMMA Digits ==
  ASSUME NEW w \in Nat, NEW c \in Nat \ {0}, NEW i \in Nat, i < w * c
  PROVE  \E j \in Nat, k \in Nat : AreDigits(j, k, i, w, c)
<1> DEFINE j == i \div c
           k == i % c
<1>1. j \in Nat /\ k \in 0 .. c - 1 /\ j * c + k = i
  OBVIOUS
<1> HIDE DEF j, k
<1>2. k % c = k
  BY <1>1
<1>3. j < w
  <2>1. \A a, b \in Nat : a <= b => a * c <= b * c
    OBVIOUS
  <2>2. ~(w <= j)
    BY <1>1, <2>1
  <2> QED
    BY <1>1, <2>2
<1> QED
  BY <1>1, <1>2, <1>3 DEF AreDigits

(* Rows that agree within their chunks on the leading dimensions have the   *)
(* same place among these.                                                 *)
LEMMA FlatAgrees ==
  ASSUME NEW n \in Nat, NEW cs \in Sizes(n), NEW r \in Tuples(n), NEW q \in Tuples(n),
         NEW f, IsFlat(f, r, cs, n), NEW g, IsFlat(g, q, cs, n), NEW m \in 0 .. n,
         SamePlace(r, q, cs, m)
  PROVE  f[m] = g[m]
<1> DEFINE A == {d \in 0 .. m : f[d] = g[d]}
<1>1. 0 \in A /\ \A d \in 1 .. m : d - 1 \in A => d \in A
  BY DEF IsFlat, SamePlace
<1> HIDE DEF A
<1>2. 0 .. m \subseteq A
  BY <1>1, NumberInduction
<1> QED
  BY <1>2 DEF A

(* Multiplying by the next size and adding a place below it.                *)
LEMMA MixedRadix ==
  ASSUME NEW a \in Nat, NEW b \in Nat, NEW c \in Nat \ {0}, NEW x \in 0 .. c - 1,
         NEW y \in Nat, a < b
  PROVE  a * c + x < b * c + y
<1>1. (a + 1) * c = a * c + c /\ (a + 1) * c <= b * c /\ a * c \in Nat /\ b * c \in Nat
  <2>1. \A u, v, w \in Nat : u <= v => u * w <= v * w
    OBVIOUS
  <2> QED
    BY <2>1
<1> QED
  BY <1>1

(* The place of a row is within the chunk.                                 *)
LEMMA FlatBound ==
  ASSUME NEW n \in Nat, NEW cs \in Sizes(n), NEW r \in Tuples(n),
         NEW f, IsFlat(f, r, cs, n),
         NEW v \in [0 .. n -> Nat \ {0}], IsVolumes(v, cs, n)
  PROVE  \A d \in 0 .. n : f[d] < v[d]
<1> DEFINE A == {d \in 0 .. n : f[d] < v[d]}
<1>1. 0 \in A
  BY DEF IsFlat, IsVolumes
<1>2. ASSUME NEW d \in 1 .. n, d - 1 \in A
      PROVE  d \in A
  <2>5. d - 1 \in 0 .. n /\ d \in 0 .. n /\ f[d - 1] < v[d - 1]
    BY <1>2
  <2>6. f[d] = f[d - 1] * cs[d] + (r[d] % cs[d]) /\ f[d - 1] \in Nat
    BY <2>5 DEF IsFlat
  <2>7. v[d] = v[d - 1] * cs[d] /\ v[d - 1] \in Nat
    BY <2>5 DEF IsVolumes
  <2>8. cs[d] \in Nat \ {0} /\ r[d] \in Int
    BY DEF Sizes, Tuples
  <2>1. /\ f[d] = f[d - 1] * cs[d] + (r[d] % cs[d]) /\ v[d] = v[d - 1] * cs[d]
        /\ f[d - 1] \in Nat /\ v[d - 1] \in Nat /\ cs[d] \in Nat \ {0} /\ r[d] \in Int
        /\ f[d - 1] < v[d - 1] /\ d \in 0 .. n
    BY <2>5, <2>6, <2>7, <2>8
  <2>2. r[d] % cs[d] \in 0 .. cs[d] - 1
    BY <2>1, Remainder
  <2>3. f[d - 1] * cs[d] + (r[d] % cs[d]) < v[d - 1] * cs[d] + 0
    BY <2>1, <2>2, MixedRadix
  <2>4. v[d - 1] * cs[d] + 0 = v[d - 1] * cs[d]
    BY <2>1
  <2> QED
    BY <2>1, <2>3, <2>4
<1> HIDE DEF A
<1>3. 0 .. n \subseteq A
  BY <1>1, <1>2, NumberInduction
<1> QED
  BY <1>3 DEF A

(* The places keep the order of the rows within a chunk.                    *)
LEMMA FlatOrder ==
  ASSUME NEW n \in Nat, NEW cs \in Sizes(n), NEW r \in Tuples(n), NEW q \in Tuples(n),
         NEW f, IsFlat(f, r, cs, n), NEW g, IsFlat(g, q, cs, n),
         NEW b \in 1 .. n, r[b] % cs[b] < q[b] % cs[b],
         SamePlace(r, q, cs, b - 1)
  PROVE  f[n] < g[n]
<1> DEFINE A == {k \in 0 .. n - b : f[b + k] < g[b + k]}
<1>1. 0 \in A
  <2>1. f[b - 1] = g[b - 1]
    <3> DEFINE m == b - 1
    <3>1. m \in 0 .. n /\ SamePlace(r, q, cs, m)
      OBVIOUS
    <3> HIDE DEF m
    <3>2. f[m] = g[m]
      BY <3>1, FlatAgrees
    <3> QED
      BY <3>2 DEF m
  <2>2. /\ f[b] = f[b - 1] * cs[b] + (r[b] % cs[b]) /\ g[b] = g[b - 1] * cs[b] + (q[b] % cs[b])
        /\ cs[b] \in Nat \ {0} /\ r[b] \in Int /\ q[b] \in Int /\ f[b - 1] \in Nat
    BY DEF IsFlat, Sizes, Tuples
  <2>3. f[b - 1] * cs[b] \in Nat /\ r[b] % cs[b] \in Nat /\ q[b] % cs[b] \in Nat
    <3>1. \A x, y \in Nat : x * y \in Nat
      OBVIOUS
    <3> QED
      BY <2>2, <3>1, Remainder
  <2>4. f[b] < g[b]
    BY <2>1, <2>2, <2>3
  <2> QED
    BY <2>4
<1>2. ASSUME NEW k \in 1 .. n - b, k - 1 \in A
      PROVE  k \in A
  <2> DEFINE d == b + k
  <2>1. /\ d \in 1 .. n /\ d - 1 = b + (k - 1) /\ d - 1 \in 0 .. n
        /\ k \in 0 .. n - b
    OBVIOUS
  <2> HIDE DEF d
  <2>2. /\ f[d] = f[d - 1] * cs[d] + (r[d] % cs[d]) /\ g[d] = g[d - 1] * cs[d] + (q[d] % cs[d])
        /\ cs[d] \in Nat \ {0} /\ r[d] \in Int /\ q[d] \in Int
        /\ f[d - 1] \in Nat /\ g[d - 1] \in Nat
    BY <2>1 DEF IsFlat, Sizes, Tuples
  <2>3. f[d - 1] < g[d - 1]
    BY <1>2, <2>1
  <2>4. r[d] % cs[d] \in 0 .. cs[d] - 1 /\ q[d] % cs[d] \in Nat
    BY <2>2, Remainder
  <2>5. f[d - 1] * cs[d] + (r[d] % cs[d]) < g[d - 1] * cs[d] + (q[d] % cs[d])
    BY <2>2, <2>3, <2>4, MixedRadix
  <2>6. f[d] < g[d]
    BY <2>2, <2>5
  <2> QED
    BY <2>1, <2>6 DEF d
<1> HIDE DEF A
<1>3. 0 .. n - b \subseteq A
  <2>1. n - b \in Nat
    OBVIOUS
  <2> QED
    BY <1>1, <1>2, <2>1, NumberInduction
<1>4. n - b \in A /\ b + (n - b) = n
  BY <1>3
<1> QED
  BY <1>4 DEF A


ChunkCells(cs, n) == {p \in [1 .. n -> Nat] : \A d \in 1 .. n : p[d] < cs[d]}

(* Every place within the volume is the place of a cell.                    *)
LEMMA FlatOnto ==
  ASSUME NEW n \in Nat, NEW cs \in Sizes(n),
         NEW v \in [0 .. n -> Nat \ {0}], IsVolumes(v, cs, n)
  PROVE  \A i \in 0 .. v[n] - 1 : \E p \in ChunkCells(cs, n) : FlatIdx(p, cs) = i
<1> DEFINE Reached(d, i) == \E p \in ChunkCells(cs, n) : \E f : IsFlat(f, p, cs, n) /\ f[d] = i
           A == {d \in 0 .. n : \A i \in 0 .. v[d] - 1 : Reached(d, i)}
<1>1. \A p \in ChunkCells(cs, n) :
        p \in Tuples(n) /\ \E f : IsFlat(f, p, cs, n) /\ FlatIdx(p, cs) = f[n]
  <2>1. ChunkCells(cs, n) \subseteq Tuples(n)
    BY DEF ChunkCells, Tuples
  <2> QED
    BY <2>1, FlatOf
<1>2. 0 \in A
  <2> DEFINE p == [d \in 1 .. n |-> 0]
  <2>1. p \in ChunkCells(cs, n)
    BY DEF ChunkCells, Sizes
  <2> HIDE DEF p
  <2>2. PICK f : IsFlat(f, p, cs, n)
    BY <1>1, <2>1
  <2>3. f[0] = 0
    BY <2>2 DEF IsFlat
  <2>4. v[0] = 1
    BY DEF IsVolumes
  <2> QED
    BY <2>1, <2>2, <2>3, <2>4
<1>3. ASSUME NEW d \in 1 .. n, d - 1 \in A
      PROVE  d \in A
  <2>1. d \in 0 .. n /\ d - 1 \in 0 .. n /\ v[d] = v[d - 1] * cs[d] /\ cs[d] \in Nat \ {0}
        /\ v[d - 1] \in Nat \ {0}
    BY DEF IsVolumes, Sizes
  <2>2. ASSUME NEW i \in 0 .. v[d] - 1
        PROVE  Reached(d, i)
    <3>1. i \in Nat /\ i < v[d - 1] * cs[d]
      BY <2>1
    <3>2. PICK j \in Nat, k \in Nat : AreDigits(j, k, i, v[d - 1], cs[d])
      BY <2>1, <3>1, Digits
    <3>3. j \in 0 .. v[d - 1] - 1
      BY <2>1, <3>2 DEF AreDigits
    <3>a. PICK p \in ChunkCells(cs, n) : \E f : IsFlat(f, p, cs, n) /\ f[d - 1] = j
      BY <1>3, <3>3
    <3>4. PICK f : IsFlat(f, p, cs, n) /\ f[d - 1] = j
      BY <3>a
    <3> DEFINE q == [p EXCEPT ![d] = k]
    <3>5. q \in ChunkCells(cs, n) /\ q[d] = k /\ \A e \in 1 .. d - 1 : q[e] = p[e]
      <4>1. p \in [1 .. n -> Nat] /\ \A e \in 1 .. n : p[e] < cs[e]
        BY <3>4 DEF ChunkCells
      <4>2. q \in [1 .. n -> Nat] /\ q[d] = k /\ \A e \in 1 .. n : e # d => q[e] = p[e]
        BY <4>1
      <4>3. k < cs[d]
        BY <2>1, <3>2 DEF AreDigits
      <4> HIDE DEF q
      <4>4. \A e \in 1 .. n : q[e] < cs[e]
        BY <4>1, <4>2, <4>3
      <4>5. \A e \in 1 .. d - 1 : e \in 1 .. n /\ e # d
        OBVIOUS
      <4> QED
        BY <4>2, <4>4, <4>5 DEF ChunkCells
    <3> HIDE DEF q
    <3>6. PICK g : IsFlat(g, q, cs, n)
      BY <1>1, <3>5
    <3>7. g[d - 1] = j
      <4> DEFINE m == d - 1
      <4>1. m \in 0 .. n /\ SamePlace(p, q, cs, m)
        BY <3>5 DEF SamePlace
      <4> HIDE DEF m
      <4>2. f[m] = g[m]
        BY <1>1, <3>4, <3>5, <3>6, <4>1, FlatAgrees
      <4> QED
        BY <3>4, <4>2 DEF m
    <3>8. g[d] = i
      BY <3>2, <3>5, <3>6, <3>7 DEF IsFlat, AreDigits
    <3> QED
      BY <3>5, <3>6, <3>8
  <2> QED
    BY <2>1, <2>2
<1> HIDE DEF A
<1>4. 0 .. n \subseteq A
  BY <1>2, <1>3, NumberInduction
<1>5. n \in A
  BY <1>4
<1>6. ASSUME NEW i \in 0 .. v[n] - 1
      PROVE  \E p \in ChunkCells(cs, n) : FlatIdx(p, cs) = i
  <2>a. PICK p \in ChunkCells(cs, n) : \E f : IsFlat(f, p, cs, n) /\ f[n] = i
    BY <1>5 DEF A
  <2>1. PICK f : IsFlat(f, p, cs, n) /\ f[n] = i
    BY <2>a
  <2>2. PICK g : IsFlat(g, p, cs, n) /\ FlatIdx(p, cs) = g[n]
    BY <1>1
  <2>3. f[n] = g[n]
    <3>1. n \in 0 .. n /\ SamePlace(p, p, cs, n)
      BY DEF SamePlace
    <3> QED
      BY <1>1, <2>1, <2>2, <3>1, FlatAgrees
  <2> QED
    BY <2>1, <2>2, <2>3
<1> QED
  BY <1>6

(* Different cells have places in their order.                              *)
LEMMA FlatSeparates ==
  ASSUME NEW n \in Nat, NEW cs \in Sizes(n), NEW r \in Tuples(n), NEW q \in Tuples(n),
         NEW b \in 1 .. n, r[b] % cs[b] < q[b] % cs[b], SamePlace(r, q, cs, b - 1)
  PROVE  FlatIdx(r, cs) < FlatIdx(q, cs)
<1>1. PICK f : IsFlat(f, r, cs, n) /\ FlatIdx(r, cs) = f[n]
  BY FlatOf
<1>2. PICK g : IsFlat(g, q, cs, n) /\ FlatIdx(q, cs) = g[n]
  BY FlatOf
<1>3. f[n] < g[n]
  BY <1>1, <1>2, FlatOrder
<1> QED
  BY <1>1, <1>2, <1>3

(* A row's place is within the chunk, and rows with the same residues share it. *)
LEMMA FlatType ==
  ASSUME NEW n \in Nat, NEW cs \in Sizes(n), NEW r \in Tuples(n)
  PROVE  /\ FlatIdx(r, cs) \in 0 .. Volume(cs) - 1
         /\ \A q \in Tuples(n) : SamePlace(r, q, cs, n) => FlatIdx(r, cs) = FlatIdx(q, cs)
<1>1. PICK f : IsFlat(f, r, cs, n) /\ FlatIdx(r, cs) = f[n]
  BY FlatOf
<1>2. FlatIdx(r, cs) \in 0 .. Volume(cs) - 1
  <2>1. PICK v \in [0 .. n -> Nat \ {0}] : IsVolumes(v, cs, n) /\ Volume(cs) = v[n]
    BY VolumesOf
  <2>2. \A d \in 0 .. n : f[d] < v[d]
    BY <1>1, <2>1, FlatBound
  <2>3. f[n] \in Nat /\ v[n] \in Nat /\ n \in 0 .. n
    BY <1>1, <2>1 DEF IsFlat
  <2> QED
    BY <1>1, <2>1, <2>2, <2>3
<1>3. ASSUME NEW q \in Tuples(n), SamePlace(r, q, cs, n)
      PROVE  FlatIdx(r, cs) = FlatIdx(q, cs)
  <2>1. PICK g : IsFlat(g, q, cs, n) /\ FlatIdx(q, cs) = g[n]
    BY FlatOf
  <2>2. f[n] = g[n]
    <3>1. n \in 0 .. n
      OBVIOUS
    <3> QED
      BY <1>1, <1>3, <2>1, <3>1, FlatAgrees
  <2> QED
    BY <1>1, <2>1, <2>2
<1> QED
  BY <1>2, <1>3

(* Rows with the same place have the same residues.                        *)
LEMMA FlatInjective ==
  ASSUME NEW n \in Nat, NEW cs \in Sizes(n), NEW r \in Tuples(n), NEW q \in Tuples(n),
         FlatIdx(r, cs) = FlatIdx(q, cs)
  PROVE  SamePlace(r, q, cs, n)
<1> DEFINE T == {d \in 1 .. n : r[d] % cs[d] # q[d] % cs[d]}
<1>1. ASSUME T # {}
      PROVE  FALSE
  <2>1. T \in SUBSET Nat
    OBVIOUS
  <2>2. PICK b \in T : \A e \in T : b <= e
    BY <1>1, <2>1, LeastNumber
  <2>3. b \in 1 .. n /\ SamePlace(r, q, cs, b - 1) /\ SamePlace(q, r, cs, b - 1)
    BY <2>2 DEF SamePlace
  <2>4. r[b] % cs[b] < q[b] % cs[b] \/ q[b] % cs[b] < r[b] % cs[b]
    <3>1. r[b] % cs[b] \in Nat /\ q[b] % cs[b] \in Nat
      BY <2>3, Remainder DEF Sizes, Tuples
    <3>2. r[b] % cs[b] # q[b] % cs[b]
      BY <2>2
    <3> QED
      BY <3>1, <3>2
  <2>5. FlatIdx(r, cs) < FlatIdx(q, cs) \/ FlatIdx(q, cs) < FlatIdx(r, cs)
    BY <2>3, <2>4, FlatSeparates
  <2>6. FlatIdx(r, cs) \in Int
    BY FlatType
  <2> QED
    BY <2>5, <2>6
<1> QED
  BY <1>1 DEF SamePlace

(* The positions of a chunk.                                               *)
LEMMA PositionsType ==
  ASSUME NEW n \in Nat, NEW cs \in [1 .. n -> Nat]
  PROVE  Positions(cs) = ChunkCells(cs, n)
<1> DEFINE U == UNION {0 .. cs[d] - 1 : d \in 1 .. n}
<1>1. Positions(cs) = {c \in [1 .. n -> U] : \A d \in 1 .. n : c[d] < cs[d]}
  BY DEF Positions
<1>2. U \subseteq Nat
  OBVIOUS
<1>3. ASSUME NEW c \in [1 .. n -> Nat], \A d \in 1 .. n : c[d] < cs[d]
      PROVE  c \in [1 .. n -> U]
  <2>1. \A d \in 1 .. n : c[d] \in 0 .. cs[d] - 1
    BY <1>3
  <2>2. \A d \in 1 .. n : c[d] \in U
    BY <2>1
  <2> HIDE DEF U
  <2> QED
    BY <2>2
<1> HIDE DEF U
<1>4. [1 .. n -> U] \subseteq [1 .. n -> Nat]
  BY <1>2
<1> QED
  BY <1>1, <1>3, <1>4 DEF ChunkCells

(* The place of a cell is the number of cells before it.                    *)
LEMMA RowMajor ==
  ASSUME NEW n \in Nat, NEW cs \in Sizes(n), NEW p \in ChunkCells(cs, n)
  PROVE  Cardinality({q \in Positions(cs) : Precedes(q, p)}) = FlatIdx(p, cs)
<1> DEFINE C == ChunkCells(cs, n)
           B == {q \in C : Precedes(q, p)}
           N == FlatIdx(p, cs)
           place == [q \in B |-> FlatIdx(q, cs)]
<1>1. /\ C \subseteq Tuples(n) /\ Positions(cs) = C
      /\ \A q \in C : \A d \in 1 .. n : q[d] % cs[d] = q[d]
  <2>1. cs \in [1 .. n -> Nat]
    BY DEF Sizes
  <2>2. ASSUME NEW q \in C, NEW d \in 1 .. n
        PROVE  q[d] % cs[d] = q[d]
    <3>1. q[d] \in Nat /\ cs[d] \in Nat \ {0} /\ q[d] < cs[d]
      BY DEF ChunkCells, Sizes
    <3> QED
      BY <3>1
  <2>3. Positions(cs) = C
    BY <2>1, PositionsType
  <2>4. C \subseteq Tuples(n)
    BY DEF ChunkCells, Tuples
  <2> QED
    BY <2>2, <2>3, <2>4
<1>2. ASSUME NEW q \in C, NEW z \in C, Precedes(q, z)
      PROVE  FlatIdx(q, cs) < FlatIdx(z, cs)
  <2>1. DOMAIN q = 1 .. n
    BY DEF ChunkCells
  <2>2. PICK b \in 1 .. n : q[b] < z[b] /\ \A e \in 1 .. b - 1 : q[e] = z[e]
    BY <1>2, <2>1 DEF Precedes
  <2>3. SamePlace(q, z, cs, b - 1)
    BY <1>1, <2>2 DEF SamePlace
  <2>4. q[b] % cs[b] < z[b] % cs[b]
    BY <1>1, <2>2
  <2> QED
    BY <1>1, <2>3, <2>4, FlatSeparates
<1>3. /\ \A x \in C : ~Precedes(x, x)
      /\ \A x, y \in C : x = y \/ Precedes(x, y) \/ Precedes(y, x)
  <2>1. OrdersStrictly(Ordered(C), C) /\ \A x, y \in C : <<x, y>> \in Ordered(C) <=> Precedes(x, y)
    <3>1. C \in SUBSET [1 .. n -> Int]
      BY <1>1 DEF Tuples
    <3> HIDE DEF C
    <3> QED
      BY <3>1, PrecedesOrders
  <2> HIDE DEF C
  <2> QED
    BY <2>1 DEF OrdersStrictly
<1>4. \A q \in C : FlatIdx(q, cs) \in 0 .. Volume(cs) - 1
  BY <1>1, FlatType
<1>5. N \in Nat
  BY <1>4
<1>6. place \in [B -> 0 .. N - 1]
  <2>1. \A q \in B : FlatIdx(q, cs) \in 0 .. N - 1
    BY <1>2, <1>4, <1>5
  <2> QED
    BY <2>1
<1>7. \A q, z \in B : place[q] = place[z] => q = z
  <2>1. \A q \in B : place[q] = FlatIdx(q, cs) /\ q \in C /\ FlatIdx(q, cs) \in Int
    BY <1>4
  <2> HIDE DEF place, C
  <2> QED
    BY <1>2, <1>3, <2>1
<1>8. \A i \in 0 .. N - 1 : \E q \in B : place[q] = i
  <2> SUFFICES ASSUME NEW i \in 0 .. N - 1
               PROVE  \E q \in B : place[q] = i
    OBVIOUS
  <2>1. PICK v \in [0 .. n -> Nat \ {0}] : IsVolumes(v, cs, n) /\ Volume(cs) = v[n]
    BY VolumesOf
  <2>2. i \in 0 .. v[n] - 1
    BY <1>4, <1>5, <2>1
  <2>3. PICK q \in C : FlatIdx(q, cs) = i
    BY <2>1, <2>2, FlatOnto
  <2>4. Precedes(q, p)
    <3>1. q # p /\ ~Precedes(p, q)
      BY <1>2, <1>5, <2>3
    <3> HIDE DEF C
    <3> QED
      BY <1>3, <3>1 DEF C
  <2> QED
    BY <2>3, <2>4
<1> HIDE DEF place, N
<1>9. place \in Injection(B, 0 .. N - 1) /\ place \in Surjection(B, 0 .. N - 1)
  BY <1>6, <1>7, <1>8 DEF Injection, Surjection, IsInjective
<1>10. IsFiniteSet(0 .. N - 1) /\ Cardinality(0 .. N - 1) = N
  <2>1. 0 \in Int /\ N - 1 \in Int
    BY <1>5
  <2>2. IsFiniteSet(0 .. N - 1) /\ Cardinality(0 .. N - 1) = IF 0 > N - 1 THEN 0 ELSE N - 1 - 0 + 1
    BY <2>1, FS_Interval
  <2> QED
    BY <1>5, <2>2
<1>11. Cardinality(B) = N
  <2> HIDE DEF B
  <2> QED
    BY <1>9, <1>10, FS_Injection
<1> QED
  BY <1>1, <1>11 DEF N

-----------------------------------------------------------------------------
(* What the buffers hold.                                                  *)

ChunkOf(r) == GridCoord(r, chunk_shape)
PlaceOf(r) == FlatIdx(r, chunk_shape)

Running == phase \notin {"infer", "refused", "error", "exit"}
Safe == EvictionIsSafe /\ stream_ok

(* The rows that were processed.                                           *)
Seen == {r \in job.rows : \A i \in DOMAIN rows : rows[i] # r}

(* The buffers being filled, on their way, and stored, with their chunks.   *)
Filled == {[grid |-> g, data |-> active_chunks[g]] : g \in DOMAIN active_chunks}
OnTheWay == {channel[i] : i \in DOMAIN channel} \cup {u \in {uploading} : uploader = "store"}
Replaced == {g \in DOMAIN store : store[g] # Held}
Stored == {[grid |-> g, data |-> store[g]] : g \in Replaced}

InChunk(u) ==
  \A i \in DOMAIN u.data :
    u.data[i] = Fill \/ (u.data[i] \in Written /\ ChunkOf(u.data[i]) = u.grid /\ PlaceOf(u.data[i]) = i)
Has(u, R) == \A r \in R \cap Written : ChunkOf(r) = u.grid => u.data[PlaceOf(r)] = r

Part(u) ==
  /\ \E r \in Seen \cap Written : ChunkOf(r) = u.grid
  /\ InChunk(u)
  /\ Safe => Has(u, Seen)
Whole(u) ==
  /\ u.grid \in Touched /\ u.data \in Buffers /\ InChunk(u)
  /\ Safe => Has(u, job.rows)

Sorted ==
  /\ \A i, k \in DOMAIN rows : i < k => Precedes(rows[i], rows[k])
  /\ \A r \in Seen, i \in DOMAIN rows : Precedes(r, rows[i])

(* A chunk that has a value to come after one has its buffer open, and      *)
(* buffers are evicted only when they fill the memory.                      *)
Open ==
  /\ \A r \in Seen \cap Written, q \in job.rows \ Seen :
       ChunkOf(q) = ChunkOf(r) => ChunkOf(r) \in DOMAIN active_chunks
  /\ phase = "evict" => Cardinality(DOMAIN active_chunks) * ChunkBytes >= MaxMemory

Contents ==
  /\ \A u \in Filled : Part(u)
  /\ \A u \in OnTheWay \cup Stored : Whole(u)
  /\ job.held \subseteq DOMAIN store
  /\ DOMAIN store \ Replaced \subseteq job.held

ContentInv ==
  /\ phase = "infer" => store = [g \in job.held |-> Held]
  /\ phase # "infer" => shape \in [Dims -> Nat]
  /\ Running => Sorted /\ Contents
  /\ Running /\ Safe => Open

-----------------------------------------------------------------------------
(* Lemmas about the contents.                                              *)

(* While an export runs its rows have a chunk and a place in it.            *)
LEMMA RunningType ==
  ASSUME Inv, Running
  PROVE  /\ Rank \in Nat /\ chunk_shape \in Sizes(Rank) /\ Grids = Tuples(Rank)
         /\ job.rows \subseteq Tuples(Rank) /\ Written \subseteq job.rows
         /\ IsFiniteSet(job.rows) /\ rows \in Seq(job.rows)
         /\ \A r \in Tuples(Rank) :
              ChunkOf(r) \in Grids /\ PlaceOf(r) \in 0 .. Volume(chunk_shape) - 1
<1>1. /\ Rank \in Nat /\ job.rows \subseteq Grids /\ Written \subseteq job.rows
      /\ IsFiniteSet(job.rows) /\ rows \in Seq(job.rows)
  BY JobType DEF Inv, Typed
<1>2. chunk_shape \in Sizes(Rank)
  BY DEF Inv, Chunked, Running, Sizes, Dims
<1>3. Grids = Tuples(Rank)
  BY DEF Grids, Tuples, Dims
<1>4. ASSUME NEW r \in Tuples(Rank)
      PROVE  ChunkOf(r) \in Grids
  <2>1. r \in [Dims -> Int] /\ chunk_shape \in [Dims -> Nat \ {0}]
    BY <1>2 DEF Tuples, Sizes, Dims
  <2>2. \A d \in Dims : r[d] \div chunk_shape[d] \in Int
    BY <2>1
  <2> QED
    BY <2>1, <2>2 DEF ChunkOf, GridCoord, Grids
<1>5. \A r \in Tuples(Rank) : PlaceOf(r) \in 0 .. Volume(chunk_shape) - 1
  BY <1>1, <1>2, FlatType DEF PlaceOf
<1> QED
  BY <1>1, <1>2, <1>3, <1>4, <1>5

(* A cell is known by its chunk and its place in it.                        *)
LEMMA CellsApart ==
  ASSUME Inv, Running, NEW r \in Tuples(Rank), NEW q \in Tuples(Rank),
         ChunkOf(r) = ChunkOf(q), PlaceOf(r) = PlaceOf(q)
  PROVE  r = q
<1>1. Rank \in Nat /\ chunk_shape \in Sizes(Rank)
  BY RunningType
<1>2. SamePlace(r, q, chunk_shape, Rank)
  BY <1>1, FlatInjective DEF PlaceOf
<1>3. ASSUME NEW d \in 1 .. Rank
      PROVE  r[d] = q[d]
  <2>1. r[d] \in Int /\ q[d] \in Int /\ chunk_shape[d] \in Nat \ {0} /\ d \in DOMAIN r
        /\ d \in DOMAIN q
    BY <1>1 DEF Sizes, Tuples
  <2>2. r[d] % chunk_shape[d] = q[d] % chunk_shape[d]
    BY <1>2 DEF SamePlace
  <2>3. r[d] \div chunk_shape[d] = q[d] \div chunk_shape[d]
    <3>1. GridCoord(r, chunk_shape)[d] = GridCoord(q, chunk_shape)[d]
      BY DEF ChunkOf
    <3> QED
      BY <2>1, <3>1 DEF GridCoord
  <2>4. \A x, y \in Int, c \in Nat \ {0} : x % c = y % c /\ x \div c = y \div c => x = y
    OBVIOUS
  <2> QED
    BY <2>1, <2>2, <2>3, <2>4
<1>4. r = [d \in 1 .. Rank |-> r[d]] /\ q = [d \in 1 .. Rank |-> q[d]]
  BY DEF Tuples
<1> QED
  BY <1>3, <1>4

(* What stays as it is while the job and its chunk shape do.                *)
LEMMA Frame ==
  ASSUME UNCHANGED <<job, chunk_shape>>, stream_ok' => stream_ok
  PROVE  /\ \A r : ChunkOf(r)' = ChunkOf(r) /\ PlaceOf(r)' = PlaceOf(r)
         /\ EvictionIsSafe' = EvictionIsSafe /\ (Safe' => Safe)
         /\ \A u : Whole(u) => Whole(u)'
         /\ rows' = rows => Seen' = Seen /\ (Sorted => Sorted') /\ \A u : Part(u) => Part(u)'
<1>1. /\ job' = job /\ chunk_shape' = chunk_shape
      /\ Buffers' = Buffers /\ Written' = Written /\ ChunkBytes' = ChunkBytes
  BY SameBuffers
<1>2. \A r : ChunkOf(r)' = ChunkOf(r) /\ PlaceOf(r)' = PlaceOf(r)
  BY <1>1 DEF ChunkOf, PlaceOf, GridCoord, FlatIdx
<1>3. Touched' = Touched
  BY <1>1 DEF Touched, GridCoord
<1>4. EvictionIsSafe' = EvictionIsSafe
  BY <1>1, <1>3 DEF EvictionIsSafe, GridCoord, Precedes
<1>5. Safe' => Safe
  BY <1>4 DEF Safe
<1>6. \A u : InChunk(u)' = InChunk(u)
  BY <1>1, <1>2 DEF InChunk
<1>7. \A u : Whole(u) => Whole(u)'
  BY <1>1, <1>2, <1>3, <1>5, <1>6 DEF Whole, Has
<1>8. ASSUME rows' = rows
      PROVE  Seen' = Seen /\ (Sorted => Sorted') /\ \A u : Part(u) => Part(u)'
  <2>1. Seen' = Seen
    BY <1>1, <1>8 DEF Seen
  <2>2. Sorted => Sorted'
    BY <1>8, <2>1 DEF Sorted, Precedes
  <2>3. \A u : Part(u) => Part(u)'
    BY <1>1, <1>2, <1>5, <1>6, <2>1 DEF Part, Has
  <2> QED
    BY <2>1, <2>2, <2>3
<1> QED
  BY <1>2, <1>4, <1>5, <1>7, <1>8

(* The rows come in their order.                                           *)
LEMMA StreamOrderSorted ==
  ASSUME NEW n \in Nat, NEW R \in SUBSET [1 .. n -> Int], IsFiniteSet(R)
  PROVE  \A i, k \in DOMAIN StreamOrder(R) :
           i < k => Precedes(StreamOrder(R)[i], StreamOrder(R)[k])
<1> DEFINE N == Cardinality(R)
           at(i) == CHOOSE r \in R : Place(R, r) = i - 1
<1>1. N \in Nat
  BY FS_CardinalityType
<1>2. /\ \A r \in R : Place(R, r) \in 0 .. N - 1
      /\ \A x, y \in R : Precedes(x, y) => Place(R, x) < Place(R, y)
      /\ \A i \in 1 .. N : \E r \in R : Place(R, r) = i - 1
      /\ \A x, y \in R : x = y \/ Precedes(x, y) \/ Precedes(y, x)
  BY PlacesOfTuples
<1>3. StreamOrder(R) = [i \in 1 .. N |-> at(i)]
  BY DEF StreamOrder, Place
<1> HIDE DEF N
<1>4. \A i \in 1 .. N : at(i) \in R /\ Place(R, at(i)) = i - 1
  BY <1>2
<1> HIDE DEF at
<1>5. ASSUME NEW i \in 1 .. N, NEW k \in 1 .. N, i < k
      PROVE  Precedes(at(i), at(k))
  <2>1. /\ at(i) \in R /\ at(k) \in R
        /\ Place(R, at(i)) = i - 1 /\ Place(R, at(k)) = k - 1
    BY <1>4
  <2>2. at(i) # at(k) /\ ~(Place(R, at(k)) < Place(R, at(i)))
    BY <1>1, <1>5, <2>1
  <2> QED
    BY <1>2, <2>1, <2>2
<1> QED
  BY <1>3, <1>5

(* The inferred shape has an extent per dimension.                         *)
LEMMA ShapeType ==
  ASSUME job \in Jobs
  PROVE  InferShape(job.rows) \in [Dims -> Nat]
<1>1. /\ Rank \in Nat /\ IsFiniteSet(job.rows) /\ job.rows # {}
  BY JobType
<1>2. Len(CHOOSE r \in job.rows : TRUE) = Rank
  <2>1. (CHOOSE r \in job.rows : TRUE) \in job.rows
    BY <1>1
  <2> QED
    BY <2>1, ExportAssumption DEF Rank
<1>3. ASSUME NEW d \in Dims
      PROVE  Cardinality({r[d] : r \in job.rows}) \in Nat
  <2> DEFINE at == [r \in job.rows |-> r[d]]
  <2>1. at \in Surjection(job.rows, {r[d] : r \in job.rows})
    BY DEF Surjection
  <2> HIDE DEF at
  <2>2. IsFiniteSet({r[d] : r \in job.rows})
    BY <1>1, <2>1, FS_Surjection
  <2> QED
    BY <2>2, FS_CardinalityType
<1> QED
  BY <1>2, <1>3 DEF InferShape, Dims

(* A map with two buffers or more has one after the first.                  *)
LEMMA AnotherKey ==
  ASSUME NEW D, IsFiniteSet(D), NEW g \in D, NEW b \in Nat, NEW m \in Nat, b < m,
         Cardinality(D) * b >= m
  PROVE  \E h \in D : h # g
<1>1. ASSUME D = {g}
      PROVE  FALSE
  <2>1. Cardinality(D) = 1
    BY <1>1, FS_Singleton
  <2> QED
    BY <2>1
<1> QED
  BY <1>1

(* A map whose buffers are for touched chunks has at most as many.          *)
LEMMA AllFit ==
  ASSUME NEW T, IsFiniteSet(T), NEW D \in SUBSET T, NEW b \in Nat, NEW m \in Nat,
         Cardinality(T) * b < m
  PROVE  ~(Cardinality(D) * b >= m)
<1>1. Cardinality(D) \in Nat /\ Cardinality(T) \in Nat /\ Cardinality(D) <= Cardinality(T)
  BY FS_Subset, FS_CardinalityType
<1>2. \A x, y \in Nat : x <= y => x * b <= y * b /\ x * b \in Nat /\ y * b \in Nat
  OBVIOUS
<1>3. Cardinality(D) * b <= Cardinality(T) * b /\ Cardinality(D) * b \in Nat
      /\ Cardinality(T) * b \in Nat
  BY <1>1, <1>2
<1> QED
  BY <1>3

(* When buffers are sent no row of the first one's chunk is to come.        *)
LEMMA NoneToCome ==
  ASSUME Inv, ContentInv, phase \in {"evict", "flush"}, Safe, DOMAIN active_chunks # {},
         NEW i \in DOMAIN rows
  PROVE  ChunkOf(rows[i]) # FirstKey
<1>1. phase = "evict"
  <2>1. phase = "flush" => rows = <<>>
    BY DEF Inv, Stages, Safe
  <2> QED
    BY <2>1
<1>2. Running /\ Sorted /\ Contents /\ Open
  BY <1>1 DEF Running, ContentInv
<1>3. /\ FirstKey \in DOMAIN active_chunks
      /\ \A h \in DOMAIN active_chunks \ {FirstKey} : Precedes(FirstKey, h)
      /\ IsFiniteSet(DOMAIN active_chunks)
  <2>1. /\ IsFiniteSet(DOMAIN active_chunks) /\ DOMAIN active_chunks \subseteq Grids
        /\ Rank \in Nat
    BY JobType DEF Inv, Typed, Filling
  <2> QED
    BY <2>1, FirstKeyType DEF Grids, Dims
<1>4. ChunkBytes \in Nat /\ MaxMemory \in Nat
  BY <1>1, ChunkBytesType, ExportAssumption DEF Inv, Typed, Chunked
<1>5. \A h \in DOMAIN active_chunks : \E r \in Seen \cap Written : ChunkOf(r) = h
  <2>1. ASSUME NEW h \in DOMAIN active_chunks
        PROVE  \E r \in Seen \cap Written : ChunkOf(r) = h
    <3> DEFINE u == [grid |-> h, data |-> active_chunks[h]]
    <3>1. u \in Filled /\ u.grid = h
      BY DEF Filled
    <3> HIDE DEF u
    <3> QED
      BY <1>2, <3>1 DEF Contents, Part
  <2> QED
    BY <2>1
<1>6. Cardinality(DOMAIN active_chunks) * ChunkBytes >= MaxMemory
  BY <1>1, <1>2 DEF Open
<1>7. CASE Cardinality(Touched) * ChunkBytes < MaxMemory
  <2>1. DOMAIN active_chunks \subseteq Touched
    BY <1>5 DEF Touched, ChunkOf
  <2>2. IsFiniteSet(Touched)
    <3> DEFINE chunk == [r \in Written |-> GridCoord(r, chunk_shape)]
    <3>1. chunk \in Surjection(Written, Touched)
      BY DEF Surjection, Touched
    <3>2. IsFiniteSet(Written)
      BY <1>2, RunningType, FS_Subset
    <3> HIDE DEF chunk
    <3> QED
      BY <3>1, <3>2, FS_Surjection
  <2> QED
    BY <1>4, <1>6, <1>7, <2>1, <2>2, AllFit
<1>8. CASE /\ ChunkBytes < MaxMemory
           /\ \A r, q \in job.rows :
                Precedes(r, q) => ~Precedes(GridCoord(q, chunk_shape), GridCoord(r, chunk_shape))
  <2>1. PICK h \in DOMAIN active_chunks : h # FirstKey
    BY <1>3, <1>4, <1>6, <1>8, AnotherKey
  <2>2. PICK r \in Seen \cap Written : ChunkOf(r) = h
    BY <1>5
  <2>3. Precedes(r, rows[i]) /\ r \in job.rows /\ rows[i] \in job.rows
    BY <1>2, RunningType, <2>2 DEF Sorted
  <2>4. ~Precedes(ChunkOf(rows[i]), h)
    BY <1>8, <2>2, <2>3 DEF ChunkOf
  <2>5. Precedes(FirstKey, h)
    BY <1>3, <2>1
  <2> QED
    BY <2>4, <2>5
<1> QED
  BY <1>7, <1>8 DEF Safe, EvictionIsSafe

(* A buffer that is sent is whole.                                         *)
LEMMA SentWhole ==
  ASSUME Inv, ContentInv, phase \in {"evict", "flush"}, DOMAIN active_chunks # {},
         NEW u \in Filled, u.grid = FirstKey
  PROVE  Whole(u)
<1>1. Running /\ Part(u)
  BY DEF Running, ContentInv, Contents
<1>2. u.grid \in Touched
  BY <1>1 DEF Part, Touched, ChunkOf
<1>3. u.data \in Buffers
  BY DEF Filled, Inv, Filling
<1>4. ASSUME Safe, NEW r \in job.rows \cap Written, ChunkOf(r) = u.grid
      PROVE  u.data[PlaceOf(r)] = r
  <2>1. r \in Seen
    <3>1. ASSUME NEW i \in DOMAIN rows, rows[i] = r
          PROVE  FALSE
      BY <1>4, <3>1, NoneToCome
    <3> QED
      BY <3>1 DEF Seen
  <2> QED
    BY <1>1, <1>4, <2>1 DEF Part, Has
<1> QED
  BY <1>1, <1>2, <1>3, <1>4 DEF Part, Whole, Has

-----------------------------------------------------------------------------
(* The contents are as they should be at the start and after every action. *)

(* The next row moves from the rows to come to those seen.                  *)
LEMMA NextRowSeen ==
  ASSUME Inv, Running, Sorted, rows # <<>>, rows' = Tail(rows), job' = job
  PROVE  /\ Head(rows) \in job.rows /\ 1 \in DOMAIN rows /\ rows[1] = Head(rows)
         /\ \A k \in DOMAIN rows' : k + 1 \in DOMAIN rows /\ rows'[k] = rows[k + 1]
         /\ Seen' = Seen \cup {Head(rows)} /\ Sorted'
<1>1. rows \in Seq(job.rows) /\ job.rows \subseteq Tuples(Rank)
  BY RunningType
<1>2. /\ Head(rows) \in job.rows /\ rows[1] = Head(rows) /\ 1 \in DOMAIN rows
      /\ \A k \in DOMAIN rows' : k + 1 \in DOMAIN rows /\ rows'[k] = rows[k + 1]
      /\ \A i \in DOMAIN rows : i # 1 => i - 1 \in DOMAIN rows' /\ rows'[i - 1] = rows[i]
  <2>1. /\ Head(rows) \in job.rows /\ Head(rows) = rows[1] /\ Tail(rows) \in Seq(job.rows)
        /\ Len(Tail(rows)) = Len(rows) - 1
        /\ \A k \in 1 .. Len(Tail(rows)) : Tail(rows)[k] = rows[k + 1]
    BY <1>1, HeadTailProperties
  <2>2. /\ Len(rows) \in Nat /\ Len(Tail(rows)) \in Nat
        /\ DOMAIN rows = 1 .. Len(rows) /\ DOMAIN rows' = 1 .. Len(Tail(rows))
    BY <1>1, <2>1, LenProperties
  <2>3. \A k \in DOMAIN rows' : k + 1 \in DOMAIN rows /\ rows'[k] = rows[k + 1]
    BY <2>1, <2>2
  <2>4. ASSUME NEW i \in DOMAIN rows, i # 1
        PROVE  i - 1 \in DOMAIN rows' /\ rows'[i - 1] = rows[i]
    <3>1. i - 1 \in DOMAIN rows' /\ (i - 1) + 1 = i
      BY <2>1, <2>2, <2>4
    <3> QED
      BY <2>3, <3>1
  <2> QED
    BY <2>1, <2>2, <2>3, <2>4
<1>3. \A k \in DOMAIN rows : k \in Int
  BY <1>1, LenProperties
<1>4. \A k \in DOMAIN rows' : Precedes(Head(rows), rows'[k])
  <2>1. \A k \in DOMAIN rows' : k + 1 > 1
    <3>1. rows' \in Seq(job.rows)
      BY <1>1, HeadTailProperties
    <3>2. \A k \in DOMAIN rows' : k \in 1 .. Len(rows') /\ Len(rows') \in Nat
      BY <3>1, LenProperties
    <3> QED
      BY <3>2
  <2> QED
    BY <1>2, <2>1 DEF Sorted
<1>5. \A k \in DOMAIN rows' : rows'[k] # Head(rows)
  <2>1. \A x \in Tuples(Rank) : ~Precedes(x, x)
    BY DEF Precedes, Tuples
  <2>2. Head(rows) \in Tuples(Rank)
    BY <1>1, <1>2
  <2> QED
    BY <1>4, <2>1, <2>2
<1>6. Seen' = Seen \cup {Head(rows)}
  <2>1. ASSUME NEW r \in job.rows
        PROVE  r \in Seen' <=> r \in Seen \/ r = Head(rows)
    <3>1. (\A k \in DOMAIN rows' : rows'[k] # r)
            <=> (\A i \in DOMAIN rows : rows[i] # r) \/ r = Head(rows)
      <4>1. CASE r = Head(rows)
        <5>1. \A k \in DOMAIN rows' : rows'[k] # r
          BY <1>5, <4>1
        <5> QED
          BY <4>1, <5>1
      <4>2. CASE r # Head(rows)
        <5>1. ASSUME \A k \in DOMAIN rows' : rows'[k] # r, NEW i \in DOMAIN rows
              PROVE  rows[i] # r
          BY <1>2, <4>2, <5>1, SMTT(20), ZenonT(60)
        <5>2. ASSUME \A i \in DOMAIN rows : rows[i] # r, NEW k \in DOMAIN rows'
              PROVE  rows'[k] # r
          BY <1>2, <5>2
        <5> QED
          BY <4>2, <5>1, <5>2
      <4> QED
        BY <4>1, <4>2
    <3> QED
      BY <3>1 DEF Seen
  <2> QED
    BY <1>2, <2>1 DEF Seen
<1>7. Sorted'
  <2>1. \A i, k \in DOMAIN rows' : i < k => Precedes(rows'[i], rows'[k])
    <3>1. \A i, k \in DOMAIN rows' : i < k => i + 1 < k + 1
      <4>1. rows' \in Seq(job.rows)
        BY <1>1, HeadTailProperties
      <4>2. \A i \in DOMAIN rows' : i \in Int
        BY <4>1, LenProperties
      <4> QED
        BY <4>2
    <3> QED
      BY <1>2, <3>1 DEF Sorted
  <2>2. \A r \in Seen \cup {Head(rows)}, k \in DOMAIN rows' : Precedes(r, rows'[k])
    BY <1>2, <1>4 DEF Sorted
  <2> QED
    BY <1>6, <2>1, <2>2 DEF Sorted, Precedes
<1> QED
  BY <1>2, <1>6, <1>7

(* A row changes the buffer of its chunk, at its place, unless it is NULL.   *)
LEMMA DispatchFills ==
  ASSUME Inv, phase = "stream", NEW r \in job.rows, active_chunks' = Dispatch(r)
  PROVE  /\ r \notin Written => active_chunks' = active_chunks
         /\ r \in Written =>
              \A u \in Filled' :
                \/ u \in Filled /\ u.grid # ChunkOf(r)
                \/ /\ u.grid = ChunkOf(r)
                   /\ u.data \in Buffers /\ u.data[PlaceOf(r)] = r
                   /\ \/ \E old \in Filled :
                           /\ old.grid = u.grid
                           /\ \A i \in DOMAIN u.data : i # PlaceOf(r) => u.data[i] = old.data[i]
                      \/ /\ ChunkOf(r) \notin DOMAIN active_chunks
                         /\ \A i \in DOMAIN u.data : i # PlaceOf(r) => u.data[i] = Fill
<1> DEFINE g == ChunkOf(r)
           old == IF g \in DOMAIN active_chunks THEN active_chunks[g] ELSE EmptyBuffer
           new == [old EXCEPT ![PlaceOf(r)] = r]
<1>1. PlaceOf(r) \in 0 .. Volume(chunk_shape) - 1 /\ active_chunks \in [DOMAIN active_chunks -> Buffers]
  BY RunningType DEF Running, Inv, Filling
<1>2. old \in Buffers
  <2>1. EmptyBuffer \in Buffers
    BY DEF EmptyBuffer, Buffers
  <2> QED
    BY <1>1, <2>1
<1>3. active_chunks' = IF r \in job.nulls THEN active_chunks
                       ELSE [h \in DOMAIN active_chunks \cup {g} |->
                               IF h = g THEN new ELSE active_chunks[h]]
  BY DEF Dispatch, ChunkOf, PlaceOf
<1>4. g \notin DOMAIN active_chunks => \A i \in DOMAIN old : old[i] = Fill
  BY DEF EmptyBuffer
<1>5. g \in DOMAIN active_chunks => old = active_chunks[g]
  OBVIOUS
<1> HIDE DEF old
<1>6. /\ new \in Buffers /\ new[PlaceOf(r)] = r /\ DOMAIN new = DOMAIN old
      /\ \A i \in DOMAIN new : i # PlaceOf(r) => new[i] = old[i]
  BY <1>1, <1>2 DEF Buffers
<1> HIDE DEF new
<1>7. ASSUME r \in Written, NEW u \in Filled'
      PROVE  \/ u \in Filled /\ u.grid # g
             \/ /\ u.grid = g /\ u.data = new
                /\ \/ \E v \in Filled : v.grid = g /\ v.data = old
                   \/ g \notin DOMAIN active_chunks
  <2>1. active_chunks' = [h \in DOMAIN active_chunks \cup {g} |->
                            IF h = g THEN new ELSE active_chunks[h]]
    BY <1>3, <1>7 DEF Written
  <2>2. PICK h \in DOMAIN active_chunks \cup {g} : u = [grid |-> h, data |-> active_chunks'[h]]
    BY <2>1 DEF Filled
  <2>3. CASE h # g
    <3>1. u = [grid |-> h, data |-> active_chunks[h]] /\ h \in DOMAIN active_chunks
      BY <2>1, <2>2, <2>3
    <3>2. u \in Filled /\ u.grid = h
      BY <3>1 DEF Filled
    <3> QED
      BY <2>3, <3>2
  <2>4. CASE h = g
    <3>1. u.grid = g /\ u.data = new
      BY <2>1, <2>2, <2>4
    <3>2. ASSUME g \in DOMAIN active_chunks
          PROVE  \E v \in Filled : v.grid = g /\ v.data = old
      <4> DEFINE v == [grid |-> g, data |-> active_chunks[g]]
      <4>1. v \in Filled /\ v.grid = g /\ v.data = old
        BY <1>5, <3>2 DEF Filled
      <4> HIDE DEF v
      <4> QED
        BY <4>1
    <3> QED
      BY <3>1, <3>2
  <2> QED
    BY <2>3, <2>4
<1> HIDE DEF g
<1>8. ASSUME r \in Written, NEW u \in Filled', ~(u \in Filled /\ u.grid # g)
      PROVE  /\ u.grid = g /\ u.data \in Buffers /\ u.data[PlaceOf(r)] = r
             /\ \/ \E v \in Filled :
                     /\ v.grid = u.grid
                     /\ \A i \in DOMAIN u.data : i # PlaceOf(r) => u.data[i] = v.data[i]
                \/ /\ g \notin DOMAIN active_chunks
                   /\ \A i \in DOMAIN u.data : i # PlaceOf(r) => u.data[i] = Fill
  <2>1. u.grid = g /\ u.data = new
    BY <1>7, <1>8
  <2>2. CASE \E v \in Filled : v.grid = g /\ v.data = old
    BY <1>6, <2>1, <2>2
  <2>3. CASE g \notin DOMAIN active_chunks
    BY <1>4, <1>6, <2>1, <2>3
  <2> QED
    BY <1>6, <1>7, <1>8, <2>1, <2>2, <2>3
<1>9. r \notin Written => active_chunks' = active_chunks
  BY <1>3 DEF Written
<1> QED
  BY <1>8, <1>9 DEF g

(* A processed row is in its buffer, which is open while its chunk has rows  *)
(* to come.                                                                *)
LEMMA ProcessRowKeepsContent ==
  ASSUME Inv, ContentInv, ProcessRow
  PROVE  ContentInv'
<1> DEFINE r == Head(rows)
<1>1. /\ UNCHANGED <<job, shape, chunk_shape, stream_ok, channel, uploader, uploading, store>>
      /\ phase = "stream" /\ rows # <<>> /\ rows' = Tail(rows) /\ active_chunks' = Dispatch(r)
      /\ phase' = IF MemoryFull(active_chunks') THEN "evict" ELSE "stream"
      /\ phase' \in {"stream", "evict"}
  BY DEF ProcessRow
<1>2. Running /\ Sorted /\ Contents /\ (Safe => Open)
  BY <1>1 DEF Running, ContentInv
<1>3. /\ r \in job.rows /\ 1 \in DOMAIN rows /\ rows[1] = r
      /\ \A k \in DOMAIN rows' : k + 1 \in DOMAIN rows /\ rows'[k] = rows[k + 1]
      /\ Seen' = Seen \cup {r} /\ Sorted'
  BY <1>1, <1>2, NextRowSeen
<1>4. /\ \A q : ChunkOf(q)' = ChunkOf(q) /\ PlaceOf(q)' = PlaceOf(q)
      /\ (Safe' => Safe) /\ \A u : Whole(u) => Whole(u)'
  BY <1>1, Frame
<1>5. Written' = Written /\ Written \subseteq job.rows
  BY <1>1, <1>2, RunningType, SameBuffers
<1> HIDE DEF r
<1>6. /\ r \notin Written => active_chunks' = active_chunks
      /\ r \in Written =>
           \A u \in Filled' :
             \/ u \in Filled /\ u.grid # ChunkOf(r)
             \/ /\ u.grid = ChunkOf(r)
                /\ u.data \in Buffers /\ u.data[PlaceOf(r)] = r
                /\ \/ \E old \in Filled :
                        /\ old.grid = u.grid
                        /\ \A i \in DOMAIN u.data : i # PlaceOf(r) => u.data[i] = old.data[i]
                   \/ /\ ChunkOf(r) \notin DOMAIN active_chunks
                      /\ \A i \in DOMAIN u.data : i # PlaceOf(r) => u.data[i] = Fill
  BY <1>1, <1>3, DispatchFills
<1>7. ASSUME NEW u \in Filled, r \in Written => u.grid # ChunkOf(r)
      PROVE  Part(u)'
  <2>1. Part(u)
    BY <1>2 DEF Contents
  <2>2. \E q \in Seen' \cap Written' : ChunkOf(q)' = u.grid
    BY <1>3, <1>4, <1>5, <2>1 DEF Part
  <2>3. InChunk(u)'
    BY <1>4, <1>5, <2>1 DEF Part, InChunk
  <2>4. Safe' => Has(u, Seen)
    BY <1>4, <2>1 DEF Part
  <2>5. Safe' => \A q \in Seen' \cap Written' : ChunkOf(q)' = u.grid => u.data[PlaceOf(q)'] = q
    BY <1>3, <1>4, <1>5, <1>7, <2>4 DEF Has
  <2> QED
    BY <2>2, <2>3, <2>5 DEF Part, Has
<1>8. ASSUME r \in Written, NEW u \in Filled', ~(u \in Filled /\ u.grid # ChunkOf(r))
      PROVE  Part(u)'
  <2>1. /\ u.grid = ChunkOf(r) /\ u.data \in Buffers /\ u.data[PlaceOf(r)] = r
        /\ \/ \E old \in Filled :
                /\ old.grid = u.grid
                /\ \A i \in DOMAIN u.data : i # PlaceOf(r) => u.data[i] = old.data[i]
           \/ /\ ChunkOf(r) \notin DOMAIN active_chunks
              /\ \A i \in DOMAIN u.data : i # PlaceOf(r) => u.data[i] = Fill
    BY <1>6, <1>8
  <2>2. \E q \in Seen' \cap Written' : ChunkOf(q)' = u.grid
    BY <1>3, <1>4, <1>5, <1>8, <2>1
  <2>3. DOMAIN u.data = 0 .. Volume(chunk_shape) - 1
    BY <2>1 DEF Buffers
  <2>4. /\ \A old \in Filled : Part(old) /\ DOMAIN old.data = 0 .. Volume(chunk_shape) - 1
        /\ job.rows \subseteq Tuples(Rank)
        /\ \A q \in Tuples(Rank) : PlaceOf(q) \in 0 .. Volume(chunk_shape) - 1
    <3>1. \A old \in Filled : old.data \in Buffers
      BY DEF Filled, Inv, Filling
    <3> QED
      BY <1>2, <3>1, RunningType DEF Contents, Buffers
  <2>5. InChunk(u)'
    <3>1. ASSUME NEW i \in DOMAIN u.data
          PROVE  u.data[i] = Fill \/ ( /\ u.data[i] \in Written /\ ChunkOf(u.data[i]) = u.grid
                                       /\ PlaceOf(u.data[i]) = i)
      <4>1. CASE i = PlaceOf(r)
        BY <1>8, <2>1, <4>1
      <4>2. CASE i # PlaceOf(r)
        <5>1. u.data[i] = Fill \/ \E old \in Filled : old.grid = u.grid /\ u.data[i] = old.data[i]
          BY <2>1, <4>2
        <5>2. \A old \in Filled : InChunk(old) /\ i \in DOMAIN old.data
          BY <2>3, <2>4 DEF Part
        <5> QED
          BY <5>1, <5>2 DEF InChunk
      <4> QED
        BY <4>1, <4>2
    <3> QED
      BY <1>4, <1>5, <3>1 DEF InChunk
  <2>6. ASSUME Safe, NEW q \in (Seen \cup {r}) \cap Written, ChunkOf(q) = u.grid
        PROVE  u.data[PlaceOf(q)] = q
    <3>1. CASE q = r
      BY <2>1, <3>1
    <3>2. CASE q # r
      <4>1. q \in Seen \cap Written /\ q \in Tuples(Rank) /\ r \in Tuples(Rank)
        BY <1>3, <1>5, <2>4, <2>6, <3>2
      <4>2. PlaceOf(q) # PlaceOf(r)
        BY <1>2, <2>1, <2>6, <3>2, <4>1, CellsApart
      <4>3. PlaceOf(q) \in DOMAIN u.data
        BY <2>3, <2>4, <4>1
      <4>4. ChunkOf(r) \in DOMAIN active_chunks
        <5>1. r \in job.rows \ Seen
          BY <1>3 DEF Seen
        <5> QED
          BY <1>2, <2>1, <2>6, <4>1, <5>1 DEF Open
      <4>5. PICK old \in Filled : old.grid = u.grid /\ u.data[PlaceOf(q)] = old.data[PlaceOf(q)]
        BY <2>1, <4>2, <4>3, <4>4
      <4>6. Has(old, Seen)
        BY <2>4, <2>6 DEF Part
      <4> QED
        BY <2>6, <4>1, <4>5, <4>6 DEF Has
    <3> QED
      BY <3>1, <3>2
  <2>7. Safe' => \A q \in Seen' \cap Written' : ChunkOf(q)' = u.grid => u.data[PlaceOf(q)'] = q
    BY <1>3, <1>4, <1>5, <2>6
  <2> QED
    BY <2>2, <2>5, <2>7 DEF Part, Has
<1>9. \A u \in Filled' : Part(u)'
  <2>1. CASE r \notin Written
    <3>1. Filled' = Filled
      BY <1>6, <2>1 DEF Filled
    <3> QED
      BY <1>7, <2>1, <3>1
  <2>2. CASE r \in Written
    BY <1>7, <1>8, <2>2
  <2> QED
    BY <2>1, <2>2
<1>10. Contents'
  <2>1. (OnTheWay \cup Stored)' = OnTheWay \cup Stored /\ Replaced' = Replaced
    BY <1>1 DEF OnTheWay, Stored, Replaced
  <2>2. \A u \in (OnTheWay \cup Stored)' : Whole(u)'
    BY <1>2, <1>4, <2>1 DEF Contents
  <2> QED
    BY <1>1, <1>2, <1>9, <2>1, <2>2 DEF Contents
<1>11. Safe' => Open'
  <2> SUFFICES ASSUME Safe, Open
               PROVE  Open'
    BY <1>2, <1>4
  <2>1. /\ DOMAIN active_chunks \subseteq DOMAIN active_chunks'
        /\ r \in Written => ChunkOf(r) \in DOMAIN active_chunks'
    <3>1. UNCHANGED <<job, chunk_shape>>
      BY <1>1
    <3> QED
      BY <1>1, <1>3, <3>1, DispatchType DEF ChunkOf
  <2>2. ASSUME NEW q \in Seen' \cap Written', NEW z \in job.rows \ Seen',
               ChunkOf(z) = ChunkOf(q)
        PROVE  ChunkOf(q) \in DOMAIN active_chunks'
    <3>1. CASE q = r
      BY <1>5, <2>1, <2>2, <3>1
    <3>2. CASE q \in Seen
      <4>1. z \in job.rows \ Seen
        BY <1>3, <2>2
      <4> QED
        BY <1>5, <2>1, <2>2, <3>2, <4>1 DEF Open
    <3> QED
      BY <1>3, <2>2, <3>1, <3>2
  <2>3. phase' = "evict" => Cardinality(DOMAIN active_chunks') * ChunkBytes' >= MaxMemory
    <3>1. ChunkBytes' = ChunkBytes
      BY <1>1, SameBuffers
    <3> QED
      BY <1>1, <3>1 DEF MemoryFull
  <2> QED
    BY <1>1, <1>4, <2>2, <2>3 DEF Open
<1>12. phase' # "infer" /\ shape' \in [Dims' -> Nat]
  <2>1. Dims' = Dims
    BY <1>1, SameBuffers
  <2> QED
    BY <1>1, <2>1 DEF ContentInv
<1> QED
  BY <1>3, <1>10, <1>11, <1>12 DEF ContentInv

(* An export starts with the chunks the destination holds.                  *)
LEMMA InitEstablishesContent ==
  ASSUME Init
  PROVE  ContentInv
BY DEF Init, ContentInv, Running

(* Before pass 2 nothing is buffered; its rows come in order.               *)
LEMMA InferKeepsContent ==
  ASSUME Inv, ContentInv, Infer
  PROVE  ContentInv'
<1>1. /\ UNCHANGED <<job, active_chunks, stream_ok, channel, uploader, store>>
      /\ active_chunks = <<>> /\ channel = <<>> /\ uploader = "recv"
      /\ job \in Jobs /\ store = [g \in job.held |-> Held]
      /\ phase' = "refused" \/ (phase' = "stream" /\ rows' = StreamOrder(job.rows))
  BY DEF Infer, Inv, Typed, Stages, ContentInv
<1>2. phase' # "infer" /\ shape' \in [Dims' -> Nat]
  <2>1. shape' = InferShape(job.rows) /\ Dims' = Dims
    BY <1>1 DEF Infer, Dims, Rank
  <2> QED
    BY <1>1, <2>1, ShapeType
<1>3. Contents'
  <2>1. Filled' = {} /\ OnTheWay' = {}
    BY <1>1 DEF Filled, OnTheWay
  <2>2. DOMAIN store' = job.held /\ Replaced' = {} /\ Stored' = {}
    BY <1>1 DEF Replaced, Stored
  <2> QED
    BY <1>1, <2>1, <2>2 DEF Contents
<1>4. ASSUME rows' = StreamOrder(job.rows)
      PROVE  Sorted' /\ Seen' = {}
  <2>1. Rank \in Nat /\ job.rows \in SUBSET [1 .. Rank -> Int] /\ IsFiniteSet(job.rows)
    BY <1>1, JobType DEF Grids, Dims
  <2>2. \A r \in job.rows : \E i \in DOMAIN rows' : rows'[i] = r
    BY <1>4, <2>1, StreamOrderType
  <2>3. Seen' = {}
    BY <1>1, <2>2 DEF Seen
  <2>4. \A i, k \in DOMAIN rows' : i < k => Precedes(rows'[i], rows'[k])
    BY <1>4, <2>1, StreamOrderSorted
  <2> QED
    BY <2>3, <2>4 DEF Sorted, Precedes
<1>5. Running' => Open'
  BY <1>1, <1>4 DEF Running, Open
<1>6. Running' => Sorted'
  BY <1>1, <1>4 DEF Running
<1> QED
  BY <1>2, <1>3, <1>5, <1>6 DEF ContentInv

(* Steps that leave the rows and every buffer where they are.               *)
LEMMA NothingMoves ==
  ASSUME Inv, ContentInv, phase # "infer", phase' # "infer", Running' => Running,
         phase' = "evict" => phase = "evict", stream_ok' => stream_ok,
         UNCHANGED <<job, shape, chunk_shape, rows, active_chunks, store>>,
         OnTheWay' \subseteq OnTheWay
  PROVE  ContentInv'
<1>1. /\ \A r : ChunkOf(r)' = ChunkOf(r) /\ (Safe' => Safe)
      /\ \A u : Whole(u) => Whole(u)'
      /\ Seen' = Seen /\ (Sorted => Sorted') /\ \A u : Part(u) => Part(u)'
  BY Frame
<1>2. Dims' = Dims /\ Written' = Written /\ ChunkBytes' = ChunkBytes
  BY SameBuffers
<1>3. Filled' = Filled /\ Stored' = Stored /\ Replaced' = Replaced
  BY DEF Filled, Stored, Replaced
<1>4. Contents => Contents'
  BY <1>1, <1>3 DEF Contents
<1>5. Open => Open'
  BY <1>1, <1>2 DEF Open
<1> QED
  BY <1>1, <1>2, <1>4, <1>5 DEF ContentInv

(* The end of the streaming loop, and of the reader.                        *)
LEMMA EndsKeepContent ==
  ASSUME Inv, ContentInv, LastRow \/ QueryFails \/ RejectRow \/ Flushed \/ Join
  PROVE  ContentInv'
<1>1. CASE LastRow \/ QueryFails \/ RejectRow
  <2>1. /\ UNCHANGED <<job, shape, chunk_shape, rows, active_chunks, store, channel,
                       uploader, uploading>>
        /\ phase = "stream" /\ phase' = "flush"
    BY <1>1 DEF LastRow, QueryFails, RejectRow, EndStream
  <2>2. stream_ok' => stream_ok
    BY <2>1 DEF Inv, Stages
  <2>3. OnTheWay' = OnTheWay
    BY <2>1 DEF OnTheWay
  <2> QED
    BY <2>1, <2>2, <2>3, NothingMoves DEF Running
<1>2. CASE Flushed \/ Join
  <2>1. /\ UNCHANGED <<job, shape, chunk_shape, rows, active_chunks, store, channel,
                       uploader, uploading, stream_ok>>
        /\ phase \in {"flush", "join"} /\ phase' \in {"join", "success", "error"}
    BY <1>2 DEF Flushed, Join, readerState
  <2>2. OnTheWay' = OnTheWay
    BY <2>1 DEF OnTheWay
  <2> QED
    BY <2>1, <2>2, NothingMoves DEF Running
<1> QED
  BY <1>1, <1>2

(* Of what is on its way after a buffer was sent, only that one was not.    *)
LEMMA SentOnTheWay ==
  ASSUME Inv, Evict \/ EvictFails \/ Flush
  PROVE  /\ DOMAIN active_chunks # {}
         /\ \A u \in OnTheWay' : u \in OnTheWay \/ (u \in Filled /\ u.grid = FirstKey)
<1>1. /\ UNCHANGED <<uploader, uploading, job, chunk_shape>> /\ phase # "infer"
      /\ active_chunks' = WithoutFirst
  BY DEF Evict, EvictFails, Flush, SendFirst
<1>5. DOMAIN active_chunks # {}
  BY <1>1, EmptyMap DEF Evict, EvictFails, Flush, Inv, Stages
<1>6. FirstKey \in DOMAIN active_chunks
  BY <1>1, <1>5, PopFirst
<1>8. \A u \in OnTheWay' : u \in OnTheWay \/ (u \in Filled /\ u.grid = FirstKey)
  <2> DEFINE first == [grid |-> FirstKey, data |-> active_chunks[FirstKey]]
  <2>1. first \in Filled /\ first.grid = FirstKey
    BY <1>6 DEF Filled
  <2>2. channel' = channel \/ channel' = Append(channel, first)
    BY <1>1 DEF Evict, EvictFails, Flush, SendFirst
  <2> HIDE DEF first
  <2>3. channel \in Seq(Sent) /\ first \in Sent
    <3>1. DOMAIN active_chunks \subseteq Grids /\ active_chunks[FirstKey] \in Buffers
      BY <1>6 DEF Inv, Filling
    <3> QED
      BY <1>6, <3>1 DEF first, Sent, Inv, Typed
  <2>4. \A i \in DOMAIN channel' : (i \in DOMAIN channel /\ channel'[i] = channel[i]) \/ channel'[i] = first
    <3>1. CASE channel' = channel
      BY <3>1
    <3>2. CASE channel' = Append(channel, first)
      BY <2>3, <3>2, AppendProperties, LenProperties
    <3> QED
      BY <2>2, <3>1, <3>2
  <2>5. \A u \in OnTheWay' : u \in OnTheWay \/ u = first
    BY <1>1, <2>4 DEF OnTheWay
  <2> QED
    BY <2>1, <2>5
<1> QED
  BY <1>5, <1>8

(* The buffer that is sent is on its way, and the others stay.              *)
LEMMA SendingKeepsContent ==
  ASSUME Inv, ContentInv, Evict \/ EvictFails \/ Flush
  PROVE  ContentInv'
<1>1. /\ UNCHANGED <<job, shape, chunk_shape, rows, uploader, uploading, store>>
      /\ phase \in {"evict", "flush"} /\ phase' \in {"stream", "evict", "flush"}
      /\ active_chunks' = WithoutFirst /\ (stream_ok' => stream_ok)
  BY DEF Evict, EvictFails, Flush, SendFirst
<1>2. Running /\ Running' /\ Sorted /\ Contents /\ (Safe => Open)
  BY <1>1 DEF Running, ContentInv
<1>3. /\ \A r : ChunkOf(r)' = ChunkOf(r) /\ (Safe' => Safe)
      /\ \A u : Whole(u) => Whole(u)'
      /\ Seen' = Seen /\ (Sorted => Sorted') /\ \A u : Part(u) => Part(u)'
  BY <1>1, Frame
<1>4. Dims' = Dims /\ Written' = Written /\ ChunkBytes' = ChunkBytes
  BY <1>1, SameBuffers
<1>5. DOMAIN active_chunks # {}
  BY <1>1, EmptyMap DEF Evict, EvictFails, Flush, Inv, Stages
<1>6. FirstKey \in DOMAIN active_chunks /\ DOMAIN active_chunks' = DOMAIN active_chunks \ {FirstKey}
  BY <1>1, <1>5, PopFirst
<1>7. Filled' \subseteq Filled
  BY <1>1, <1>6 DEF Filled, WithoutFirst
<1>8. \A u \in OnTheWay' : u \in OnTheWay \/ (u \in Filled /\ u.grid = FirstKey)
  BY SentOnTheWay
<1>9. \A u \in OnTheWay' : Whole(u)
  BY <1>1, <1>2, <1>5, <1>8, SentWhole DEF Contents
<1>10. Contents'
  <2>1. Stored' = Stored /\ Replaced' = Replaced
    BY <1>1 DEF Stored, Replaced
  <2> QED
    BY <1>1, <1>2, <1>3, <1>7, <1>9, <2>1 DEF Contents
<1>11. Safe' => Open'
  <2> SUFFICES ASSUME Safe, Open
               PROVE  Open'
    BY <1>2, <1>3
  <2>1. ASSUME NEW r \in Seen \cap Written, NEW q \in job.rows \ Seen, ChunkOf(q) = ChunkOf(r)
        PROVE  ChunkOf(r) \in DOMAIN active_chunks'
    <3>1. ChunkOf(r) \in DOMAIN active_chunks
      BY <2>1 DEF Open
    <3>2. PICK i \in DOMAIN rows : rows[i] = q
      BY <2>1 DEF Seen
    <3>3. ChunkOf(r) # FirstKey
      BY <1>1, <1>5, <2>1, <3>2, NoneToCome
    <3> QED
      BY <1>6, <3>1, <3>3
  <2>2. phase' = "evict" => Cardinality(DOMAIN active_chunks') * ChunkBytes >= MaxMemory
    BY <1>1 DEF Evict, EvictFails, Flush, MemoryFull
  <2> QED
    BY <1>1, <1>3, <1>4, <2>1, <2>2 DEF Open
<1> QED
  BY <1>1, <1>2, <1>3, <1>4, <1>10, <1>11 DEF ContentInv

(* The uploader puts nothing on its way.                                    *)
LEMMA UploaderSendsNothing ==
  ASSUME Inv, Uploader
  PROVE  OnTheWay' \subseteq OnTheWay
<1>1. CASE Recv
  <2>1. channel # <<>> /\ channel' = Tail(channel) /\ uploading' = Head(channel)
    BY <1>1 DEF Recv
  <2>2. channel \in Seq(Sent)
    BY DEF Inv, Typed
  <2>3. /\ 1 \in DOMAIN channel /\ Head(channel) = channel[1]
        /\ \A k \in DOMAIN channel' : k + 1 \in DOMAIN channel /\ channel'[k] = channel[k + 1]
    <3>1. /\ Head(channel) = channel[1] /\ Tail(channel) \in Seq(Sent)
          /\ Len(Tail(channel)) = Len(channel) - 1
          /\ \A k \in 1 .. Len(Tail(channel)) : Tail(channel)[k] = channel[k + 1]
      BY <2>1, <2>2, HeadTailProperties
    <3>2. /\ Len(channel) \in Nat /\ Len(Tail(channel)) \in Nat
          /\ DOMAIN channel = 1 .. Len(channel) /\ DOMAIN channel' = 1 .. Len(Tail(channel))
      BY <2>1, <2>2, <3>1, LenProperties
    <3> QED
      BY <2>1, <3>1, <3>2
  <2> QED
    BY <2>1, <2>3 DEF OnTheWay
<1>2. CASE StoreChunk \/ StoreFails \/ StorePanics \/ AllReceived
  BY <1>2 DEF StoreChunk, StoreFails, StorePanics, AllReceived, OnTheWay
<1> QED
  BY <1>1, <1>2 DEF Uploader

(* A buffer taken from the channel stays on its way until it is stored.     *)
LEMMA UploadingKeepsContent ==
  ASSUME Inv, ContentInv, Uploader
  PROVE  ContentInv'
<1>1. /\ UNCHANGED <<job, shape, chunk_shape, rows, active_chunks, stream_ok>>
      /\ phase' \in {phase, "exit"} /\ phase # "infer" /\ phase' # "infer"
  BY UploaderLeavesReader DEF readerState
<1>2. Running' => Running
  BY <1>1 DEF Running
<1>3. CASE Recv
  <2>1. channel # <<>> /\ channel' = Tail(channel) /\ uploading' = Head(channel)
        /\ uploader' = "store" /\ store' = store
    BY <1>3 DEF Recv
  <2>2. OnTheWay' \subseteq OnTheWay
    BY <1>3, UploaderSendsNothing DEF Uploader
  <2> QED
    BY <1>1, <1>2, <2>1, <2>2, NothingMoves
<1>4. CASE StoreFails \/ StorePanics \/ AllReceived
  <2>1. store' = store /\ OnTheWay' \subseteq OnTheWay
    BY <1>4 DEF StoreFails, StorePanics, AllReceived, OnTheWay
  <2> QED
    BY <1>1, <1>2, <2>1, NothingMoves
<1>5. CASE StoreChunk
  <2>1. /\ uploader = "store" /\ uploader' = "recv" /\ channel' = channel /\ phase' = phase
        /\ store' = [g \in DOMAIN store \cup {uploading.grid} |->
                       IF g = uploading.grid THEN uploading.data ELSE store[g]]
        /\ uploading.data \in Buffers /\ uploading \in Sent
    BY <1>5 DEF StoreChunk, Inv, Typed, Sent
  <2>2. CASE ~Running'
    <3>1. Dims' = Dims
      BY <1>1, SameBuffers
    <3> QED
      BY <1>1, <2>2, <3>1 DEF ContentInv
  <2>3. CASE Running'
    <3>1. /\ \A r : ChunkOf(r)' = ChunkOf(r) /\ (Safe' => Safe)
          /\ \A u : Whole(u) => Whole(u)'
          /\ Seen' = Seen /\ (Sorted => Sorted') /\ \A u : Part(u) => Part(u)'
      BY <1>1, Frame
    <3>2. Dims' = Dims /\ Written' = Written /\ ChunkBytes' = ChunkBytes
      BY <1>1, SameBuffers
    <3>3. Running /\ Sorted /\ Contents /\ (Safe => Open)
      BY <1>2, <2>3 DEF ContentInv
    <3>4. OnTheWay' \subseteq OnTheWay /\ uploading \in OnTheWay /\ Filled' = Filled
      BY <1>1, <2>1 DEF OnTheWay, Filled
    <3>5. uploading.data # Held
      BY <2>1, <3>3, NoBufferIsHeld DEF Running
    <3>6. /\ DOMAIN store' = DOMAIN store \cup {uploading.grid}
          /\ store'[uploading.grid] = uploading.data
          /\ \A g \in DOMAIN store \ {uploading.grid} : store'[g] = store[g]
      BY <2>1
    <3>7. Replaced' = Replaced \cup {uploading.grid}
      BY <3>5, <3>6 DEF Replaced
    <3>8. \A u \in Stored' : u \in Stored \/ u = uploading
      <4>1. ASSUME NEW g \in Replaced'
            PROVE  [grid |-> g, data |-> store'[g]] \in Stored
                   \/ [grid |-> g, data |-> store'[g]] = uploading
        <5>1. CASE g = uploading.grid
          <6>1. uploading = [grid |-> uploading.grid, data |-> uploading.data]
            BY <2>1 DEF Sent
          <6> QED
            BY <3>6, <5>1, <6>1
        <5>2. CASE g # uploading.grid
          <6>1. g \in Replaced /\ store'[g] = store[g]
            BY <3>6, <3>7, <5>2 DEF Replaced
          <6> QED
            BY <6>1 DEF Stored
        <5> QED
          BY <5>1, <5>2
      <4> QED
        BY <4>1 DEF Stored
    <3>9. Contents'
      <4>1. \A u \in (OnTheWay \cup Stored)' : Whole(u)'
        BY <3>1, <3>3, <3>4, <3>8 DEF Contents
      <4>2. job'.held \subseteq DOMAIN store' /\ DOMAIN store' \ Replaced' \subseteq job'.held
        BY <1>1, <3>3, <3>6, <3>7 DEF Contents
      <4> QED
        BY <3>1, <3>3, <3>4, <4>1, <4>2 DEF Contents
    <3>10. Open => Open'
      BY <1>1, <2>1, <3>1, <3>2 DEF Open
    <3> QED
      BY <1>1, <3>1, <3>2, <3>3, <3>9, <3>10 DEF ContentInv
  <2> QED
    BY <2>2, <2>3
<1> QED
  BY <1>3, <1>4, <1>5 DEF Uploader

(* Every step keeps the contents as they should be.                        *)
LEMMA NextKeepsContent ==
  ASSUME Inv, ContentInv, [Next]_vars
  PROVE  ContentInv'
<1>1. CASE UNCHANGED vars
  <2>1. UNCHANGED <<job, shape, chunk_shape, rows, active_chunks, store, channel, uploader,
                    uploading, stream_ok, phase>>
    BY <1>1 DEF vars
  <2>2. CASE phase = "infer"
    BY <2>1, <2>2 DEF ContentInv, Running
  <2>3. CASE phase # "infer"
    <3>1. OnTheWay' = OnTheWay /\ Running' = Running
      BY <2>1 DEF OnTheWay, Running
    <3> QED
      BY <2>1, <2>3, <3>1, NothingMoves
  <2> QED
    BY <2>2, <2>3
<1>2. CASE Reader
  BY <1>2, InferKeepsContent, EndsKeepContent, ProcessRowKeepsContent, SendingKeepsContent
     DEF Reader
<1>3. CASE Uploader
  BY <1>3, UploadingKeepsContent
<1> QED
  BY <1>1, <1>2, <1>3 DEF Next, Stay

(* The contents are as they should be in every state an export reaches.     *)
LEMMA ExportContentInv ==
  Spec => [](Inv /\ ContentInv)
<1>1. Init => Inv /\ ContentInv
  BY InitEstablishesInv, InitEstablishesContent
<1>2. Inv /\ ContentInv /\ [Next]_vars => Inv' /\ ContentInv'
  BY NextKeepsInv, NextKeepsContent
<1> QED
  BY <1>1, <1>2, PTL DEF Spec

-----------------------------------------------------------------------------
(* The theorem.                                                            *)

(* How many cells of its chunk come before a cell.                         *)
CellsBefore(c) ==
  Cardinality({q \in Positions(chunk_shape) :
                 Precedes(q, [d \in DOMAIN c |-> c[d] % chunk_shape[d]])})

(* As many as its place says.                                              *)
LEMMA PlaceIsRank ==
  ASSUME Inv, Running, NEW c \in Tuples(Rank)
  PROVE  CellsBefore(c) = PlaceOf(c)
<1> DEFINE p == [d \in 1 .. Rank |-> c[d] % chunk_shape[d]]
<1>1. Rank \in Nat /\ chunk_shape \in Sizes(Rank)
  BY RunningType
<1>2. DOMAIN c = 1 .. Rank
  BY DEF Tuples
<1>3. \A d \in 1 .. Rank : c[d] \in Int /\ chunk_shape[d] \in Nat \ {0}
  BY <1>1 DEF Tuples, Sizes
<1>4. \A d \in 1 .. Rank : c[d] % chunk_shape[d] \in 0 .. chunk_shape[d] - 1
                           /\ c[d] % chunk_shape[d] \in Nat
  BY <1>3, Remainder
<1>5. p \in ChunkCells(chunk_shape, Rank)
  <2>1. p \in [1 .. Rank -> Nat]
    BY <1>4
  <2>2. \A d \in 1 .. Rank : p[d] < chunk_shape[d]
    BY <1>3, <1>4
  <2> HIDE DEF p
  <2> QED
    BY <2>1, <2>2 DEF ChunkCells
<1>6. p \in Tuples(Rank) /\ SamePlace(c, p, chunk_shape, Rank)
  <2>1. p \in Tuples(Rank)
    BY <1>4 DEF Tuples
  <2>2. ASSUME NEW d \in 1 .. Rank
        PROVE  c[d] % chunk_shape[d] = p[d] % chunk_shape[d]
    <3>1. p[d] = c[d] % chunk_shape[d]
      OBVIOUS
    <3>2. \A x \in Int, s \in Nat \ {0} : (x % s) % s = x % s
      OBVIOUS
    <3> HIDE DEF p
    <3> QED
      BY <1>3, <3>1, <3>2
  <2> QED
    BY <2>1, <2>2 DEF SamePlace
<1>7. CellsBefore(c) = Cardinality({q \in Positions(chunk_shape) : Precedes(q, p)})
  BY <1>2 DEF CellsBefore
<1> HIDE DEF p
<1>8. Cardinality({q \in Positions(chunk_shape) : Precedes(q, p)}) = FlatIdx(p, chunk_shape)
  BY <1>1, <1>5, RowMajor
<1>9. FlatIdx(p, chunk_shape) = PlaceOf(c)
  BY <1>1, <1>6, FlatType DEF PlaceOf
<1> QED
  BY <1>7, <1>8, <1>9

(* What a reader finds at a cell is what its chunk holds at its place.      *)
LEMMA CellIsAtItsPlace ==
  ASSUME Inv, Running, NEW c \in Tuples(Rank)
  PROVE  CellValue(c) = IF ChunkOf(c) \notin DOMAIN store THEN Fill
                        ELSE IF store[ChunkOf(c)] = Held THEN Held
                        ELSE store[ChunkOf(c)][PlaceOf(c)]
<1>1. CellsBefore(c) = PlaceOf(c)
  BY PlaceIsRank
<1> QED
  BY <1>1 DEF CellValue, ChunkOf, CellsBefore

(* A successful export whose chunks are complete when they are sent stored  *)
(* every value at its cell, and the fill value at the other cells of the   *)
(* chunks it touched; it leaves the chunks it did not touch as they were.  *)
(* This joins the order of the rows, the eviction of buffers, the flat      *)
(* index of calculate_indices and the whole-chunk writes of the uploader.   *)
THEOREM ExportStoresTheQuery ==
  Spec => []ExportExact
<1>1. Inv /\ ContentInv => ExportExact
  <2> SUFFICES ASSUME Inv, ContentInv, phase = "success", EvictionIsSafe, NEW c \in Cells
               PROVE  CellValue(c) = IF c \in Written THEN c
                                     ELSE IF GridCoord(c, chunk_shape) \in job.held \ Touched THEN Held
                                     ELSE Fill
    BY DEF ExportExact
  <2> DEFINE g == ChunkOf(c)
  <2>1. Running /\ Contents /\ Safe /\ shape \in [1 .. Rank -> Nat]
    BY DEF Running, ContentInv, Safe, Inv, Stages, Dims
  <2>2. /\ Rank \in Nat /\ Written \subseteq Tuples(Rank) /\ Written \subseteq job.rows
        /\ \A r \in Tuples(Rank) : PlaceOf(r) \in 0 .. Volume(chunk_shape) - 1
    BY <2>1, RunningType
  <2>3. c \in Tuples(Rank)
    <3>1. c \in ChunkCells(shape, Rank)
      BY <2>1, <2>2, PositionsType DEF Cells
    <3> QED
      BY <3>1 DEF ChunkCells, Tuples
  <2>4. CellValue(c) = IF g \notin DOMAIN store THEN Fill
                       ELSE IF store[g] = Held THEN Held
                       ELSE store[g][PlaceOf(c)]
    BY <2>1, <2>3, CellIsAtItsPlace
  <2>5. /\ \A h \in Touched : h \in DOMAIN store /\ store[h] # Held
        /\ c \in Written => g \in Touched
    BY SuccessIsComplete DEF NothingLeftBehind, Touched, ChunkOf
  <2>6. CASE g \notin DOMAIN store
    <3>1. g \notin job.held /\ c \notin Written
      BY <2>1, <2>5, <2>6 DEF Contents
    <3> QED
      BY <2>4, <2>6, <3>1 DEF ChunkOf
  <2>7. CASE g \in DOMAIN store /\ store[g] = Held
    <3>1. g \in job.held \ Touched /\ c \notin Written
      BY <2>1, <2>5, <2>7 DEF Contents, Replaced
    <3> QED
      BY <2>4, <2>7, <3>1 DEF ChunkOf
  <2>8. CASE g \in DOMAIN store /\ store[g] # Held
    <3> DEFINE u == [grid |-> g, data |-> store[g]]
    <3>1. u \in Stored /\ u.grid = g /\ u.data = store[g]
      BY <2>8 DEF Stored, Replaced
    <3> HIDE DEF u
    <3>2. Whole(u) /\ Has(u, job.rows)
      BY <2>1, <3>1 DEF Contents, Whole
    <3>3. g \in Touched /\ PlaceOf(c) \in DOMAIN u.data
      BY <2>2, <2>3, <3>1, <3>2 DEF Whole, Buffers
    <3>4. CASE c \in Written
      <4>1. store[g][PlaceOf(c)] = c
        BY <2>2, <3>1, <3>2, <3>4 DEF Has
      <4> QED
        BY <2>4, <2>8, <3>4, <4>1
    <3>5. CASE c \notin Written
      <4>1. ASSUME NEW r \in Written, ChunkOf(r) = g, PlaceOf(r) = PlaceOf(c)
            PROVE  FALSE
        BY <2>1, <2>2, <2>3, <3>5, <4>1, CellsApart
      <4>2. store[g][PlaceOf(c)] = Fill
        BY <3>1, <3>2, <3>3, <4>1 DEF Whole, InChunk
      <4> QED
        BY <2>4, <2>8, <3>3, <3>5, <4>2 DEF ChunkOf
    <3> QED
      BY <3>4, <3>5
  <2> QED
    BY <2>6, <2>7, <2>8
<1> QED
  BY <1>1, ExportContentInv, PTL

-----------------------------------------------------------------------------
(* The export implements its contract.                                     *)

(* A chunk that holds a value which lies in the array.                      *)
Backed(g) == \E r \in Written : ChunkOf(r) = g /\ ~OutOfBounds(r)

(* The rows that were processed have a cell, and so has some value of each  *)
(* buffer on its way; no buffer is stored once the export has ended.        *)
InArray ==
  /\ Running => (\A r \in Seen : ~OutOfBounds(r)) /\ (\A u \in OnTheWay : Backed(u.grid))
  /\ phase \in {"error", "exit"} => uploader \in {"done", "dead"}

(* Bounds and chunks are what they were while the job and the array are.    *)
LEMMA SameBounds ==
  ASSUME UNCHANGED <<job, shape, chunk_shape>>
  PROVE  /\ \A r : OutOfBounds(r)' = OutOfBounds(r) /\ ChunkOf(r)' = ChunkOf(r)
         /\ \A g : Backed(g) => Backed(g)'
<1>1. \A r : OutOfBounds(r)' = OutOfBounds(r) /\ ChunkOf(r)' = ChunkOf(r)
  BY DEF OutOfBounds, ChunkOf, GridCoord
<1>2. Written' = Written
  BY SameBuffers
<1> QED
  BY <1>1, <1>2 DEF Backed

(* Steps that process no row and put no other chunk on its way.             *)
LEMMA StaysInArray ==
  ASSUME InArray, UNCHANGED <<job, shape, chunk_shape, rows>>, Running' => Running,
         Running => \A u \in OnTheWay' : u \in OnTheWay \/ Backed(u.grid),
         phase' \in {"error", "exit"} => uploader' \in {"done", "dead"}
  PROVE  InArray'
<1>1. /\ \A r : OutOfBounds(r)' = OutOfBounds(r) /\ ChunkOf(r)' = ChunkOf(r)
      /\ \A g : Backed(g) => Backed(g)'
  BY SameBounds
<1>2. Seen' = Seen
  BY DEF Seen
<1> QED
  BY <1>1, <1>2 DEF InArray

(* An export starts without rows.                                          *)
LEMMA InitInArray ==
  ASSUME Init
  PROVE  InArray
BY DEF Init, InArray, Running

(* Every row is to come when the streaming starts.                         *)
LEMMA InferInArray ==
  ASSUME Inv, InArray, Infer
  PROVE  InArray'
<1>1. /\ UNCHANGED <<job, channel, uploader>> /\ channel = <<>> /\ uploader = "recv"
      /\ job \in Jobs
      /\ phase' = "refused" \/ (phase' = "stream" /\ rows' = StreamOrder(job.rows))
  BY DEF Infer, Inv, Typed, Stages
<1>2. OnTheWay' = {}
  BY <1>1 DEF OnTheWay
<1>3. ASSUME rows' = StreamOrder(job.rows)
      PROVE  Seen' = {}
  <2>1. Rank \in Nat /\ job.rows \in SUBSET [1 .. Rank -> Int] /\ IsFiniteSet(job.rows)
    BY <1>1, JobType DEF Grids, Dims
  <2>2. \A r \in job.rows : \E i \in DOMAIN rows' : rows'[i] = r
    BY <1>3, <2>1, StreamOrderType
  <2> QED
    BY <1>1, <2>2 DEF Seen
<1> QED
  BY <1>1, <1>2, <1>3 DEF InArray, Running

(* A row is processed only if it lies in the array.                         *)
LEMMA ProcessRowInArray ==
  ASSUME Inv, ContentInv, InArray, ProcessRow
  PROVE  InArray'
<1>1. /\ UNCHANGED <<job, shape, chunk_shape, channel, uploader, uploading>>
      /\ rows # <<>> /\ rows' = Tail(rows) /\ ~OutOfBounds(Head(rows))
      /\ phase = "stream" /\ phase' \in {"stream", "evict"}
  BY DEF ProcessRow
<1>2. Running /\ Sorted
  BY <1>1 DEF Running, ContentInv
<1>3. Seen' = Seen \cup {Head(rows)}
  BY <1>1, <1>2, NextRowSeen
<1>4. OnTheWay' = OnTheWay
  BY <1>1 DEF OnTheWay
<1>5. /\ \A r : OutOfBounds(r)' = OutOfBounds(r)
      /\ \A g : Backed(g) => Backed(g)'
  BY <1>1, SameBounds
<1> QED
  BY <1>1, <1>2, <1>3, <1>4, <1>5 DEF InArray

(* A buffer that is sent has a value that was processed.                    *)
LEMMA SendingInArray ==
  ASSUME Inv, ContentInv, InArray, Evict \/ EvictFails \/ Flush
  PROVE  InArray'
<1>1. /\ UNCHANGED <<job, shape, chunk_shape, rows>>
      /\ phase \in {"evict", "flush"} /\ phase' \in {"stream", "evict", "flush"}
  BY DEF Evict, EvictFails, Flush
<1>2. Running /\ Contents
  BY <1>1 DEF Running, ContentInv
<1>3. \A u \in OnTheWay' : u \in OnTheWay \/ u \in Filled
  BY SentOnTheWay
<1>4. \A u \in Filled : Backed(u.grid)
  BY <1>2 DEF Contents, Part, Backed, InArray
<1> QED
  BY <1>1, <1>2, <1>3, <1>4, StaysInArray

(* The other steps of the reader send nothing.                              *)
LEMMA EndsInArray ==
  ASSUME Inv, InArray, LastRow \/ QueryFails \/ RejectRow \/ Flushed \/ Join
  PROVE  InArray'
<1>1. /\ UNCHANGED <<job, shape, chunk_shape, rows, channel, uploader, uploading>>
      /\ phase \in {"stream", "flush", "join"} /\ phase' # "exit"
      /\ phase' = "error" => uploader \in {"done", "dead"}
  BY DEF LastRow, QueryFails, RejectRow, EndStream, Flushed, Join, readerState
<1>2. OnTheWay' = OnTheWay
  BY <1>1 DEF OnTheWay
<1>3. Running
  BY <1>1 DEF Running
<1> QED
  BY <1>1, <1>2, <1>3, StaysInArray

(* The uploader sends nothing, and does nothing once the export has ended.  *)
LEMMA UploaderInArray ==
  ASSUME Inv, InArray, Uploader
  PROVE  InArray'
<1>1. /\ UNCHANGED <<job, shape, chunk_shape, rows>>
      /\ phase' \in {phase, "exit"} /\ phase # "infer"
      /\ phase' = "exit" => phase = "exit" \/ uploader' = "dead"
  BY UploaderLeavesReader DEF readerState
<1>2. OnTheWay' \subseteq OnTheWay
  BY UploaderSendsNothing
<1>3. ASSUME phase \in {"error", "exit"}
      PROVE  uploader' = "done"
  <2>1. AllReceived
    BY <1>3 DEF Uploader, Recv, StoreChunk, StoreFails, StorePanics, InArray
  <2> QED
    BY <2>1 DEF AllReceived
<1>4. phase' \in {"error", "exit"} => uploader' \in {"done", "dead"}
  BY <1>1, <1>3
<1> QED
  BY <1>1, <1>2, <1>4, StaysInArray DEF Running

(* Every step leaves the processed rows in the array.                       *)
LEMMA NextInArray ==
  ASSUME Inv, ContentInv, InArray, [Next]_vars
  PROVE  InArray'
<1>1. CASE UNCHANGED vars
  <2>1. /\ UNCHANGED <<job, shape, chunk_shape, rows, channel, uploader, uploading, phase>>
        /\ OnTheWay' = OnTheWay
    BY <1>1 DEF vars, OnTheWay
  <2> QED
    BY <2>1, StaysInArray DEF Running, InArray
<1>2. CASE Reader
  BY <1>2, InferInArray, ProcessRowInArray, SendingInArray, EndsInArray DEF Reader
<1>3. CASE Uploader
  BY <1>3, UploaderInArray
<1> QED
  BY <1>1, <1>2, <1>3 DEF Next, Stay

(* The array and its contract stay as they are while the store does.        *)
LEMMA ArrayStays ==
  ASSUME UNCHANGED <<job, shape, chunk_shape, store>>,
         phase \in {"infer", "refused"} <=> phase' \in {"infer", "refused"}
  PROVE  /\ UNCHANGED <<Written, job.held, Created, EvictionIsSafe>>
         /\ \A c : CellValue(c)' = CellValue(c)
         /\ \A c : GridCoord(c, chunk_shape)' = GridCoord(c, chunk_shape)
         /\ Cells' = Cells
<1>1. /\ job' = job /\ chunk_shape' = chunk_shape /\ shape' = shape /\ store' = store
      /\ Written' = Written /\ ChunkBytes' = ChunkBytes
  BY SameBuffers
<1>2. \A c : GridCoord(c, chunk_shape)' = GridCoord(c, chunk_shape)
  BY <1>1 DEF GridCoord
<1>3. EvictionIsSafe' = EvictionIsSafe
  BY <1>1 DEF EvictionIsSafe, Touched, GridCoord, Precedes
<1>4. \A c : CellValue(c)' = CellValue(c)
  BY <1>1 DEF CellValue, GridCoord, Precedes, Positions
<1>5. Cells' = Cells /\ Created' = Created
  BY <1>1 DEF Cells, Positions, Created
<1> QED
  BY <1>1, <1>2, <1>3, <1>4, <1>5

(* So a step that leaves the store alone can change the status only.        *)
LEMMA OnlyStatus ==
  ASSUME UNCHANGED <<job, shape, chunk_shape, store>>,
         phase \in {"infer", "refused"} <=> phase' \in {"infer", "refused"}
  PROVE  UNCHANGED <<Written, job.held, Shown, Layout, Created /\ EvictionIsSafe>>
<1>1. /\ UNCHANGED <<Written, job.held, Created, EvictionIsSafe>>
      /\ \A c : CellValue(c)' = CellValue(c)
      /\ \A c : GridCoord(c, chunk_shape)' = GridCoord(c, chunk_shape)
      /\ Cells' = Cells
  BY ArrayStays
<1> QED
  BY <1>1 DEF Shown, Layout

(* The reader's steps after the array exists, but for a success.            *)
LEMMA ReaderMovesStatus ==
  ASSUME Inv, Reader, ~Infer, phase' # "success"
  PROVE  /\ UNCHANGED <<Written, job.held, Shown, Layout, Created /\ EvictionIsSafe>>
         /\ \/ Status' = Status
            \/ Status = "open" /\ Status' = "broken"
            \/ Status \in {"open", "broken"} /\ Status' = "failed"
<1>1. /\ UNCHANGED <<job, shape, chunk_shape, store>>
      /\ phase \in {"stream", "evict", "flush", "join"}
      /\ phase' \in {"stream", "evict", "flush", "join", "error"}
      /\ stream_ok' = stream_ok \/ stream_ok' = FALSE
      /\ stream_ok' # stream_ok => phase' # "error"
  BY DEF Reader, LastRow, QueryFails, RejectRow, EndStream, ProcessRow, Evict, EvictFails,
         SendFirst, Flush, Flushed, Join, readerState, Inv, Stages, Typed
<1>2. stream_ok \in BOOLEAN
  BY DEF Inv, Typed
<1> QED
  BY <1>1, <1>2, OnlyStatus DEF Status

(* The array comes into being as the destination's chunks are.              *)
LEMMA InferCreates ==
  ASSUME Inv, ContentInv, Infer
  PROVE  Contract!Create \/ Contract!Fail
<1>1. /\ UNCHANGED <<job, store>> /\ phase = "infer" /\ ~Created
      /\ store = [g \in job.held |-> Held]
      /\ phase' \in {"refused", "stream"}
      /\ stream_ok' /\ Written' = Written
  BY DEF Infer, Inv, Stages, ContentInv, Created, Written
<1>2. CASE phase' = "refused"
  <2>1. ~Created'
    BY <1>1, <1>2 DEF Created
  <2> QED
    BY <1>1, <1>2, <2>1 DEF Contract!Fail, Shown, Layout, Status
<1>3. CASE phase' = "stream"
  <2>1. Created'
    BY <1>1, <1>3 DEF Created
  <2>2. \A c : CellValue(c)' = IF GridCoord(c, chunk_shape)' \in job.held THEN Held ELSE Fill
    BY <1>1 DEF CellValue, GridCoord
  <2>3. (Created /\ EvictionIsSafe)' \in BOOLEAN
    OBVIOUS
  <2> QED
    BY <1>1, <1>3, <2>1, <2>2, <2>3 DEF Contract!Create, Shown, Layout, Status
<1> QED
  BY <1>1, <1>2, <1>3

(* A row within the bounds is a cell.                                      *)
LEMMA RowsAreCells ==
  ASSUME Inv, ContentInv, Running
  PROVE  /\ Created /\ Cells \subseteq Tuples(Rank)
         /\ \A r \in Written : ~OutOfBounds(r) => r \in Cells
<1>1. /\ Rank \in Nat /\ chunk_shape \in Sizes(Rank) /\ shape \in [1 .. Rank -> Nat]
      /\ Written \subseteq Tuples(Rank)
  BY RunningType DEF ContentInv, Running, Dims
<1>2. Created
  <2>1. DOMAIN chunk_shape = 1 .. Rank /\ \A d \in 1 .. Rank : chunk_shape[d] # 0
    BY <1>1 DEF Sizes
  <2> QED
    BY <2>1 DEF Created, Running, Range
<1>3. Cells = ChunkCells(shape, Rank)
  BY <1>1, PositionsType DEF Cells
<1>4. ASSUME NEW r \in Written, ~OutOfBounds(r)
      PROVE  r \in Cells
  <2>1. r \in [1 .. Rank -> Int]
    BY <1>1 DEF Tuples
  <2>2. \A d \in 1 .. Rank : ~(r[d] < 0) /\ ~(r[d] >= shape[d])
    BY <1>4, <2>1 DEF OutOfBounds
  <2>3. \A d \in 1 .. Rank : r[d] \in Nat /\ r[d] < shape[d]
    BY <1>1, <2>1, <2>2
  <2>4. r \in [1 .. Rank -> Nat]
    BY <2>1, <2>3
  <2> QED
    BY <1>3, <2>3, <2>4 DEF ChunkCells
<1> QED
  BY <1>2, <1>3, <1>4 DEF ChunkCells, Tuples

Outcome(c) ==
  IF c \notin Written THEN {Fill}
  ELSE IF Safe THEN {c}
  ELSE {c, Fill}

(* What a buffer that was sent shows at a cell of its chunk.                *)
LEMMA SentShows ==
  ASSUME Inv, ContentInv, Running, NEW u, Whole(u), NEW c \in Cells, ChunkOf(c) = u.grid
  PROVE  u.data[PlaceOf(c)] \in Outcome(c)
<1>1. /\ c \in Tuples(Rank) /\ Written \subseteq Tuples(Rank) /\ Written \subseteq job.rows
      /\ PlaceOf(c) \in 0 .. Volume(chunk_shape) - 1
  BY RowsAreCells, RunningType
<1>2. PlaceOf(c) \in DOMAIN u.data
  BY <1>1 DEF Whole, Buffers
<1>3. u.data[PlaceOf(c)] = Fill \/ (c \in Written /\ u.data[PlaceOf(c)] = c)
  <2> DEFINE r == u.data[PlaceOf(c)]
  <2>1. r = Fill \/ (r \in Written /\ ChunkOf(r) = u.grid /\ PlaceOf(r) = PlaceOf(c))
    BY <1>2 DEF Whole, InChunk
  <2> HIDE DEF r
  <2>2. ASSUME r \in Written, ChunkOf(r) = u.grid, PlaceOf(r) = PlaceOf(c)
        PROVE  r = c
    BY <1>1, <2>2, CellsApart
  <2> QED
    BY <2>1, <2>2 DEF r
<1>4. c \in Written /\ Safe => u.data[PlaceOf(c)] = c
  BY <1>1 DEF Whole, Has
<1> QED
  BY <1>3, <1>4 DEF Outcome

(* A chunk is replaced as a whole, and no other.                            *)
LEMMA StoreReplaces ==
  ASSUME Inv, ContentInv, InArray, StoreChunk
  PROVE  Contract!Replace
<1> DEFINE g == uploading.grid
<1>1. /\ UNCHANGED <<job, shape, chunk_shape, stream_ok, phase>> /\ uploader = "store"
      /\ store' = [h \in DOMAIN store \cup {g} |-> IF h = g THEN uploading.data ELSE store[h]]
  BY DEF StoreChunk, readerState
<1>2. Running /\ phase # "success"
  BY <1>1 DEF Running, InArray, Inv, Stages
<1>3. Created /\ Created'
  <2>1. Created
    BY <1>2, RowsAreCells
  <2> QED
    BY <1>1, <2>1 DEF Created
<1>4. uploading \in OnTheWay /\ Whole(uploading) /\ Backed(g)
  <2>1. uploading \in OnTheWay
    BY <1>1 DEF OnTheWay
  <2> QED
    BY <1>2, <2>1 DEF ContentInv, Contents, InArray
<1>5. PICK r \in Cells \cap Written : ChunkOf(r) = g
  BY <1>2, <1>4, RowsAreCells DEF Backed
<1>6. uploading.data # Held
  BY <1>2, <1>4, NoBufferIsHeld DEF Running, Whole
<1>7. /\ DOMAIN store' = DOMAIN store \cup {g} /\ store'[g] = uploading.data
      /\ \A h \in DOMAIN store \ {g} : store'[h] = store[h]
  BY <1>1
<1> HIDE DEF g
<1>8. /\ Written' = Written /\ Cells' = Cells /\ EvictionIsSafe' = EvictionIsSafe
      /\ \A c : GridCoord(c, chunk_shape)' = GridCoord(c, chunk_shape)
  <2>1. job' = job /\ chunk_shape' = chunk_shape /\ shape' = shape /\ ChunkBytes' = ChunkBytes
        /\ Written' = Written
    BY <1>1, SameBuffers
  <2> QED
    BY <2>1 DEF Cells, Positions, EvictionIsSafe, Touched, GridCoord, Precedes
<1>9. ASSUME NEW c \in Cells
      PROVE  IF GridCoord(c, chunk_shape) = g THEN CellValue(c)' \in Outcome(c)
             ELSE CellValue(c)' = CellValue(c)
  <2>1. c \in Tuples(Rank)
    BY <1>2, RowsAreCells
  <2>2. CellValue(c)' = IF ChunkOf(c) \notin DOMAIN store' THEN Fill
                        ELSE IF store'[ChunkOf(c)] = Held THEN Held
                        ELSE store'[ChunkOf(c)][PlaceOf(c)]
    <3>1. CellsBefore(c) = PlaceOf(c)
      BY <1>2, <2>1, PlaceIsRank
    <3>2. chunk_shape' = chunk_shape
      BY <1>1
    <3> QED
      BY <3>1, <3>2 DEF CellValue, ChunkOf, GridCoord, CellsBefore, Positions, Precedes
  <2>3. CellValue(c) = IF ChunkOf(c) \notin DOMAIN store THEN Fill
                       ELSE IF store[ChunkOf(c)] = Held THEN Held
                       ELSE store[ChunkOf(c)][PlaceOf(c)]
    BY <1>2, <2>1, CellIsAtItsPlace
  <2>4. CASE ChunkOf(c) = g
    <3>1. uploading.data[PlaceOf(c)] \in Outcome(c)
      BY <1>2, <1>4, <2>4, SentShows DEF g
    <3> QED
      BY <1>6, <1>7, <2>2, <2>4, <3>1 DEF ChunkOf
  <2>5. CASE ChunkOf(c) # g
    BY <1>7, <2>2, <2>3, <2>5 DEF ChunkOf
  <2> QED
    BY <2>4, <2>5 DEF ChunkOf
<1>10. /\ Status = (IF stream_ok THEN "open" ELSE "broken") /\ Status' = Status
       /\ Status \in {"open", "broken"}
  <2>1. phase \in {"stream", "evict", "flush", "join"}
    BY <1>2 DEF Running, Inv, Typed
  <2> QED
    BY <1>1, <2>1 DEF Status
<1>11. Shown = [c \in Cells |-> CellValue(c)] /\ Shown' = [c \in Cells |-> CellValue(c)']
       /\ Layout = [c \in Cells |-> GridCoord(c, chunk_shape)] /\ Layout' = Layout
  BY <1>3, <1>8 DEF Shown, Layout
<1>12. /\ DOMAIN Shown' = DOMAIN Shown
       /\ \A c \in DOMAIN Shown :
            IF Layout[c] = g THEN Shown'[c] \in Outcome(c) ELSE Shown'[c] = Shown[c]
       /\ g \in {Layout[c] : c \in Written \cap DOMAIN Layout}
  BY <1>5, <1>9, <1>11 DEF ChunkOf
<1> QED
  <2>1. \A c : Contract!Outcomes(c) = Outcome(c)
    BY <1>3, <1>10 DEF Outcome, Safe, Contract!Outcomes
  <2>2. UNCHANGED <<Written, job.held, Layout, Created /\ EvictionIsSafe, Status>>
    BY <1>1, <1>3, <1>8, <1>10, <1>11
  <2>3. g \in Contract!Touched
    BY <1>12 DEF Contract!Touched
  <2> QED
    BY <1>10, <1>12, <2>1, <2>2, <2>3 DEF Contract!Replace

(* At a success every chunk that has a value was replaced.                  *)
LEMMA SuccessStored ==
  ASSUME Inv, Join, phase' = "success"
  PROVE  \A r \in Written : GridCoord(r, chunk_shape) \in Replaced
<1>1. /\ phase = "join" /\ uploader = "done" /\ stream_ok /\ rows = <<>>
      /\ active_chunks = <<>> /\ channel = <<>>
  BY DEF Join, Inv, Stages
<1>2. \A u \in Buffers : u # Held
  BY <1>1, NoBufferIsHeld
<1>3. DOMAIN rows = {} /\ DOMAIN active_chunks = {} /\ DOMAIN channel = {}
  BY <1>1
<1>4. \A r \in Written :
        (\E i \in DOMAIN rows : rows[i] = r) \/ Somewhere(GridCoord(r, chunk_shape))
  BY <1>1 DEF Inv, Covered
<1> QED
  BY <1>1, <1>2, <1>3, <1>4 DEF Somewhere, Replaced

(* A success is reported only when nothing is missing.                      *)
LEMMA JoinSucceeds ==
  ASSUME Inv, ContentInv, InArray, Join, phase' = "success"
  PROVE  Contract!Succeed
<1>1. /\ UNCHANGED <<job, shape, chunk_shape, store>> /\ phase = "join" /\ stream_ok
      /\ rows = <<>>
  BY DEF Join, readerState, Inv, Stages
<1>2. Running /\ Contents /\ stream_ok
  BY <1>1 DEF Running, ContentInv
<1>3. Status = "open" /\ Status' = "success"
  BY <1>1 DEF Status
<1>4. UNCHANGED <<Written, job.held, Shown, Layout, Created /\ EvictionIsSafe>>
  BY <1>1, OnlyStatus
<1>5. /\ Shown = [c \in Cells |-> CellValue(c)]
      /\ Layout = [c \in Cells |-> GridCoord(c, chunk_shape)]
      /\ Cells \subseteq Tuples(Rank) /\ Created
  BY <1>2, RowsAreCells DEF Shown, Layout
<1>6. Written \subseteq Cells
  <2>1. Seen = job.rows /\ Written \subseteq job.rows
    BY <1>1, <1>2, RunningType DEF Seen
  <2> QED
    BY <1>2, <2>1, RowsAreCells DEF InArray
<1>7. \A r \in Written : ChunkOf(r) \in DOMAIN store /\ store[ChunkOf(r)] # Held
  <2>1. \A r \in Written : GridCoord(r, chunk_shape) \in Replaced
    BY SuccessStored
  <2> QED
    BY <2>1 DEF ChunkOf, Replaced
<1>8. ASSUME NEW c \in Cells, NEW r \in Written, ChunkOf(c) = ChunkOf(r)
      PROVE  CellValue(c) \in Outcome(c)
  <2> DEFINE u == [grid |-> ChunkOf(c), data |-> store[ChunkOf(c)]]
  <2>1. u \in Stored /\ u.grid = ChunkOf(c) /\ u.data = store[ChunkOf(c)]
    BY <1>7, <1>8 DEF Stored, Replaced
  <2> HIDE DEF u
  <2>2. Whole(u)
    BY <1>2, <2>1 DEF Contents
  <2>3. u.data[PlaceOf(c)] \in Outcome(c)
    BY <1>2, <2>1, <2>2, SentShows
  <2>4. CellValue(c) = store[ChunkOf(c)][PlaceOf(c)]
    <3>1. CellValue(c) = IF ChunkOf(c) \notin DOMAIN store THEN Fill
                         ELSE IF store[ChunkOf(c)] = Held THEN Held
                         ELSE store[ChunkOf(c)][PlaceOf(c)]
      BY <1>2, <1>5, CellIsAtItsPlace
    <3> QED
      BY <1>7, <1>8, <3>1
  <2> QED
    BY <2>1, <2>3, <2>4
<1>9. \A c : Contract!Outcomes(c) = Outcome(c)
  BY <1>3, <1>5, <1>2 DEF Outcome, Safe, Contract!Outcomes
<1>10. ASSUME NEW c \in DOMAIN Shown, Layout[c] \in Contract!Touched
       PROVE  Shown[c] \in Contract!Outcomes(c)
  <2>1. c \in Cells /\ Layout[c] = ChunkOf(c) /\ Shown[c] = CellValue(c)
    BY <1>5, <1>10 DEF ChunkOf
  <2>2. PICK r \in Written : Layout[c] = ChunkOf(r)
    BY <1>5, <1>10 DEF Contract!Touched, ChunkOf
  <2> QED
    BY <1>8, <1>9, <2>1, <2>2
<1>11. Written \subseteq DOMAIN Shown
  BY <1>5, <1>6
<1> QED
  BY <1>3, <1>4, <1>10, <1>11 DEF Contract!Succeed

(* Every step is one of the contract, or changes nothing it speaks of.      *)
LEMMA StepKeepsContract ==
  ASSUME Inv, ContentInv, InArray, [Next]_vars
  PROVE  [Contract!Next]_(Contract!vars)
<1>1. CASE UNCHANGED vars
  <2>1. UNCHANGED <<job, shape, chunk_shape, store, phase, stream_ok>>
    BY <1>1 DEF vars
  <2>2. Status' = Status
    BY <2>1 DEF Status
  <2> QED
    BY <2>1, <2>2, OnlyStatus DEF Contract!vars
<1>2. CASE Infer
  BY <1>2, InferCreates DEF Contract!Next
<1>3. CASE Reader /\ ~Infer /\ phase' = "success"
  <2>1. Join
    BY <1>3 DEF Reader, LastRow, QueryFails, RejectRow, EndStream, ProcessRow, Evict,
                EvictFails, Flush, Flushed
  <2> QED
    BY <1>3, <2>1, JoinSucceeds DEF Contract!Next
<1>4. CASE Reader /\ ~Infer /\ phase' # "success"
  <2>1. /\ UNCHANGED <<Written, job.held, Shown, Layout, Created /\ EvictionIsSafe>>
        /\ \/ Status' = Status
           \/ Status = "open" /\ Status' = "broken"
           \/ Status \in {"open", "broken"} /\ Status' = "failed"
    BY <1>4, ReaderMovesStatus
  <2> QED
    BY <2>1 DEF Contract!vars, Contract!Next, Contract!Break, Contract!Fail
<1>5. CASE StoreChunk
  BY <1>5, StoreReplaces DEF Contract!Next
<1>6. CASE Recv \/ StorePanics \/ AllReceived \/ StoreFails
  <2>1. /\ UNCHANGED <<job, shape, chunk_shape, store, stream_ok>>
        /\ phase \notin {"infer", "refused"}
    BY <1>6, UploaderLeavesReader
       DEF Uploader, Recv, StorePanics, AllReceived, StoreFails, readerState
  <2>2. \/ phase' = phase
        \/ phase' = "exit" /\ uploader = "store"
    BY <1>6 DEF Recv, StorePanics, AllReceived, StoreFails
  <2>3. UNCHANGED <<Written, job.held, Shown, Layout, Created /\ EvictionIsSafe>>
    BY <2>1, <2>2, OnlyStatus
  <2>4. CASE phase' = phase
    <3>1. Status' = Status
      BY <2>1, <2>4 DEF Status
    <3> QED
      BY <2>3, <3>1 DEF Contract!vars
  <2>5. CASE phase' = "exit" /\ uploader = "store"
    <3>1. phase \in {"stream", "evict", "flush", "join"}
      BY <2>1, <2>5 DEF InArray, Inv, Stages, Typed
    <3>2. Status \in {"open", "broken"} /\ Status' = "failed"
      BY <2>5, <3>1 DEF Status
    <3> QED
      BY <2>3, <3>2 DEF Contract!Next, Contract!Fail
  <2> QED
    BY <2>2, <2>4, <2>5
<1> QED
  BY <1>1, <1>2, <1>3, <1>4, <1>5, <1>6 DEF Next, Reader, Uploader, Stay

(* The export implements what it promises about the array: whatever the     *)
(* reader, the channel and the uploader do, and wherever they fail, the     *)
(* array changes only by whole chunks that have a value, a cell never shows *)
(* another's value, and success means that every value has its cell.        *)
THEOREM ExportImplementsContract ==
  Spec => ArrayContract
<1>1. Init => Contract!Init
  BY DEF Init, Contract!Init, Shown, Layout, Created, Status
<1>2. Inv /\ ContentInv /\ InArray /\ [Next]_vars => [Contract!Next]_(Contract!vars)
  BY StepKeepsContract
<1>3. Init => InArray
  BY InitInArray
<1>4. Inv /\ ContentInv /\ InArray /\ [Next]_vars => InArray'
  BY NextInArray
<1> QED
  BY <1>1, <1>2, <1>3, <1>4, ExportContentInv, PTL DEF Spec, ArrayContract, Contract!Spec

=============================================================================
