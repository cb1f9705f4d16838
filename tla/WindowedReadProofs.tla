------------------------- MODULE WindowedReadProofs -------------------------
(***************************************************************************)
(* Theorems about one query (WindowedRead), for every rank, shape, chunk    *)
(* shape, vector size, window and set of regular sources: the box is the    *)
(* window, its chunks are enumerated in order, as planned, and the rows are *)
(* its cells, each once; the columns of a row are the coordinates of its    *)
(* cell, in an image the centre of its pixel; its value is the cell's or    *)
(* the pixel's; and no read of a matching window fails, but for a tile      *)
(* whose byte count was not read.                                          *)
(***************************************************************************)
EXTENDS WindowedRead, FiniteInduction, SequenceTheorems

-----------------------------------------------------------------------------
(* Filters on sorted coordinates.                                          *)

IsWithin(cs, i, v, isMin) == IF isMin THEN cs[i + 1] >= v ELSE cs[i + 1] <= v
Filter(cs, v, isMin) == IF isMin THEN AtLeast(cs, v) ELSE AtMost(cs, v)

(* A sorted array is ascending or descending as Ascending tells.            *)
LEMMA SortedWay ==
  ASSUME NEW cs \in Seq(Int), Sorted(cs), Len(cs) # 0
  PROVE  /\ Len(cs) \in Nat \ {0} /\ DOMAIN cs = 1 .. Len(cs) /\ Ascending(cs) \in BOOLEAN
         /\ \A i \in 1 .. Len(cs) : cs[i] \in Int
         /\ Ascending(cs) => \A i, j \in 1 .. Len(cs) : i <= j => cs[i] <= cs[j]
         /\ ~Ascending(cs) => \A i, j \in 1 .. Len(cs) : i <= j => cs[i] >= cs[j]
<1> DEFINE n == Len(cs)
<1>1. n \in Nat \ {0} /\ DOMAIN cs = 1 .. n /\ \A i \in 1 .. n : cs[i] \in Int
  OBVIOUS
<1>2. 1 \in 1 .. n /\ n \in 1 .. n /\ \A i \in 1 .. n : 1 <= i /\ i <= n
  BY <1>1
<1>3. Ascending(cs) <=> cs[1] <= cs[n]
  BY DEF Ascending
<1> HIDE DEF n
<1>4. CASE \A i, j \in 1 .. n : i <= j => cs[i] <= cs[j]
  <2>1. Ascending(cs)
    BY <1>2, <1>3, <1>4
  <2> QED
    BY <1>1, <1>4, <2>1 DEF n, Ascending
<1>5. CASE \A i, j \in 1 .. n : i <= j => cs[i] >= cs[j]
  <2>1. ASSUME Ascending(cs), NEW i \in 1 .. n, NEW j \in 1 .. n
        PROVE  cs[i] = cs[j]
    <3>1. cs[1] >= cs[i] /\ cs[i] >= cs[n] /\ cs[1] >= cs[j] /\ cs[j] >= cs[n]
      BY <1>2, <1>5
    <3>2. cs[1] \in Int /\ cs[n] \in Int /\ cs[i] \in Int /\ cs[j] \in Int
      BY <1>1, <1>2
    <3> QED
      BY <1>3, <2>1, <3>1, <3>2
  <2>2. Ascending(cs) => \A i, j \in 1 .. n : i <= j => cs[i] <= cs[j]
    BY <1>1, <2>1
  <2> QED
    BY <1>1, <1>5, <2>2 DEF n, Ascending
<1> QED
  BY <1>1, <1>4, <1>5 DEF Sorted

(* Below and UpTo count an end of the array, which is where the bisection    *)
(* ends.                                                                   *)
LEMMA Bisection ==
  ASSUME NEW cs \in Seq(Int), Sorted(cs), Len(cs) # 0, NEW v \in Int
  PROVE  /\ Below(cs, v) \in 0 .. Len(cs) /\ UpTo(cs, v) \in 0 .. Len(cs)
         /\ Ascending(cs) =>
              \A i \in 1 .. Len(cs) : /\ cs[i] < v <=> i <= Below(cs, v)
                                      /\ cs[i] <= v <=> i <= UpTo(cs, v)
         /\ ~Ascending(cs) =>
              \A i \in 1 .. Len(cs) : /\ cs[i] < v <=> i > Len(cs) - Below(cs, v)
                                      /\ cs[i] <= v <=> i > Len(cs) - UpTo(cs, v)
<1> DEFINE n == Len(cs)
           B == {i \in 1 .. n : cs[i] < v}
           U == {i \in 1 .. n : cs[i] <= v}
<1>1. /\ n \in Nat \ {0} /\ DOMAIN cs = 1 .. n /\ \A i \in 1 .. n : cs[i] \in Int
      /\ Ascending(cs) => \A i, j \in 1 .. n : i <= j => cs[i] <= cs[j]
      /\ ~Ascending(cs) => \A i, j \in 1 .. n : i <= j => cs[i] >= cs[j]
  BY SortedWay
<1>2. Below(cs, v) = Cardinality(B) /\ UpTo(cs, v) = Cardinality(U)
  BY <1>1 DEF Below, UpTo
<1>3. B \in SUBSET (1 .. n) /\ U \in SUBSET (1 .. n)
  OBVIOUS
<1> HIDE DEF n
<1>4. CASE Ascending(cs)
  <2>1. /\ \A i \in B : \A j \in 1 .. n : j <= i => j \in B
        /\ \A i \in U : \A j \in 1 .. n : j <= i => j \in U
    <3>1. ASSUME NEW i \in 1 .. n, NEW j \in 1 .. n, j <= i
          PROVE  (cs[i] < v => cs[j] < v) /\ (cs[i] <= v => cs[j] <= v)
      <4>1. cs[j] <= cs[i] /\ cs[i] \in Int /\ cs[j] \in Int
        BY <1>1, <1>4, <3>1
      <4> QED
        BY <4>1
    <3> QED
      BY <3>1
  <2> DEFINE b == Cardinality(B)
             u == Cardinality(U)
  <2>2. b \in 0 .. n /\ B = 1 .. b /\ u \in 0 .. n /\ U = 1 .. u
    <3> HIDE DEF B, U
    <3>1. b \in 0 .. n /\ B = 1 .. b
      BY <1>1, <1>3, <2>1, InitialSegment
    <3>2. u \in 0 .. n /\ U = 1 .. u
      BY <1>1, <1>3, <2>1, InitialSegment
    <3> QED
      BY <3>1, <3>2
  <2>3. \A i \in 1 .. n : (cs[i] < v <=> i \in 1 .. b) /\ (cs[i] <= v <=> i \in 1 .. u)
    BY <2>2
  <2> HIDE DEF b, u
  <2> QED
    BY <1>2, <1>4, <2>2, <2>3, SMTT(30) DEF b, u, n
<1>5. CASE ~Ascending(cs)
  <2>1. /\ \A i \in B : \A j \in 1 .. n : i <= j => j \in B
        /\ \A i \in U : \A j \in 1 .. n : i <= j => j \in U
    <3>1. ASSUME NEW i \in 1 .. n, NEW j \in 1 .. n, i <= j
          PROVE  (cs[i] < v => cs[j] < v) /\ (cs[i] <= v => cs[j] <= v)
      <4>1. cs[i] >= cs[j] /\ cs[i] \in Int /\ cs[j] \in Int
        BY <1>1, <1>5, <3>1
      <4> QED
        BY <4>1
    <3> QED
      BY <3>1
  <2> DEFINE b == Cardinality(B)
             u == Cardinality(U)
  <2>2. b \in 0 .. n /\ B = n - b + 1 .. n /\ u \in 0 .. n /\ U = n - u + 1 .. n
    <3> HIDE DEF B, U
    <3> QED
      BY <1>1, <1>3, <2>1, FinalSegment
  <2>3. \A i \in 1 .. n : (cs[i] < v <=> i \in n - b + 1 .. n)
                          /\ (cs[i] <= v <=> i \in n - u + 1 .. n)
    BY <2>2
  <2> HIDE DEF b, u, B, U
  <2>4. \A i \in 1 .. n : (i \in n - b + 1 .. n <=> i > n - b)
                          /\ (i \in n - u + 1 .. n <=> i > n - u)
    BY <1>1, <2>2
  <2>5. \A i \in 1 .. n : (cs[i] < v <=> i > n - b) /\ (cs[i] <= v <=> i > n - u)
    BY <2>3, <2>4
  <2>6. Below(cs, v) = b /\ UpTo(cs, v) = u
    BY <1>2 DEF b, u
  <2> QED
    BY <1>5, <2>2, <2>5, <2>6 DEF n
<1> QED
  BY <1>4, <1>5

IsRange(r, cs, p, q) == p \in 0 .. Len(cs) /\ q \in 0 .. Len(cs) - 1 /\ r = <<p, q>>

(* A filter that some index passes narrows a range to the indices that pass  *)
(* it; one that none passes leaves a range of indices.                      *)
LEMMA FilterNarrows ==
  ASSUME NEW cs \in Seq(Int), Sorted(cs), Len(cs) # 0, NEW v \in Int, NEW isMin \in BOOLEAN,
         NEW range, NEW p, NEW q, IsRange(range, cs, p, q)
  PROVE  \E a, b :
           /\ IsRange(NarrowFrom(range, cs, Filter(cs, v, isMin), isMin), cs, a, b)
           /\ (\E i \in 0 .. Len(cs) - 1 : IsWithin(cs, i, v, isMin)) =>
                \A i \in 0 .. Len(cs) - 1 :
                  i \in a .. b <=> i \in p .. q /\ IsWithin(cs, i, v, isMin)
<1> DEFINE n == Len(cs)
           low == Below(cs, v)
           upto == UpTo(cs, v)
           some == \E i \in 0 .. n - 1 : IsWithin(cs, i, v, isMin)
           Good(r, a, b) == /\ IsRange(r, cs, a, b)
                            /\ some => \A i \in 0 .. n - 1 :
                                 i \in a .. b <=> i \in p .. q /\ IsWithin(cs, i, v, isMin)
<1>1. /\ n \in Nat \ {0} /\ p \in 0 .. n /\ q \in 0 .. n - 1 /\ range = <<p, q>>
      /\ range[1] = p /\ range[2] = q
  BY DEF IsRange
<1>2. low \in 0 .. n /\ upto \in 0 .. n
  BY Bisection
<1>3. \A i \in 0 .. n - 1 : i + 1 \in 1 .. n /\ cs[i + 1] \in Int
  OBVIOUS
<1>8. Ascending(cs) \in BOOLEAN
  BY SortedWay
<1>4. CASE Ascending(cs) /\ isMin
  <2>1. \A i \in 0 .. n - 1 : IsWithin(cs, i, v, isMin) <=> i >= low
    <3>1. \A i \in 0 .. n - 1 : cs[i + 1] < v <=> i + 1 <= low
      BY <1>3, <1>4, Bisection
    <3> HIDE DEF low, n
    <3> QED
      BY <1>1, <1>2, <1>3, <1>4, <3>1 DEF IsWithin
  <2>2. Filter(cs, v, isMin) = IF low < n THEN <<low, n - 1>> ELSE <<1, 0>>
    BY <1>4 DEF Filter, AtLeast, NoMatches
  <2> DEFINE a == Upper(p, IF low < n THEN low ELSE 1)
  <2>3. NarrowFrom(range, cs, Filter(cs, v, isMin), isMin) = <<a, q>>
    <3>1. isMin = Ascending(cs)
      BY <1>4, <1>8
    <3> QED
      BY <1>1, <2>2, <3>1 DEF NarrowFrom
  <2> HIDE DEF low, n
  <2>4. a \in 0 .. n
    BY <1>1, <1>2 DEF Upper
  <2>5. some => low < n
    BY <1>1, <1>2, <2>1
  <2>6. Good(<<a, q>>, a, q)
    <3>1. IsRange(<<a, q>>, cs, a, q)
      BY <1>1, <2>4 DEF IsRange, n
    <3>2. ASSUME some, NEW i \in 0 .. n - 1
          PROVE  i \in a .. q <=> i \in p .. q /\ IsWithin(cs, i, v, isMin)
      <4>1. IsWithin(cs, i, v, isMin) <=> i >= low
        BY <2>1
      <4>2. a = Upper(p, low)
        BY <2>5, <3>2
      <4>3. i \in a .. q <=> i \in p .. q /\ i >= low
        BY <1>1, <1>2, <4>2 DEF Upper
      <4> QED
        BY <4>1, <4>3
    <3> QED
      BY <3>1, <3>2
  <2> QED
    BY <2>3, <2>6 DEF n
<1>5. CASE Ascending(cs) /\ ~isMin
  <2>1. \A i \in 0 .. n - 1 : IsWithin(cs, i, v, isMin) <=> i < upto
    <3>1. \A i \in 0 .. n - 1 : cs[i + 1] <= v <=> i + 1 <= upto
      BY <1>3, <1>5, Bisection
    <3> HIDE DEF upto, n
    <3> QED
      BY <1>1, <1>2, <1>3, <1>5, <3>1 DEF IsWithin
  <2>2. Filter(cs, v, isMin) = IF upto > 0 THEN <<0, upto - 1>> ELSE <<1, 0>>
    BY <1>5 DEF Filter, AtMost, NoMatches
  <2> DEFINE b == Lower(q, IF upto > 0 THEN upto - 1 ELSE 0)
  <2>3. NarrowFrom(range, cs, Filter(cs, v, isMin), isMin) = <<p, b>>
    <3>1. isMin # Ascending(cs)
      BY <1>5, <1>8
    <3> QED
      BY <1>1, <2>2, <3>1 DEF NarrowFrom
  <2> HIDE DEF upto, n
  <2>4. b \in 0 .. n - 1
    BY <1>1, <1>2 DEF Lower
  <2>5. some => upto > 0
    BY <1>1, <1>2, <2>1
  <2>6. Good(<<p, b>>, p, b)
    <3>1. IsRange(<<p, b>>, cs, p, b)
      BY <1>1, <2>4 DEF IsRange, n
    <3>2. ASSUME some, NEW i \in 0 .. n - 1
          PROVE  i \in p .. b <=> i \in p .. q /\ IsWithin(cs, i, v, isMin)
      <4>1. IsWithin(cs, i, v, isMin) <=> i < upto
        BY <2>1
      <4>2. b = Lower(q, upto - 1)
        BY <2>5, <3>2
      <4>3. i \in p .. b <=> i \in p .. q /\ i < upto
        BY <1>1, <1>2, <4>2 DEF Lower
      <4> QED
        BY <4>1, <4>3
    <3> QED
      BY <3>1, <3>2
  <2> QED
    BY <2>3, <2>6 DEF n
<1>6. CASE ~Ascending(cs) /\ isMin
  <2> DEFINE idx == n - low
  <2>1. \A i \in 0 .. n - 1 : IsWithin(cs, i, v, isMin) <=> i < idx
    <3>1. \A i \in 0 .. n - 1 : cs[i + 1] < v <=> i + 1 > n - low
      BY <1>3, <1>6, Bisection
    <3> HIDE DEF low, n
    <3> QED
      BY <1>1, <1>2, <1>3, <1>6, <3>1 DEF IsWithin
  <2>2. Filter(cs, v, isMin) = IF idx > 0 THEN <<0, idx - 1>> ELSE <<1, 0>>
    BY <1>6 DEF Filter, AtLeast, NoMatches
  <2> DEFINE b == Lower(q, IF idx > 0 THEN idx - 1 ELSE 0)
  <2>3. NarrowFrom(range, cs, Filter(cs, v, isMin), isMin) = <<p, b>>
    <3>1. isMin # Ascending(cs)
      BY <1>6, <1>8
    <3> QED
      BY <1>1, <2>2, <3>1 DEF NarrowFrom
  <2>7. idx \in 0 .. n
    BY <1>1, <1>2
  <2> HIDE DEF low, n, idx
  <2>4. b \in 0 .. n - 1
    BY <1>1, <2>7 DEF Lower
  <2>5. some => idx > 0
    BY <1>1, <2>7, <2>1
  <2>6. Good(<<p, b>>, p, b)
    <3>1. IsRange(<<p, b>>, cs, p, b)
      BY <1>1, <2>4 DEF IsRange, n
    <3>2. ASSUME some, NEW i \in 0 .. n - 1
          PROVE  i \in p .. b <=> i \in p .. q /\ IsWithin(cs, i, v, isMin)
      <4>1. IsWithin(cs, i, v, isMin) <=> i < idx
        BY <2>1
      <4>2. b = Lower(q, idx - 1)
        BY <2>5, <3>2
      <4>3. i \in p .. b <=> i \in p .. q /\ i < idx
        BY <1>1, <2>7, <4>2 DEF Lower
      <4> QED
        BY <4>1, <4>3
    <3> QED
      BY <3>1, <3>2
  <2> QED
    BY <2>3, <2>6 DEF n
<1>7. CASE ~Ascending(cs) /\ ~isMin
  <2> DEFINE idx == n - upto
  <2>1. \A i \in 0 .. n - 1 : IsWithin(cs, i, v, isMin) <=> i >= idx
    <3>1. \A i \in 0 .. n - 1 : cs[i + 1] <= v <=> i + 1 > n - upto
      BY <1>3, <1>7, Bisection
    <3> HIDE DEF upto, n
    <3> QED
      BY <1>1, <1>2, <1>3, <1>7, <3>1 DEF IsWithin
  <2>2. Filter(cs, v, isMin) = IF idx < n THEN <<idx, n - 1>> ELSE <<1, 0>>
    BY <1>7 DEF Filter, AtMost, NoMatches
  <2> DEFINE a == Upper(p, IF idx < n THEN idx ELSE 1)
  <2>3. NarrowFrom(range, cs, Filter(cs, v, isMin), isMin) = <<a, q>>
    <3>1. isMin = Ascending(cs)
      BY <1>7, <1>8
    <3> QED
      BY <1>1, <2>2, <3>1 DEF NarrowFrom
  <2>7. idx \in 0 .. n
    BY <1>1, <1>2
  <2> HIDE DEF upto, n, idx
  <2>4. a \in 0 .. n
    BY <1>1, <2>7 DEF Upper
  <2>5. some => idx < n
    BY <1>1, <2>7, <2>1
  <2>6. Good(<<a, q>>, a, q)
    <3>1. IsRange(<<a, q>>, cs, a, q)
      BY <1>1, <2>4 DEF IsRange, n
    <3>2. ASSUME some, NEW i \in 0 .. n - 1
          PROVE  i \in a .. q <=> i \in p .. q /\ IsWithin(cs, i, v, isMin)
      <4>1. IsWithin(cs, i, v, isMin) <=> i >= idx
        BY <2>1
      <4>2. a = Upper(p, idx)
        BY <2>5, <3>2
      <4>3. i \in a .. q <=> i \in p .. q /\ i >= idx
        BY <1>1, <2>7, <4>2 DEF Upper
      <4> QED
        BY <4>1, <4>3
    <3> QED
      BY <3>1, <3>2
  <2> QED
    BY <2>3, <2>6 DEF n
<1> QED
  BY <1>4, <1>5, <1>6, <1>7, <1>8

-----------------------------------------------------------------------------
(* The dataset and the query of a read, and what the code ensures of them.   *)

IsNumbered(shape) == shape \in [AllDims -> {n \in Nat \ {0} : 2 * n < U64}]

IsAxis(d) ==
  LET cs == dataset.coords[d]
  IN /\ cs \in Seq(Int) /\ Sorted(cs) /\ Len(cs) \in {0, dataset.shape[d]}
     /\ d \in dataset.lon_0_360_dims => \A i \in DOMAIN cs : cs[i] \in 0 .. 359

Wellformed ==
  /\ Rank \in Nat /\ IsNumbered(dataset.shape)
  /\ dataset.chunk_shape \in [AllDims -> Nat \ {0}]
  /\ dataset.scale \in Seq(Int) /\ dataset.translation \in Seq(Int)
  /\ \A d \in AllDims : IsAxis(d)

Complete ==
  /\ AtMostOneIn(Int, query.min) /\ AtMostOneIn(Int, query.max)
  /\ AtMostOneIn(Nat, query.pin)

IsOption(S, T) == S \subseteq T /\ \A v \in S : S = {v} /\ The(S) = v

(* A dimension has at most one of each given.                               *)
LEMMA GivenType ==
  ASSUME Complete, NEW d \in AllDims
  PROVE  /\ IsOption(Given(query.min, d), Int) /\ IsOption(Given(query.max, d), Int)
         /\ IsOption(Given(query.pin, d), Nat)
<1>1. ASSUME NEW T, NEW values, AtMostOneIn(T, values)
      PROVE  IsOption(Given(values, d), T)
  <2> DEFINE S == Given(values, d)
  <2>1. S \subseteq T /\ \A v, w \in S : v = w
    BY <1>1 DEF AtMostOneIn, Given
  <2> HIDE DEF S
  <2>2. \A v \in S : S = {v} /\ The(S) = v
    BY <2>1 DEF The
  <2> QED
    BY <2>1, <2>2 DEF IsOption, S
<1> QED
  BY <1>1 DEF Complete

(* The sizes of a dimension.                                               *)
LEMMA SizeType ==
  ASSUME Wellformed, NEW d \in AllDims
  PROVE  dataset.shape[d] \in Nat \ {0} /\ 2 * dataset.shape[d] < U64 /\ U64 \in Nat
         /\ dataset.chunk_shape[d] \in Nat \ {0}
  BY ReadAssumption DEF Wellformed, IsNumbered

-----------------------------------------------------------------------------
(* Windows on a coordinate array.                                          *)

(* The indices a filter selects, of the coordinates as they are stored.      *)
Stored(d, v) == DenormalizeLongitude(v, d \in dataset.lon_0_360_dims)
FromMin(d) ==
  {i \in 0 .. dataset.shape[d] - 1 :
     \A v \in Given(query.min, d) : dataset.coords[d][i + 1] >= Stored(d, v)}
UpToMax(d) ==
  {i \in 0 .. dataset.shape[d] - 1 :
     \A v \in Given(query.max, d) : dataset.coords[d][i + 1] <= Stored(d, v)}

(* In one hemisphere a coordinate is in the window as it is stored just if    *)
(* it is as the rows show it.                                              *)
LEMMA ShownAsStored ==
  ASSUME Wellformed, Complete, NEW d \in AllDims, dataset.coords[d] # <<>>, OneHemisphere(d),
         Given(query.pin, d) = {}
  PROVE  Wanted(d) = FromMin(d) \cap UpToMax(d)
<1> DEFINE cs == dataset.coords[d]
           n == dataset.shape[d]
           mn == Given(query.min, d)
           mx == Given(query.max, d)
           lon == d \in dataset.lon_0_360_dims
<1>1. /\ n \in Nat \ {0} /\ Len(cs) = n /\ \A i \in 0 .. n - 1 : cs[i + 1] \in Int
      /\ lon => \A i \in 0 .. n - 1 : cs[i + 1] \in 0 .. 359
  <2>1. cs \in Seq(Int) /\ Len(cs) \in {0, n} /\ (lon => \A i \in DOMAIN cs : cs[i] \in 0 .. 359)
    BY DEF Wellformed, IsAxis
  <2>2. Len(cs) = n /\ n \in Nat \ {0}
    BY <2>1, SizeType, EmptySeq
  <2>3. DOMAIN cs = 1 .. n /\ \A i \in 1 .. n : cs[i] \in Int
    BY <2>1, <2>2
  <2> HIDE DEF cs, n
  <2>4. \A i \in 0 .. n - 1 : i + 1 \in 1 .. n
    BY <2>2
  <2> QED
    BY <2>1, <2>2, <2>3, <2>4
<1>2. mn \subseteq Int /\ mx \subseteq Int
  BY GivenType DEF IsOption
<1>3. \A i : Coordinate(d, i) = NormalizeLongitude(cs[i + 1], lon)
  BY DEF Coordinate
<1>4. Wanted(d) = {i \in 0 .. n - 1 : /\ \A v \in mn : Coordinate(d, i) >= v
                                      /\ \A v \in mx : Coordinate(d, i) <= v}
  BY DEF Wanted
<1>5. ASSUME NEW i \in 0 .. n - 1
      PROVE  ((\A v \in mn : Coordinate(d, i) >= v) /\ \A v \in mx : Coordinate(d, i) <= v)
             <=> ((\A v \in mn : cs[i + 1] >= Stored(d, v)) /\ \A v \in mx : cs[i + 1] <= Stored(d, v))
  <2> DEFINE raw == cs[i + 1]
  <2>1. raw \in Int /\ (lon => raw \in 0 .. 359)
    BY <1>1
  <2>2. Coordinate(d, i) = IF lon /\ raw > 180 THEN raw - 360 ELSE raw
    BY <1>3 DEF NormalizeLongitude
  <2>3. \A v : Stored(d, v) = IF lon /\ v < 0 THEN v + 360 ELSE v
    BY DEF Stored, DenormalizeLongitude
  <2>4. \/ ~lon \/ mn \cup mx = {}
        \/ /\ mn # {} /\ mx # {} /\ (mn \cup mx \subseteq 0 .. 180 \/ mn \cup mx \subseteq -179 .. -1)
    BY DEF OneHemisphere
  <2>9. ASSUME NEW v \in mn \cup mx
        PROVE  v \in Int /\ Stored(d, v) \in Int
    BY <1>2, <2>3
  <2> HIDE DEF raw, mn, mx, lon
  <2>5. CASE ~lon
    BY <2>2, <2>3, <2>5 DEF raw
  <2>6. CASE mn \cup mx = {}
    BY <2>6
  <2>7. CASE lon /\ mn # {} /\ mx # {} /\ mn \cup mx \subseteq 0 .. 180
    <3>1. ASSUME NEW v \in mn \cup mx
          PROVE  v \in 0 .. 180 /\ Stored(d, v) = v
      <4>1. v \in 0 .. 180
        BY <2>7
      <4> QED
        BY <2>3, <4>1
    <3>2. PICK b \in mx : TRUE
      BY <2>7
    <3>3. b \in 0 .. 180 /\ Stored(d, b) = b
      BY <3>1
    <3>9. PICK a \in mn : TRUE
      BY <2>7
    <3>10. a \in 0 .. 180 /\ Stored(d, a) = a
      BY <3>1
    <3>4. CASE raw > 180
      <4>1. Coordinate(d, i) = raw - 360 /\ raw \in 0 .. 359
        BY <2>1, <2>2, <2>7, <3>4
      <4>2. ~(Coordinate(d, i) >= a)
        BY <3>10, <4>1
      <4>3. ~(raw <= Stored(d, b))
        <5>1. ~(raw <= b)
          BY <2>1, <3>3, <3>4
        <5> QED
          BY <3>3, <5>1
      <4> QED
        BY <3>2, <3>9, <4>2, <4>3 DEF raw
    <3>5. CASE raw <= 180
      <4>1. Coordinate(d, i) = raw
        BY <2>1, <2>2, <3>5
      <4> QED
        BY <3>1, <4>1 DEF raw
    <3> QED
      BY <2>1, <3>4, <3>5
  <2>8. CASE lon /\ mn # {} /\ mx # {} /\ mn \cup mx \subseteq -179 .. -1
    <3>1. ASSUME NEW v \in mn \cup mx
          PROVE  v \in -179 .. -1 /\ Stored(d, v) = v + 360
      <4>1. v \in -179 .. -1
        BY <2>8
      <4>2. v < 0
        BY <4>1
      <4> QED
        BY <2>3, <2>8, <4>1, <4>2
    <3>2. PICK b \in mx : TRUE
      BY <2>8
    <3>3. b \in -179 .. -1
      BY <3>1
    <3>9. PICK a \in mn : TRUE
      BY <2>8
    <3>10. a \in -179 .. -1 /\ Stored(d, a) = a + 360
      BY <3>1
    <3>4. CASE raw > 180
      <4>1. Coordinate(d, i) = raw - 360
        BY <2>2, <2>8, <3>4
      <4>2. ASSUME NEW v \in mn \cup mx
            PROVE  /\ Coordinate(d, i) >= v <=> raw >= Stored(d, v)
                   /\ Coordinate(d, i) <= v <=> raw <= Stored(d, v)
        <5>1. v \in Int /\ Stored(d, v) = v + 360
          BY <2>9, <3>1
        <5> QED
          BY <2>1, <4>1, <5>1
      <4> QED
        BY <4>2 DEF raw
    <3>5. CASE raw <= 180
      <4>1. Coordinate(d, i) = raw /\ raw \in 0 .. 180
        <5>1. raw \in 0 .. 359
          BY <2>1, <2>8
        <5> QED
          BY <2>2, <3>5, <5>1
      <4>2. ~(Coordinate(d, i) <= b) /\ ~(raw >= Stored(d, a))
        BY <3>3, <3>10, <4>1
      <4> QED
        BY <3>2, <3>9, <4>2 DEF raw
    <3> QED
      BY <2>1, <3>4, <3>5
  <2> QED
    BY <2>4, <2>5, <2>6, <2>7, <2>8
<1>6. FromMin(d) \cap UpToMax(d) =
        {i \in 0 .. n - 1 : /\ \A v \in mn : cs[i + 1] >= Stored(d, v)
                            /\ \A v \in mx : cs[i + 1] <= Stored(d, v)}
  BY DEF FromMin, UpToMax
<1> HIDE DEF cs, n, mn, mx
<1> QED
  BY <1>4, <1>5, <1>6

(* The range and the set of the indices one end of the window leaves.       *)
EndRange(d, range, given, isMin) ==
  IF given = {} THEN range
  ELSE NarrowFrom(range, dataset.coords[d],
         Filter(dataset.coords[d], Stored(d, The(given)), isMin), isMin)
EndSet(d, given, isMin) ==
  {i \in 0 .. dataset.shape[d] - 1 :
     \A v \in given : IsWithin(dataset.coords[d], i, Stored(d, v), isMin)}

Narrows(r, d, p, q, M) ==
  \E a, b : /\ IsRange(r, dataset.coords[d], a, b)
            /\ M # {} => a .. b = (p .. q) \cap M

(* One end of the window, in either direction of the array.                 *)
LEMMA EndNarrows ==
  ASSUME Wellformed, NEW d \in AllDims, dataset.coords[d] # <<>>, NEW given, IsOption(given, Int),
         NEW isMin \in BOOLEAN,
         NEW range, NEW p, NEW q, IsRange(range, dataset.coords[d], p, q)
  PROVE  Narrows(EndRange(d, range, given, isMin), d, p, q, EndSet(d, given, isMin))
<1> DEFINE cs == dataset.coords[d]
           n == dataset.shape[d]
<1>1. cs \in Seq(Int) /\ Sorted(cs) /\ Len(cs) = n /\ n \in Nat \ {0} /\ Len(cs) # 0
  <2>1. cs \in Seq(Int) /\ Sorted(cs) /\ Len(cs) \in {0, n}
    BY DEF Wellformed, IsAxis
  <2> QED
    BY <2>1, SizeType, EmptySeq
<1> DEFINE narrow == EndRange(d, range, given, isMin)
           M == EndSet(d, given, isMin)
<1> HIDE DEF cs, n, narrow, M
<1>2. p \in 0 .. n /\ q \in 0 .. n - 1 /\ range = <<p, q>>
  BY <1>1 DEF IsRange, cs
<1>3. ASSUME given = {}
      PROVE  Narrows(narrow, d, p, q, M)
  <2>1. narrow = range /\ M = 0 .. n - 1
    BY <1>3 DEF n, narrow, M, EndRange, EndSet
  <2>2. p .. q = (p .. q) \cap M
    BY <1>1, <1>2, <2>1
  <2> QED
    BY <2>1, <2>2 DEF cs, Narrows
<1>4. ASSUME NEW v \in given
      PROVE  Narrows(narrow, d, p, q, M)
  <2> DEFINE w == Stored(d, v)
  <2>1. given = {v} /\ The(given) = v /\ v \in Int
    BY <1>4 DEF IsOption
  <2>2. w \in Int
    BY <2>1 DEF Stored, DenormalizeLongitude
  <2>3. /\ narrow = NarrowFrom(range, cs, Filter(cs, w, isMin), isMin)
        /\ M = {i \in 0 .. n - 1 : IsWithin(cs, i, w, isMin)}
    BY <2>1 DEF cs, n, narrow, M, EndRange, EndSet
  <2> HIDE DEF w
  <2>4. PICK a, b :
          /\ IsRange(NarrowFrom(range, cs, Filter(cs, w, isMin), isMin), cs, a, b)
          /\ (\E i \in 0 .. Len(cs) - 1 : IsWithin(cs, i, w, isMin)) =>
               \A i \in 0 .. Len(cs) - 1 : i \in a .. b <=> i \in p .. q /\ IsWithin(cs, i, w, isMin)
    <3>1. IsRange(range, cs, p, q)
      BY DEF cs
    <3> QED
      BY <1>1, <2>2, <3>1, FilterNarrows, ZenonT(60)
  <2>5. a \in 0 .. n /\ b \in 0 .. n - 1
    BY <1>1, <2>4 DEF IsRange
  <2>6. ASSUME M # {}
        PROVE  a .. b = (p .. q) \cap M
    <3>1. \A i \in 0 .. n - 1 : i \in a .. b <=> i \in (p .. q) \cap M
      BY <1>1, <2>3, <2>4, <2>6
    <3>2. a .. b \subseteq 0 .. n - 1 /\ M \subseteq 0 .. n - 1
      BY <1>1, <2>3, <2>5
    <3> QED
      BY <3>1, <3>2
  <2> QED
    BY <2>3, <2>4, <2>6 DEF cs, Narrows
<1>5. Narrows(narrow, d, p, q, M)
  BY <1>3, <1>4
<1> QED
  BY <1>5 DEF narrow, M

(* compute_bounds on a coordinate array.                                   *)
LEMMA CoordRange ==
  ASSUME Wellformed, Complete, NEW d \in AllDims, dataset.coords[d] # <<>>
  PROVE  \E a, b :
           /\ IsRange(CoordBounds(d, <<0, dataset.shape[d] - 1>>), dataset.coords[d], a, b)
           /\ FromMin(d) \cap UpToMax(d) # {} => a .. b = FromMin(d) \cap UpToMax(d)
<1> DEFINE whole == <<0, dataset.shape[d] - 1>>
           low == EndRange(d, whole, Given(query.min, d), TRUE)
           both == EndRange(d, low, Given(query.max, d), FALSE)
<1>6. CoordBounds(d, whole) = both
  BY DEF CoordBounds, EndRange, Filter, Stored
<1>7. IsOption(Given(query.min, d), Int) /\ IsOption(Given(query.max, d), Int)
  BY GivenType
<1>8. IsRange(whole, dataset.coords[d], 0, dataset.shape[d] - 1)
  <2>1. dataset.coords[d] \in Seq(Int) /\ Len(dataset.coords[d]) \in {0, dataset.shape[d]}
    BY DEF Wellformed, IsAxis
  <2>2. Len(dataset.coords[d]) = dataset.shape[d] /\ dataset.shape[d] \in Nat \ {0}
    BY <2>1, SizeType, EmptySeq
  <2> QED
    BY <2>2 DEF IsRange
<1>9. /\ FromMin(d) = EndSet(d, Given(query.min, d), TRUE)
      /\ UpToMax(d) = EndSet(d, Given(query.max, d), FALSE)
  BY DEF FromMin, UpToMax, EndSet, IsWithin
<1> HIDE DEF whole
<1>10. Narrows(low, d, 0, dataset.shape[d] - 1, FromMin(d))
  BY <1>7, <1>8, <1>9, EndNarrows
<1> HIDE DEF low
<1>11. PICK a, b : /\ IsRange(low, dataset.coords[d], a, b)
                   /\ FromMin(d) # {} => a .. b = (0 .. dataset.shape[d] - 1) \cap FromMin(d)
  BY <1>10 DEF Narrows
<1>15. Narrows(both, d, a, b, UpToMax(d))
  BY <1>7, <1>9, <1>11, EndNarrows
<1> HIDE DEF both
<1>12. PICK e, f : /\ IsRange(both, dataset.coords[d], e, f)
                   /\ UpToMax(d) # {} => e .. f = (a .. b) \cap UpToMax(d)
  BY <1>15 DEF Narrows
<1>13. FromMin(d) \subseteq 0 .. dataset.shape[d] - 1
  BY DEF FromMin
<1>14. FromMin(d) \cap UpToMax(d) # {} => e .. f = FromMin(d) \cap UpToMax(d)
  BY <1>11, <1>12, <1>13
<1> QED
  BY <1>6, <1>12, <1>14 DEF whole

-----------------------------------------------------------------------------
(* Windows on a transformed axis.                                          *)

(* Multiplication by a positive number keeps the order.                     *)
LEMMA TimesOrder ==
  ASSUME NEW s \in Nat \ {0}
  PROVE  \A i, q \in Int : (i <= q => i * s <= q * s) /\ (i > q => i * s >= q * s + s)
<1>1. ASSUME NEW k \in Nat
      PROVE  k * s \in Nat
  OBVIOUS
<1>2. ASSUME NEW i \in Int, NEW q \in Int, i <= q
      PROVE  i * s <= q * s
  <2>1. q - i \in Nat
    BY <1>2
  <2>2. (q - i) * s \in Nat
    BY <1>1, <2>1
  <2>3. (q - i) * s = q * s - i * s
    OBVIOUS
  <2> QED
    BY <2>2, <2>3
<1>3. ASSUME NEW i \in Int, NEW q \in Int, i > q
      PROVE  i * s >= q * s + s
  <2>1. q + 1 \in Int /\ q + 1 <= i
    BY <1>3
  <2>2. (q + 1) * s <= i * s
    BY <1>2, <2>1
  <2>3. (q + 1) * s = q * s + s
    OBVIOUS
  <2> QED
    BY <2>2, <2>3
<1> QED
  BY <1>2, <1>3

(* The indices whose multiple is at most, and at least, x.                  *)
LEMMA DivPositive ==
  ASSUME NEW s \in Nat \ {0}, NEW x \in Int
  PROVE  /\ x \div s \in Int /\ -((-x) \div s) \in Int
         /\ \A i \in Int : i * s <= x <=> i <= x \div s
         /\ \A i \in Int : i * s >= x <=> i >= -((-x) \div s)
         /\ -((-x) \div s) - x \div s \in 0 .. 1
<1>1. ASSUME NEW y \in Int
      PROVE  y \div s \in Int /\ \A i \in Int : i * s <= y <=> i <= y \div s
  <2> DEFINE q == y \div s
  <2>1. q \in Int /\ q * s <= y /\ y < q * s + s
    OBVIOUS
  <2> HIDE DEF q
  <2>2. ASSUME NEW i \in Int
        PROVE  i * s <= y <=> i <= q
    <3>1. i * s \in Int /\ q * s \in Int
      BY <2>1
    <3>2. (i <= q => i * s <= q * s) /\ (i > q => i * s >= q * s + s)
      BY <2>1, TimesOrder
    <3> QED
      BY <2>1, <3>1, <3>2
  <2> QED
    BY <2>1, <2>2 DEF q
<1> DEFINE f == x \div s
           c == -((-x) \div s)
<1>2. f \in Int /\ c \in Int /\ -c = (-x) \div s
  BY <1>1
<1>3. \A i \in Int : i * s <= x <=> i <= f
  BY <1>1
<1>4. \A i \in Int : i * s <= -x <=> i <= -c
  <2>1. -x \in Int
    OBVIOUS
  <2> QED
    BY <1>1, <1>2, <2>1
<1> HIDE DEF f, c
<1>5. ASSUME NEW i \in Int
      PROVE  i * s >= x <=> i >= c
  <2>1. -i \in Int /\ (-i) * s = -(i * s) /\ i * s \in Int
    OBVIOUS
  <2>2. (-i) * s <= -x <=> -i <= -c
    BY <1>4, <2>1
  <2> QED
    BY <1>2, <2>1, <2>2
<1>6. c - f \in 0 .. 1
  <2>1. f * s <= x
    BY <1>2, <1>3
  <2>2. c * s >= x
    BY <1>2, <1>5
  <2>3. (f + 1) * s >= x
    <3>1. f + 1 \in Int /\ ~(f + 1 <= f)
      BY <1>2
    <3>2. ~((f + 1) * s <= x)
      BY <1>3, <3>1
    <3>3. (f + 1) * s \in Int
      BY <3>1
    <3> QED
      BY <3>2, <3>3
  <2>4. c <= f + 1
    BY <1>2, <1>5, <2>3
  <2>5. f <= c
    <3>1. CASE f > c
      <4>1. f * s >= c * s + s
        BY <1>2, <3>1, TimesOrder
      <4>2. f * s \in Int /\ c * s \in Int
        BY <1>2
      <4> QED
        BY <2>1, <2>2, <4>1, <4>2
    <3> QED
      BY <1>2, <3>1
  <2> QED
    BY <1>2, <2>4, <2>5
<1> QED
  BY <1>2, <1>3, <1>5, <1>6 DEF f, c

(* A larger index is in the same chunk or in a later one.                   *)
LEMMA DivMonotone ==
  ASSUME NEW c \in Nat \ {0}, NEW a \in Int, NEW b \in Int, a <= b
  PROVE  a \div c \in Int /\ b \div c \in Int /\ a \div c <= b \div c
<1>1. /\ a \div c \in Int /\ b \div c \in Int
      /\ \A i \in Int : i * c <= a <=> i <= a \div c
      /\ \A i \in Int : i * c <= b <=> i <= b \div c
  BY DivPositive
<1>2. PICK i \in Int : i = a \div c
  BY <1>1
<1>3. PICK y \in Int : y = i * c
  OBVIOUS
<1>4. y <= a
  BY <1>1, <1>2, <1>3
<1>5. y <= b
  BY <1>4
<1> QED
  BY <1>1, <1>2, <1>3, <1>5

(* FloorDiv and CeilDiv, on an ascending and on a descending axis.          *)
LEMMA RoundedDivision ==
  ASSUME NEW s \in Int \ {0}, NEW x \in Int
  PROVE  /\ FloorDiv(x, s) \in Int /\ CeilDiv(x, s) \in Int
         /\ CeilDiv(x, s) - FloorDiv(x, s) \in 0 .. 1
         /\ s > 0 => \A i \in Int : /\ i * s >= x <=> i >= CeilDiv(x, s)
                                    /\ i * s <= x <=> i <= FloorDiv(x, s)
         /\ s < 0 => \A i \in Int : /\ i * s <= x <=> i >= CeilDiv(x, s)
                                    /\ i * s >= x <=> i <= FloorDiv(x, s)
<1>1. CASE s > 0
  <2>1. s \in Nat \ {0}
    BY <1>1
  <2>2. FloorDiv(x, s) = x \div s /\ CeilDiv(x, s) = -((-x) \div s)
    BY <1>1 DEF FloorDiv, CeilDiv
  <2>3. /\ x \div s \in Int /\ -((-x) \div s) \in Int
        /\ \A i \in Int : i * s <= x <=> i <= x \div s
        /\ \A i \in Int : i * s >= x <=> i >= -((-x) \div s)
        /\ -((-x) \div s) - x \div s \in 0 .. 1
    BY <2>1, DivPositive
  <2>4. ~(s < 0)
    BY <1>1
  <2> QED
    BY <2>2, <2>3, <2>4
<1>2. CASE s < 0
  <2> DEFINE t == -s
             y == -x
  <2>1. t \in Nat \ {0} /\ y \in Int
    BY <1>2
  <2>2. FloorDiv(x, s) = y \div t
    BY <1>2 DEF FloorDiv
  <2>3. CeilDiv(x, s) = -((-y) \div t)
    BY <1>2 DEF FloorDiv, CeilDiv
  <2>5. \A i \in Int : i * t = -(i * s) /\ i * s \in Int
    OBVIOUS
  <2>6. y = -x
    OBVIOUS
  <2> HIDE DEF t, y
  <2>7. /\ y \div t \in Int /\ -((-y) \div t) \in Int
        /\ \A i \in Int : i * t <= y <=> i <= y \div t
        /\ \A i \in Int : i * t >= y <=> i >= -((-y) \div t)
        /\ -((-y) \div t) - y \div t \in 0 .. 1
    BY <2>1, DivPositive
  <2>8. ASSUME NEW i \in Int
        PROVE  /\ i * s <= x <=> i >= CeilDiv(x, s)
               /\ i * s >= x <=> i <= FloorDiv(x, s)
    <3>1. (i * t <= y <=> i <= FloorDiv(x, s)) /\ (i * t >= y <=> i >= CeilDiv(x, s))
      BY <2>2, <2>3, <2>7
    <3>2. i * t = -(i * s) /\ i * s \in Int
      BY <2>5
    <3> QED
      BY <2>6, <3>1, <3>2
  <2> QED
    BY <1>2, <2>2, <2>3, <2>7, <2>8
<1> QED
  BY <1>1, <1>2

-----------------------------------------------------------------------------
(* Numbers as the digits of an index, the last dimension's first.           *)

(* Division with a remainder has one result.                                *)
LEMMA DivUnique ==
  ASSUME NEW b \in Int, NEW m \in Nat \ {0}, NEW s \in 0 .. m - 1
  PROVE  (b * m + s) \div m = b /\ (b * m + s) % m = s
<1>1. PICK x \in Int : x = b * m + s
  OBVIOUS
<1> DEFINE e == x \div m
           f == x % m
<1>2. e \in Int /\ f \in 0 .. m - 1 /\ x = e * m + f
  OBVIOUS
<1> HIDE DEF e, f
<1>3. \A i, j \in Int : (i <= j => i * m <= j * m) /\ (i > j => i * m >= j * m + m)
  BY TimesOrder
<1>4. b * m \in Int /\ e * m \in Int
  BY <1>2
<1>5. ~(e > b)
  <2>1. e > b => e * m >= b * m + m
    BY <1>2, <1>3
  <2> QED
    BY <1>1, <1>2, <1>4, <2>1
<1>6. ~(b > e)
  <2>1. b > e => b * m >= e * m + m
    BY <1>2, <1>3
  <2> QED
    BY <1>1, <1>2, <1>4, <2>1
<1>7. e = b
  BY <1>2, <1>5, <1>6
<1>8. f = s
  BY <1>1, <1>2, <1>4, <1>7
<1> QED
  BY <1>1, <1>7, <1>8 DEF e, f

(* Dividing twice is dividing by the product.                               *)
LEMMA DivTwice ==
  ASSUME NEW x \in Nat, NEW m \in Nat \ {0}, NEW n \in Nat \ {0}
  PROVE  (x \div m) \div n = x \div (n * m)
<1> DEFINE y == x \div m
           r == x % m
           a == y \div n
           t == y % n
<1>1. y \in Nat /\ r \in 0 .. m - 1 /\ x = y * m + r
  OBVIOUS
<1> HIDE DEF y, r
<1>2. a \in Nat /\ t \in 0 .. n - 1 /\ y = a * n + t
  BY <1>1
<1> HIDE DEF a, t
<1>3. x = a * (n * m) + (t * m + r)
  BY <1>1, <1>2
<1>4. n * m \in Nat \ {0} /\ t * m \in Nat
  BY <1>2
<1>5. t * m <= n * m - m
  <2>1. t <= n - 1 /\ t \in Int /\ n - 1 \in Int
    BY <1>2
  <2>2. t * m <= (n - 1) * m
    BY <2>1, TimesOrder
  <2>3. (n - 1) * m = n * m - m
    OBVIOUS
  <2> QED
    BY <2>2, <2>3
<1>6. t * m + r \in 0 .. n * m - 1
  BY <1>1, <1>4, <1>5
<1>7. PICK k \in Nat \ {0} : k = n * m
  BY <1>4
<1>8. PICK s \in 0 .. k - 1 : s = t * m + r
  BY <1>6, <1>7
<1>9. x = a * k + s
  BY <1>3, <1>7, <1>8
<1>10. x \div k = a
  BY <1>2, <1>9, DivUnique
<1> QED
  BY <1>7, <1>10 DEF a, y

(* q divides idx by the extents, the last first; p has their products.      *)
IsDigits(q, L, N, idx) ==
  /\ q \in [0 .. N -> Nat] /\ q[N] = idx
  /\ \A d \in 1 .. N : q[d - 1] = q[d] \div L[d]
IsAfter(p, L, N) ==
  /\ p \in [0 .. N -> Nat \ {0}] /\ p[N] = 1
  /\ \A d \in 1 .. N : p[d - 1] = L[d] * p[d]

(* Every index has digits.                                                 *)
LEMMA DigitsExist ==
  ASSUME NEW N \in Nat, NEW L, \A d \in 1 .. N : L[d] \in Nat \ {0}, NEW idx \in Nat
  PROVE  \E q : IsDigits(q, L, N, idx)
<1> DEFINE step == [d \in 1 .. N |-> [x \in Nat |-> x \div L[d]]]
<1>1. step \in [1 .. N -> [Nat -> Nat]] /\ \A d \in 1 .. N : \A x \in Nat : step[d][x] = x \div L[d]
  <2>1. \A x \in Nat : \A m \in Nat \ {0} : x \div m \in Nat
    OBVIOUS
  <2> QED
    BY <2>1
<1> HIDE DEF step
<1>2. PICK g \in [0 .. N -> Nat] : IsDownward(g, N, idx, step)
  BY <1>1, DownwardRecursion
<1>3. g[N] = idx /\ \A d \in 1 .. N : g[d - 1] = g[d] \div L[d]
  <2>1. g[N] = idx /\ \A d \in 1 .. N : g[d - 1] = step[d][g[d]]
    BY <1>2 DEF IsDownward
  <2>2. \A d \in 1 .. N : g[d] \in Nat
    BY <1>2
  <2>3. \A d \in 1 .. N : step[d][g[d]] = g[d] \div L[d]
    BY <1>1, <2>2
  <2> QED
    BY <2>1, <2>3
<1> QED
  BY <1>2, <1>3 DEF IsDigits

(* What is left of an index at a dimension is its quotient by the product.   *)
LEMMA DigitsDivide ==
  ASSUME NEW N \in Nat, NEW L, \A d \in 1 .. N : L[d] \in Nat \ {0}, NEW idx \in Nat,
         NEW q, IsDigits(q, L, N, idx), NEW p, IsAfter(p, L, N)
  PROVE  \A d \in 0 .. N : q[d] = idx \div p[d]
<1> DEFINE A == {d \in 0 .. N : q[d] = idx \div p[d]}
<1>1. N \in A
  <2>1. N \in 0 .. N /\ idx \div 1 = idx
    OBVIOUS
  <2> QED
    BY <2>1 DEF IsDigits, IsAfter
<1>2. ASSUME NEW d \in 1 .. N, d \in A
      PROVE  d - 1 \in A
  <2>1. d \in 0 .. N /\ d - 1 \in 0 .. N
    OBVIOUS
  <2>2. q[d] = idx \div p[d] /\ p[d] \in Nat \ {0} /\ L[d] \in Nat \ {0}
    BY <1>2, <2>1 DEF IsAfter
  <2>3. q[d - 1] = q[d] \div L[d] /\ p[d - 1] = L[d] * p[d]
    BY DEF IsDigits, IsAfter
  <2>4. (idx \div p[d]) \div L[d] = idx \div (L[d] * p[d])
    BY <2>2, DivTwice
  <2> QED
    BY <2>1, <2>2, <2>3, <2>4
<1> HIDE DEF A
<1>3. 0 .. N \subseteq A
  BY <1>1, <1>2, DownwardInduction
<1> QED
  BY <1>3 DEF A

(* An index below the product of all extents leaves nothing.                *)
LEMMA DigitsEnd ==
  ASSUME NEW N \in Nat, NEW L, \A d \in 1 .. N : L[d] \in Nat \ {0}, NEW idx \in Nat,
         NEW q, IsDigits(q, L, N, idx), NEW p, IsAfter(p, L, N), idx < p[0]
  PROVE  q[0] = 0
<1>1. 0 \in 0 .. N
  OBVIOUS
<1>6. \A d \in 0 .. N : q[d] = idx \div p[d]
  BY DigitsDivide
<1>7. p[0] \in Nat \ {0}
  BY <1>1 DEF IsAfter
<1>2. q[0] = idx \div p[0] /\ p[0] \in Nat \ {0}
  BY <1>1, <1>6, <1>7
<1>3. PICK m \in Nat \ {0} : m = p[0]
  BY <1>2
<1>4. idx \in 0 .. m - 1 /\ 0 * m + idx = idx /\ 0 \in Int
  BY <1>3
<1>5. (0 * m + idx) \div m = 0
  BY <1>4, DivUnique
<1> QED
  BY <1>2, <1>3, <1>4, <1>5

(* Indices with the same digits are one index.                              *)
LEMMA DigitsInjective ==
  ASSUME NEW N \in Nat, NEW L, \A d \in 1 .. N : L[d] \in Nat \ {0}, NEW idx \in Nat, NEW jdx \in Nat,
         NEW q, IsDigits(q, L, N, idx), NEW s, IsDigits(s, L, N, jdx),
         q[0] = 0, s[0] = 0, \A d \in 1 .. N : q[d] % L[d] = s[d] % L[d]
  PROVE  idx = jdx
<1> DEFINE A == {d \in 0 .. N : q[d] = s[d]}
<1>1. 0 \in A
  OBVIOUS
<1>2. ASSUME NEW d \in 1 .. N, d - 1 \in A
      PROVE  d \in A
  <2>1. d \in 0 .. N /\ q[d] \in Nat /\ s[d] \in Nat /\ L[d] \in Nat \ {0}
    BY DEF IsDigits
  <2>2. q[d] \div L[d] = s[d] \div L[d] /\ q[d] % L[d] = s[d] % L[d]
    BY <1>2 DEF IsDigits
  <2>3. \A x \in Nat : \A m \in Nat \ {0} : x = (x \div m) * m + (x % m)
    OBVIOUS
  <2>4. /\ q[d] = (q[d] \div L[d]) * L[d] + (q[d] % L[d])
        /\ s[d] = (s[d] \div L[d]) * L[d] + (s[d] % L[d])
    BY <2>1, <2>3
  <2> QED
    BY <2>1, <2>2, <2>4
<1> HIDE DEF A
<1>3. 0 .. N \subseteq A
  BY <1>1, <1>2, NumberInduction
<1>4. N \in A
  BY <1>3
<1> QED
  BY <1>4 DEF A, IsDigits

(* The index that digits make: each is added to the extent's multiple of     *)
(* what those before it make.                                              *)
IsHorner(h, L, N, c) ==
  /\ h \in [0 .. N -> Nat] /\ h[0] = 0
  /\ \A d \in 1 .. N : h[d] = h[d - 1] * L[d] + c[d]

HasDigits(idx, L, N, c) ==
  \A q : IsDigits(q, L, N, idx) => \A d \in 1 .. N : q[d] % L[d] = c[d]

(* It is below the product of the extents and has these digits.             *)
LEMMA HornerDigits ==
  ASSUME NEW N \in Nat, NEW L, \A d \in 1 .. N : L[d] \in Nat \ {0}, NEW p, IsAfter(p, L, N),
         NEW c, \A d \in 1 .. N : c[d] \in 0 .. L[d] - 1, NEW h, IsHorner(h, L, N, c)
  PROVE  h[N] \in 0 .. p[0] - 1 /\ HasDigits(h[N], L, N, c)
<1>1. h \in [0 .. N -> Nat]
  BY DEF IsHorner
<1>2. h[0] = 0 /\ \A d \in 1 .. N : h[d] = h[d - 1] * L[d] + c[d]
  BY DEF IsHorner
<1>3. h[N] \in Nat /\ h[N] < p[0]
  <2> DEFINE A == {d \in 0 .. N : (h[d] + 1) * p[d] <= p[0]}
  <2>1. 0 \in A
    <3>1. 0 \in 0 .. N /\ p[0] \in Nat
      BY DEF IsAfter
    <3>2. (0 + 1) * p[0] = p[0]
      BY <3>1
    <3> QED
      BY <1>2, <3>1, <3>2
  <2>2. ASSUME NEW d \in 1 .. N, d - 1 \in A
        PROVE  d \in A
    <3>1. PICK x \in Nat : x = p[d]
      BY DEF IsAfter
    <3>2. PICK l \in Nat \ {0} : l = L[d]
      OBVIOUS
    <3>3. PICK a \in Nat : a = h[d - 1]
      BY <1>1
    <3>4. PICK e \in 0 .. l - 1 : e = c[d]
      BY <3>2
    <3>5. h[d] = a * l + e /\ p[d - 1] = l * x
      BY <1>2, <3>1, <3>2, <3>3, <3>4 DEF IsAfter
    <3>6. (a + 1) * (l * x) <= p[0] /\ p[0] \in Int
      <4>1. 0 \in 0 .. N
        OBVIOUS
      <4>2. p[0] \in Int
        BY <4>1 DEF IsAfter
      <4>3. (a + 1) * (l * x) <= p[0]
        BY <2>2, <3>3, <3>5
      <4> QED
        BY <4>2, <4>3
    <3>7. (a * l + e + 1) * x <= ((a + 1) * l) * x
      <4>1. a * l + e + 1 <= (a + 1) * l /\ a * l + e + 1 \in Int /\ (a + 1) * l \in Int
        OBVIOUS
      <4>2. x \in Nat \ {0}
        BY <3>1 DEF IsAfter
      <4> QED
        BY <4>1, <4>2, TimesOrder
    <3>8. ((a + 1) * l) * x = (a + 1) * (l * x)
      OBVIOUS
    <3>9. (a * l + e + 1) * x \in Int /\ (a + 1) * (l * x) \in Int
      OBVIOUS
    <3>10. (a * l + e + 1) * x <= p[0]
      <4>1. PICK u \in Int : u = (a * l + e + 1) * x
        BY <3>9
      <4>2. PICK v \in Int : v = (a + 1) * (l * x)
        BY <3>9
      <4>3. u <= v /\ v <= p[0]
        BY <3>6, <3>7, <3>8, <4>1, <4>2
      <4> QED
        BY <3>6, <4>1, <4>3
    <3> QED
      BY <3>1, <3>5, <3>10
  <2> HIDE DEF A
  <2>3. 0 .. N \subseteq A
    BY <2>1, <2>2, NumberInduction
  <2>4. N \in A /\ N \in 0 .. N
    BY <2>3
  <2>5. (h[N] + 1) * 1 <= p[0] /\ h[N] \in Nat /\ p[0] \in Nat
    BY <1>1, <2>4 DEF A, IsAfter
  <2> QED
    BY <2>5
<1>4. ASSUME NEW q, IsDigits(q, L, N, h[N])
      PROVE  \A d \in 1 .. N : q[d] % L[d] = c[d]
  <2> DEFINE A == {d \in 0 .. N : q[d] = h[d]}
  <2>1. N \in A
    BY <1>4 DEF IsDigits
  <2>3. ASSUME NEW d \in 1 .. N
        PROVE  h[d] \div L[d] = h[d - 1] /\ h[d] % L[d] = c[d]
    <3>1. PICK b \in Int : b = h[d - 1]
      BY <1>1
    <3>2. PICK m \in Nat \ {0} : m = L[d]
      OBVIOUS
    <3>3. PICK e \in 0 .. m - 1 : e = c[d]
      BY <3>2
    <3>4. h[d] = b * m + e
      BY <1>2, <3>1, <3>2, <3>3
    <3>5. (b * m + e) \div m = b /\ (b * m + e) % m = e
      BY DivUnique
    <3> QED
      BY <3>1, <3>2, <3>3, <3>4, <3>5
  <2>2. ASSUME NEW d \in 1 .. N, d \in A
        PROVE  d - 1 \in A
    BY <1>4, <2>2, <2>3 DEF IsDigits
  <2>4. ASSUME NEW d \in 1 .. N
        PROVE  q[d] = h[d]
    <3> HIDE DEF A
    <3>1. 0 .. N \subseteq A
      BY <2>1, <2>2, DownwardInduction
    <3>2. d \in A
      BY <3>1
    <3> QED
      BY <3>2 DEF A
  <2> QED
    BY <2>3, <2>4
<1>5. h[N] \in 0 .. p[0] - 1
  BY <1>3 DEF IsAfter
<1> QED
  BY <1>4, <1>5 DEF HasDigits

(* Every choice of digits is that of an index below the product.            *)
LEMMA DigitsSurjective ==
  ASSUME NEW N \in Nat, NEW L, \A d \in 1 .. N : L[d] \in Nat \ {0}, NEW p, IsAfter(p, L, N),
         NEW c, \A d \in 1 .. N : c[d] \in 0 .. L[d] - 1
  PROVE  \E idx \in 0 .. p[0] - 1 : \A q : IsDigits(q, L, N, idx) => \A d \in 1 .. N : q[d] % L[d] = c[d]
<1> DEFINE step == [d \in 1 .. N |-> [x \in Nat |-> x * L[d] + c[d]]]
<1>1. /\ step \in [1 .. N -> [Nat -> Nat]]
      /\ \A d \in 1 .. N : \A x \in Nat : step[d][x] = x * L[d] + c[d]
  <2>1. \A x, l, e \in Nat : x * l + e \in Nat
    OBVIOUS
  <2>2. \A d \in 1 .. N : L[d] \in Nat /\ c[d] \in Nat
    OBVIOUS
  <2> QED
    BY <2>1, <2>2
<1> HIDE DEF step
<1>2. PICK h \in [0 .. N -> Nat] : IsRecursive(h, N, 0, step)
  BY <1>1, FiniteRecursion
<1>3. h[0] = 0 /\ \A d \in 1 .. N : h[d] = h[d - 1] * L[d] + c[d]
  <2>1. h[0] = 0 /\ \A d \in 1 .. N : h[d] = step[d][h[d - 1]]
    BY <1>2 DEF IsRecursive
  <2>2. \A d \in 1 .. N : h[d - 1] \in Nat
    BY <1>2
  <2> QED
    BY <1>1, <2>1, <2>2
<1>4. IsHorner(h, L, N, c)
  BY <1>2, <1>3 DEF IsHorner
<1>5. h[N] \in 0 .. p[0] - 1 /\ HasDigits(h[N], L, N, c)
  BY <1>4, HornerDigits
<1> QED
  BY <1>5 DEF HasDigits

(* Position j of a row-major array of the extents L has the digits of j.     *)
Digit(L, p, d, j) == (j \div p[d]) % L[d]

(* Each cell of such an array has one position.                             *)
LEMMA RowMajor ==
  ASSUME NEW N \in Nat, NEW L, \A d \in 1 .. N : L[d] \in Nat \ {0}, NEW p, IsAfter(p, L, N)
  PROVE  /\ \A i, j \in 0 .. p[0] - 1 :
              (\A d \in 1 .. N : Digit(L, p, d, i) = Digit(L, p, d, j)) => i = j
         /\ \A c : (\A d \in 1 .. N : c[d] \in 0 .. L[d] - 1) =>
              \E j \in 0 .. p[0] - 1 : \A d \in 1 .. N : Digit(L, p, d, j) = c[d]
         /\ \A j \in 0 .. p[0] - 1 : \A d \in 1 .. N : Digit(L, p, d, j) \in 0 .. L[d] - 1
<1>1. p[0] \in Nat \ {0} /\ \A d \in 1 .. N : d \in 0 .. N /\ p[d] \in Nat \ {0}
  <2>1. 0 \in 0 .. N
    OBVIOUS
  <2> QED
    BY <2>1 DEF IsAfter
<1>2. ASSUME NEW j \in 0 .. p[0] - 1
      PROVE  \E q : /\ IsDigits(q, L, N, j) /\ q[0] = 0
                    /\ \A d \in 1 .. N : Digit(L, p, d, j) = q[d] % L[d]
  <2>1. PICK x \in Nat : x = j /\ x < p[0]
    BY <1>1
  <2>2. PICK q : IsDigits(q, L, N, x)
    BY DigitsExist
  <2>3. q[0] = 0
    BY <2>1, <2>2, DigitsEnd
  <2>4. \A d \in 0 .. N : q[d] = x \div p[d]
    BY <2>2, DigitsDivide
  <2>5. \A d \in 1 .. N : Digit(L, p, d, j) = q[d] % L[d]
    BY <1>1, <2>1, <2>4 DEF Digit
  <2> QED
    BY <2>1, <2>2, <2>3, <2>5
<1>3. ASSUME NEW i \in 0 .. p[0] - 1, NEW j \in 0 .. p[0] - 1,
             \A d \in 1 .. N : Digit(L, p, d, i) = Digit(L, p, d, j)
      PROVE  i = j
  <2>1. PICK q : /\ IsDigits(q, L, N, i) /\ q[0] = 0
                 /\ \A d \in 1 .. N : Digit(L, p, d, i) = q[d] % L[d]
    BY <1>2
  <2>2. PICK s : /\ IsDigits(s, L, N, j) /\ s[0] = 0
                 /\ \A d \in 1 .. N : Digit(L, p, d, j) = s[d] % L[d]
    BY <1>2
  <2>3. i \in Nat /\ j \in Nat
    BY <1>1
  <2>4. \A d \in 1 .. N : q[d] % L[d] = s[d] % L[d]
    BY <1>3, <2>1, <2>2
  <2> QED
    BY <2>1, <2>2, <2>3, <2>4, DigitsInjective
<1>4. ASSUME NEW c, \A d \in 1 .. N : c[d] \in 0 .. L[d] - 1
      PROVE  \E j \in 0 .. p[0] - 1 : \A d \in 1 .. N : Digit(L, p, d, j) = c[d]
  <2>1. PICK j \in 0 .. p[0] - 1 :
          \A q : IsDigits(q, L, N, j) => \A d \in 1 .. N : q[d] % L[d] = c[d]
    BY <1>4, DigitsSurjective
  <2>2. PICK q : /\ IsDigits(q, L, N, j)
                 /\ \A d \in 1 .. N : Digit(L, p, d, j) = q[d] % L[d]
    BY <1>2
  <2> QED
    BY <2>1, <2>2
<1>5. ASSUME NEW j \in 0 .. p[0] - 1, NEW d \in 1 .. N
      PROVE  Digit(L, p, d, j) \in 0 .. L[d] - 1
  <2>1. PICK m \in Nat \ {0} : m = L[d]
    OBVIOUS
  <2>2. PICK x \in Int : x = j \div p[d]
    BY <1>1
  <2>3. x % m \in 0 .. m - 1
    OBVIOUS
  <2> QED
    BY <2>1, <2>2, <2>3 DEF Digit
<1> QED
  BY <1>3, <1>4, <1>5

DigitsAre(j, L, p, N, c) == \A d \in 1 .. N : Digit(L, p, d, j) = c[d]

(* The position that digits make has them.                                 *)
LEMMA HornerPlace ==
  ASSUME NEW N \in Nat, NEW L, \A d \in 1 .. N : L[d] \in Nat \ {0}, NEW p, IsAfter(p, L, N),
         NEW c, \A d \in 1 .. N : c[d] \in 0 .. L[d] - 1, NEW h, IsHorner(h, L, N, c)
  PROVE  h[N] \in 0 .. p[0] - 1 /\ DigitsAre(h[N], L, p, N, c)
<1>1. h[N] \in 0 .. p[0] - 1 /\ HasDigits(h[N], L, N, c)
  BY HornerDigits
<1>2. h[N] \in Nat
  BY DEF IsHorner
<1>3. PICK q : IsDigits(q, L, N, h[N])
  BY <1>2, DigitsExist
<1>4. \A d \in 0 .. N : q[d] = h[N] \div p[d]
  BY <1>2, <1>3, DigitsDivide
<1>5. \A d \in 1 .. N : q[d] % L[d] = c[d]
  BY <1>1, <1>3 DEF HasDigits
<1> QED
  BY <1>1, <1>4, <1>5 DEF Digit, DigitsAre

(* Max and Min of a number and at most one other.                           *)
LEMMA MaxOfTwo ==
  ASSUME NEW a \in Int, NEW b \in Int
  PROVE  /\ Max({a} \cup {}) = a /\ Min({a} \cup {}) = a
         /\ Max({a} \cup {b}) = Upper(a, b) /\ Min({a} \cup {b}) = Lower(a, b)
<1>1. ASSUME NEW S, NEW m \in S, \A y \in S : y \in Int /\ m >= y
      PROVE  Max(S) = m
  <2>1. \A x \in S : (\A y \in S : x >= y) => x = m
    BY <1>1
  <2> QED
    BY <1>1, <2>1 DEF Max
<1>2. ASSUME NEW S, NEW m \in S, \A y \in S : y \in Int /\ m <= y
      PROVE  Min(S) = m
  <2>1. \A x \in S : (\A y \in S : x <= y) => x = m
    BY <1>2
  <2> QED
    BY <1>2, <2>1 DEF Min
<1>3. Max({a} \cup {}) = a /\ Min({a} \cup {}) = a
  <2>1. \A y \in {a} \cup {} : y \in Int /\ a >= y /\ a <= y
    OBVIOUS
  <2>2. a \in {a} \cup {}
    OBVIOUS
  <2> QED
    BY <1>1, <1>2, <2>1, <2>2
<1>4. Upper(a, b) \in {a} \cup {b} /\ \A y \in {a} \cup {b} : y \in Int /\ Upper(a, b) >= y
  BY DEF Upper
<1>5. Lower(a, b) \in {a} \cup {b} /\ \A y \in {a} \cup {b} : y \in Int /\ Lower(a, b) <= y
  BY DEF Lower
<1> QED
  BY <1>1, <1>2, <1>3, <1>4, <1>5

(* An end of the window, as the query gives it, and as an index.            *)
LowEnd(d) == IF dataset.scale[d] > 0 THEN Given(query.min, d) ELSE Given(query.max, d)
HighEnd(d) == IF dataset.scale[d] > 0 THEN Given(query.max, d) ELSE Given(query.min, d)

Distance(d, v) == v - apply_transform(dataset, d, 0)
Clamped(i) == Lower(U64 \div 2 - 1, Upper(0, i))
LowIndex(d, v) == Clamped(FloorDiv(Distance(d, v), dataset.scale[d]))
HighIndex(d, v) == Clamped(CeilDiv(Distance(d, v), dataset.scale[d]))

BoxLow(d) ==
  IF LowEnd(d) = {} THEN 0 ELSE Upper(0, LowIndex(d, The(LowEnd(d))))
BoxHigh(d) ==
  IF HighEnd(d) = {} THEN dataset.shape[d] - 1
  ELSE Lower(dataset.shape[d] - 1, HighIndex(d, The(HighEnd(d))))

(* The ends of a transformed axis are numbers an index is compared with.    *)
LEMMA TransformEnds ==
  ASSUME Wellformed, Complete, NEW d \in AllDims, HasTransform(d)
  PROVE  /\ dataset.scale[d] \in Int \ {0}
         /\ apply_transform(dataset, d, 0) \in Int
         /\ \A i \in Int : /\ i * dataset.scale[d] \in Int
                           /\ apply_transform(dataset, d, i) =
                                apply_transform(dataset, d, 0) + i * dataset.scale[d]
         /\ IsOption(LowEnd(d), Int) /\ IsOption(HighEnd(d), Int)
         /\ \A v \in Int : Distance(d, v) \in Int
<1>1. d \in Nat \ {0}
  BY DEF Wellformed, AllDims
<1>2. dataset.scale[d] \in Int \ {0} /\ d <= Len(dataset.scale)
  BY <1>1 DEF Wellformed, HasTransform
<1>3. d <= Len(dataset.translation) => dataset.translation[d] \in Int
  BY <1>1 DEF Wellformed
<1> DEFINE t == IF d <= Len(dataset.translation) THEN dataset.translation[d] ELSE 0
           s == dataset.scale[d]
<1>4. t \in Int
  BY <1>3
<1>5. \A i \in Int : apply_transform(dataset, d, i) = t + i * s
  BY <1>2 DEF apply_transform
<1> HIDE DEF t
<1>6. apply_transform(dataset, d, 0) = t
  <2>1. 0 \in Int /\ 0 * s = 0
    BY <1>2
  <2>2. apply_transform(dataset, d, 0) = t + 0 * s
    BY <1>5, <2>1
  <2> QED
    BY <1>4, <2>1, <2>2
<1>7. \A i \in Int : i * s \in Int
  BY <1>2
<1>8. IsOption(LowEnd(d), Int) /\ IsOption(HighEnd(d), Int)
  BY GivenType DEF LowEnd, HighEnd
<1>9. \A v \in Int : Distance(d, v) \in Int
  BY <1>4, <1>6 DEF Distance
<1> QED
  BY <1>2, <1>4, <1>5, <1>6, <1>7, <1>8, <1>9

(* TransformBounds and the wanted indices in terms of the two ends.         *)
LEMMA TransformForm ==
  ASSUME Wellformed, Complete, NEW d \in AllDims, HasTransform(d), dataset.coords[d] = <<>>,
         Given(query.pin, d) = {}
  PROVE  /\ TransformBounds(d, <<0, dataset.shape[d] - 1>>) = <<BoxLow(d), BoxHigh(d)>>
         /\ Wanted(d) =
              {i \in 0 .. dataset.shape[d] - 1 :
                 /\ \A v \in LowEnd(d) : i >= CeilDiv(Distance(d, v), dataset.scale[d])
                 /\ \A v \in HighEnd(d) : i <= FloorDiv(Distance(d, v), dataset.scale[d])}
<1> DEFINE s == dataset.scale[d]
           n == dataset.shape[d]
<1>1. /\ s \in Int \ {0} /\ apply_transform(dataset, d, 0) \in Int
      /\ \A i \in Int : /\ i * s \in Int
                        /\ apply_transform(dataset, d, i) = apply_transform(dataset, d, 0) + i * s
      /\ IsOption(LowEnd(d), Int) /\ IsOption(HighEnd(d), Int)
      /\ \A v \in Int : Distance(d, v) \in Int
  BY TransformEnds
<1>12. s \in Int \ {0} /\ (s > 0 \/ s < 0)
  <2>1. s \in Int \ {0}
    BY <1>1
  <2> HIDE DEF s
  <2> QED
    BY <2>1
<1>13. \A v \in Int : Distance(d, v) = v - apply_transform(dataset, d, 0)
  BY DEF Distance
<1>2. n \in Nat \ {0} /\ 2 * n < U64 /\ U64 \in Nat
  BY SizeType
<1>3. \A i : Coordinate(d, i) = apply_transform(dataset, d, i)
  BY DEF Coordinate, HasTransform
<1>4. \A v \in Int : /\ FloorDiv(Distance(d, v), s) \in Int
                     /\ CeilDiv(Distance(d, v), s) \in Int
  BY <1>1, RoundedDivision
<1>5. \A v \in Int : LowIndex(d, v) \in Int /\ HighIndex(d, v) \in Int
  <2>1. \A i \in Int : Clamped(i) \in Int
    BY <1>2 DEF Clamped, Lower, Upper
  <2> QED
    BY <1>4, <2>1 DEF LowIndex, HighIndex
<1>6. TransformBounds(d, <<0, n - 1>>) =
        <<Max({0} \cup {LowIndex(d, v) : v \in LowEnd(d)}),
          Min({n - 1} \cup {HighIndex(d, v) : v \in HighEnd(d)})>>
  <2>1. CASE s > 0
    <3>1. ~(s < 0)
      BY <1>12, <2>1
    <3> QED
      BY <2>1, <3>1, ZenonT(60)
         DEF TransformBounds, LowIndex, HighIndex, Clamped, Distance, LowEnd, HighEnd
  <2>2. CASE ~(s > 0)
    <3>1. s < 0
      BY <1>12, <2>2
    <3> QED
      BY <2>2, <3>1, ZenonT(60)
         DEF TransformBounds, LowIndex, HighIndex, Clamped, Distance, LowEnd, HighEnd
  <2> QED
    BY <2>1, <2>2
<1>7. Max({0} \cup {LowIndex(d, v) : v \in LowEnd(d)}) = BoxLow(d)
  <2>1. CASE LowEnd(d) = {}
    <3>1. {LowIndex(d, v) : v \in LowEnd(d)} = {}
      BY <2>1
    <3>2. 0 \in Int
      OBVIOUS
    <3>3. Max({0} \cup {}) = 0
      BY <3>2, MaxOfTwo, Zenon
    <3> QED
      BY <2>1, <3>1, <3>3 DEF BoxLow
  <2>2. ASSUME NEW v \in LowEnd(d)
        PROVE  Max({0} \cup {LowIndex(d, w) : w \in LowEnd(d)}) = BoxLow(d)
    <3>1. LowEnd(d) = {v} /\ The(LowEnd(d)) = v /\ v \in Int
      BY <1>1 DEF IsOption
    <3>2. {LowIndex(d, w) : w \in LowEnd(d)} = {LowIndex(d, v)}
      BY <3>1
    <3>3. BoxLow(d) = Upper(0, LowIndex(d, v))
      BY <3>1 DEF BoxLow
    <3>4. LowIndex(d, v) \in Int
      BY <1>5, <3>1
    <3>5. Max({0} \cup {LowIndex(d, v)}) = Upper(0, LowIndex(d, v))
      <4>1. 0 \in Int
        OBVIOUS
      <4> QED
        BY <3>4, <4>1, MaxOfTwo
    <3> QED
      BY <3>2, <3>3, <3>5
  <2> QED
    BY <2>1, <2>2
<1>8. Min({n - 1} \cup {HighIndex(d, v) : v \in HighEnd(d)}) = BoxHigh(d)
  <2>3. n - 1 \in Int
    BY <1>2
  <2>1. CASE HighEnd(d) = {}
    <3>1. {HighIndex(d, v) : v \in HighEnd(d)} = {}
      BY <2>1
    <3>2. Min({n - 1} \cup {}) = n - 1
      BY <2>3, MaxOfTwo
    <3> QED
      BY <2>1, <3>1, <3>2 DEF BoxHigh
  <2>2. ASSUME NEW v \in HighEnd(d)
        PROVE  Min({n - 1} \cup {HighIndex(d, w) : w \in HighEnd(d)}) = BoxHigh(d)
    <3>1. HighEnd(d) = {v} /\ The(HighEnd(d)) = v /\ v \in Int
      BY <1>1 DEF IsOption
    <3>2. {HighIndex(d, w) : w \in HighEnd(d)} = {HighIndex(d, v)}
      BY <3>1
    <3>3. BoxHigh(d) = Lower(n - 1, HighIndex(d, v))
      BY <3>1 DEF BoxHigh
    <3>4. HighIndex(d, v) \in Int
      BY <1>5, <3>1
    <3>5. Min({n - 1} \cup {HighIndex(d, v)}) = Lower(n - 1, HighIndex(d, v))
      BY <2>3, <3>4, MaxOfTwo
    <3> QED
      BY <3>2, <3>3, <3>5
  <2> QED
    BY <2>1, <2>2
<1>9. ASSUME NEW i \in 0 .. n - 1
      PROVE  (/\ \A v \in Given(query.min, d) : Coordinate(d, i) >= v
              /\ \A v \in Given(query.max, d) : Coordinate(d, i) <= v)
             <=> (/\ \A v \in LowEnd(d) : i >= CeilDiv(Distance(d, v), s)
                  /\ \A v \in HighEnd(d) : i <= FloorDiv(Distance(d, v), s))
  <2>1. i \in Int /\ i * s \in Int
    <3>1. i \in Int
      BY <1>2
    <3> QED
      BY <1>1, <3>1
  <2>2. ASSUME NEW v \in Int
        PROVE  /\ Coordinate(d, i) >= v <=> i * s >= Distance(d, v)
               /\ Coordinate(d, i) <= v <=> i * s <= Distance(d, v)
    <3>1. Coordinate(d, i) = apply_transform(dataset, d, 0) + i * s
      BY <1>1, <1>3, <2>1
    <3>2. apply_transform(dataset, d, 0) \in Int
      BY <1>1
    <3>3. PICK o, m \in Int : o = apply_transform(dataset, d, 0) /\ m = i * s
      BY <2>1, <3>2
    <3>4. Coordinate(d, i) = o + m /\ Distance(d, v) = v - o
      BY <1>13, <3>1, <3>3
    <3> QED
      BY <3>3, <3>4
  <2>3. Given(query.min, d) \subseteq Int /\ Given(query.max, d) \subseteq Int
    BY GivenType DEF IsOption
  <2>4. CASE s > 0
    <3>1. ASSUME NEW v \in Int
          PROVE  /\ Coordinate(d, i) >= v <=> i >= CeilDiv(Distance(d, v), s)
                 /\ Coordinate(d, i) <= v <=> i <= FloorDiv(Distance(d, v), s)
      <4>1. Distance(d, v) \in Int
        BY <1>1
      <4>2. /\ i * s >= Distance(d, v) <=> i >= CeilDiv(Distance(d, v), s)
            /\ i * s <= Distance(d, v) <=> i <= FloorDiv(Distance(d, v), s)
        BY <1>1, <2>1, <2>4, <4>1, RoundedDivision
      <4> QED
        BY <2>2, <4>2
    <3>2. LowEnd(d) = Given(query.min, d) /\ HighEnd(d) = Given(query.max, d)
      BY <2>4 DEF LowEnd, HighEnd
    <3> QED
      BY <2>3, <3>1, <3>2
  <2>5. CASE ~(s > 0)
    <3>3. s < 0
      BY <1>12, <2>5
    <3>1. ASSUME NEW v \in Int
          PROVE  /\ Coordinate(d, i) <= v <=> i >= CeilDiv(Distance(d, v), s)
                 /\ Coordinate(d, i) >= v <=> i <= FloorDiv(Distance(d, v), s)
      <4>1. Distance(d, v) \in Int
        BY <1>1
      <4>2. /\ i * s <= Distance(d, v) <=> i >= CeilDiv(Distance(d, v), s)
            /\ i * s >= Distance(d, v) <=> i <= FloorDiv(Distance(d, v), s)
        BY <1>1, <2>1, <3>3, <4>1, RoundedDivision
      <4> QED
        BY <2>2, <4>2
    <3>2. LowEnd(d) = Given(query.max, d) /\ HighEnd(d) = Given(query.min, d)
      BY <2>5 DEF LowEnd, HighEnd
    <3> QED
      BY <2>3, <3>1, <3>2
  <2> QED
    BY <2>4, <2>5
<1>10. Wanted(d) = {i \in 0 .. n - 1 : /\ \A v \in Given(query.min, d) : Coordinate(d, i) >= v
                                       /\ \A v \in Given(query.max, d) : Coordinate(d, i) <= v}
  BY DEF Wanted
<1> HIDE DEF s, n
<1>11. Wanted(d) = {i \in 0 .. n - 1 : /\ \A v \in LowEnd(d) : i >= CeilDiv(Distance(d, v), s)
                                       /\ \A v \in HighEnd(d) : i <= FloorDiv(Distance(d, v), s)}
  BY <1>9, <1>10
<1> QED
  BY <1>6, <1>7, <1>8, <1>11 DEF s, n

(* What a box is to the indices a dimension is asked for.                   *)
Encloses(low, high, W) ==
  /\ W \subseteq low .. high
  /\ \A i \in low .. high : \E j \in W : i - j \in -1 .. 1

IsBox(d, low, high) == low \in 0 .. U64 - 1 /\ high \in 0 .. dataset.shape[d] - 1

(* On a transformed axis the box is at most one index wider on each side.   *)
LEMMA TransformRange ==
  ASSUME Wellformed, Complete, NEW d \in AllDims, HasTransform(d), dataset.coords[d] = <<>>,
         Given(query.pin, d) = {}
  PROVE  /\ TransformBounds(d, <<0, dataset.shape[d] - 1>>) = <<BoxLow(d), BoxHigh(d)>>
         /\ IsBox(d, BoxLow(d), BoxHigh(d))
         /\ Wanted(d) # {} => Encloses(BoxLow(d), BoxHigh(d), Wanted(d))
<1> DEFINE s == dataset.scale[d]
           n == dataset.shape[d]
           top == U64 \div 2 - 1
           a == BoxLow(d)
           b == BoxHigh(d)
           W == Wanted(d)
<1>1. IsOption(LowEnd(d), Int) /\ IsOption(HighEnd(d), Int)
  BY TransformEnds
<1>2. s \in Int \ {0} /\ \A v \in Int : Distance(d, v) \in Int
  BY TransformEnds
<1>3. n \in Nat \ {0} /\ top \in Nat /\ n - 1 <= top /\ top <= U64 - 1 /\ U64 \in Nat
  BY SizeType
<1>4. /\ TransformBounds(d, <<0, n - 1>>) = <<a, b>>
      /\ W = {i \in 0 .. n - 1 : /\ \A v \in LowEnd(d) : i >= CeilDiv(Distance(d, v), s)
                                 /\ \A v \in HighEnd(d) : i <= FloorDiv(Distance(d, v), s)}
  BY TransformForm
<1> HIDE DEF s, n, top, W
<1>5. ASSUME NEW v \in Int
      PROVE  /\ FloorDiv(Distance(d, v), s) \in Int /\ CeilDiv(Distance(d, v), s) \in Int
             /\ CeilDiv(Distance(d, v), s) - FloorDiv(Distance(d, v), s) \in 0 .. 1
  BY <1>2, RoundedDivision
<1>6. /\ \A v \in Int : LowIndex(d, v) = Lower(top, Upper(0, FloorDiv(Distance(d, v), s)))
      /\ \A v \in Int : HighIndex(d, v) = Lower(top, Upper(0, CeilDiv(Distance(d, v), s)))
  BY DEF LowIndex, HighIndex, Clamped, s, top
<1>7. PICK lw \in Int, lc \in Int :
        /\ lc - lw \in 0 .. 1
        /\ a = Upper(0, Lower(top, Upper(0, lw)))
        /\ \A i \in 0 .. n - 1 : (\A v \in LowEnd(d) : i >= CeilDiv(Distance(d, v), s)) <=> i >= lc
  <2>1. CASE LowEnd(d) = {}
    <3>1. a = 0
      BY <2>1 DEF BoxLow
    <3>2. PICK z \in Int : z = 0
      OBVIOUS
    <3>3. /\ z - z \in 0 .. 1 /\ a = Upper(0, Lower(top, Upper(0, z)))
          /\ \A i \in 0 .. n - 1 : (\A v \in LowEnd(d) : i >= CeilDiv(Distance(d, v), s)) <=> i >= z
      BY <1>3, <2>1, <3>1, <3>2 DEF Upper, Lower
    <3> QED
      BY <3>3
  <2>2. CASE LowEnd(d) # {}
    <3>1. PICK v \in LowEnd(d) : TRUE
      BY <2>2
    <3>2. LowEnd(d) = {v} /\ The(LowEnd(d)) = v /\ v \in Int
      BY <1>1 DEF IsOption
    <3>3. a = Upper(0, LowIndex(d, v))
      BY <2>2, <3>2 DEF BoxLow
    <3> DEFINE e == FloorDiv(Distance(d, v), s)
               f == CeilDiv(Distance(d, v), s)
    <3>4. e \in Int /\ f \in Int /\ f - e \in 0 .. 1
      BY <1>5, <3>2
    <3>5. a = Upper(0, Lower(top, Upper(0, e)))
      BY <1>6, <3>2, <3>3
    <3>6. \A i \in 0 .. n - 1 : (\A w \in LowEnd(d) : i >= CeilDiv(Distance(d, w), s)) <=> i >= f
      BY <3>2
    <3> HIDE DEF e, f
    <3> QED
      BY <3>4, <3>5, <3>6
  <2> QED
    BY <2>1, <2>2
<1>8. PICK hc \in Int, hw \in Int :
        /\ hc - hw \in 0 .. 1
        /\ b = Lower(n - 1, Lower(top, Upper(0, hc)))
        /\ \A i \in 0 .. n - 1 : (\A v \in HighEnd(d) : i <= FloorDiv(Distance(d, v), s)) <=> i <= hw
  <2>1. CASE HighEnd(d) = {}
    <3>1. b = n - 1
      BY <2>1 DEF BoxHigh, n
    <3>2. /\ (n - 1) - (n - 1) \in 0 .. 1 /\ b = Lower(n - 1, Lower(top, Upper(0, n - 1)))
          /\ \A i \in 0 .. n - 1 :
               (\A v \in HighEnd(d) : i <= FloorDiv(Distance(d, v), s)) <=> i <= n - 1
      BY <1>3, <2>1, <3>1 DEF Upper, Lower
    <3>3. n - 1 \in Int
      BY <1>3
    <3> QED
      BY <3>2, <3>3
  <2>2. CASE HighEnd(d) # {}
    <3>1. PICK v \in HighEnd(d) : TRUE
      BY <2>2
    <3>2. HighEnd(d) = {v} /\ The(HighEnd(d)) = v /\ v \in Int
      BY <1>1 DEF IsOption
    <3>3. b = Lower(n - 1, HighIndex(d, v))
      BY <2>2, <3>2 DEF BoxHigh, n
    <3> DEFINE e == FloorDiv(Distance(d, v), s)
               f == CeilDiv(Distance(d, v), s)
    <3>4. e \in Int /\ f \in Int /\ f - e \in 0 .. 1
      BY <1>5, <3>2
    <3>5. b = Lower(n - 1, Lower(top, Upper(0, f)))
      BY <1>6, <3>2, <3>3
    <3>6. \A i \in 0 .. n - 1 : (\A w \in HighEnd(d) : i <= FloorDiv(Distance(d, w), s)) <=> i <= e
      BY <3>2
    <3> HIDE DEF e, f
    <3> QED
      BY <3>4, <3>5, <3>6
  <2> QED
    BY <2>1, <2>2
<1>9. W = {i \in 0 .. n - 1 : i >= lc /\ i <= hw}
  BY <1>4, <1>7, <1>8
<1> HIDE DEF a, b
<1>10. a \in 0 .. U64 - 1 /\ b \in 0 .. n - 1
  <2>1. a \in 0 .. top
    BY <1>3, <1>7 DEF Upper, Lower
  <2>2. b \in 0 .. n - 1
    BY <1>3, <1>8 DEF Upper, Lower
  <2> QED
    BY <1>3, <2>1, <2>2
<1>11. ASSUME NEW k \in W
       PROVE  Encloses(a, b, W)
  <2>1. k \in 0 .. n - 1 /\ lc <= k /\ k <= hw
    BY <1>9
  <2>2. a = Upper(0, lw) /\ b = Lower(n - 1, hc)
    BY <1>3, <1>7, <1>8, <2>1 DEF Upper, Lower
  <2>3. ASSUME NEW i \in W
        PROVE  i \in a .. b
    <3>1. i \in 0 .. n - 1 /\ lc <= i /\ i <= hw
      BY <1>9
    <3> QED
      BY <1>3, <1>7, <1>8, <2>2, <3>1 DEF Upper, Lower
  <2>4. ASSUME NEW i \in a .. b
        PROVE  \E j \in W : i - j \in -1 .. 1
    <3>1. i \in 0 .. n - 1 /\ lw <= i /\ i <= hc
      BY <1>3, <1>7, <1>8, <1>10, <2>2 DEF Upper, Lower
    <3>2. CASE i < lc
      <4>2. i + 1 \in 0 .. n - 1 /\ lc <= i + 1 /\ i + 1 <= hw /\ i - (i + 1) = -1
        BY <1>3, <1>7, <1>8, <2>1, <3>1, <3>2, SMTT(30)
      <4>1. i + 1 \in W /\ i - (i + 1) = -1
        BY <1>9, <4>2
      <4> QED
        BY <4>1
    <3>3. CASE i > hw
      <4>2. i - 1 \in 0 .. n - 1 /\ lc <= i - 1 /\ i - 1 <= hw /\ i - (i - 1) = 1
        BY <1>3, <1>7, <1>8, <2>1, <3>1, <3>3, SMTT(30)
      <4>1. i - 1 \in W /\ i - (i - 1) = 1
        BY <1>9, <4>2
      <4> QED
        BY <4>1
    <3>4. CASE lc <= i /\ i <= hw
      <4>1. i \in W /\ i - i = 0
        BY <1>9, <3>1, <3>4
      <4> QED
        BY <4>1
    <3> QED
      BY <1>7, <1>8, <3>1, <3>2, <3>3, <3>4
  <2> QED
    BY <2>3, <2>4 DEF Encloses
<1> QED
  BY <1>4, <1>10, <1>11 DEF IsBox, a, b, n, W

(* bind's range of one dimension holds what the dimension is asked for.     *)
LEMMA DimRange ==
  ASSUME Wellformed, Complete, NEW d \in AllDims
  PROVE  /\ IsBox(d, DimBounds(d)[1], DimBounds(d)[2])
         /\ OneHemisphere(d) /\ Wanted(d) # {} =>
              /\ Encloses(DimBounds(d)[1], DimBounds(d)[2], Wanted(d))
              /\ dataset.coords[d] # <<>> \/ ~HasTransform(d) =>
                   DimBounds(d)[1] .. DimBounds(d)[2] = Wanted(d)
<1> DEFINE n == dataset.shape[d]
           whole == <<0, n - 1>>
<1>1. n \in Nat \ {0} /\ n < U64 /\ U64 \in Nat
  BY SizeType
<1>2. ASSUME NEW a, NEW b, a .. b = Wanted(d), Wanted(d) \subseteq Int
      PROVE  Encloses(a, b, Wanted(d))
  <2>2. ASSUME NEW i \in a .. b
        PROVE  i \in Wanted(d) /\ i - i \in -1 .. 1
    <3>1. i \in Wanted(d) /\ i \in Int
      BY <1>2
    <3> QED
      BY <3>1
  <2> QED
    BY <1>2, <2>2 DEF Encloses
<1> DEFINE Claim(r) ==
             /\ IsBox(d, r[1], r[2])
             /\ OneHemisphere(d) /\ Wanted(d) # {} =>
                  /\ Encloses(r[1], r[2], Wanted(d))
                  /\ dataset.coords[d] # <<>> \/ ~HasTransform(d) => r[1] .. r[2] = Wanted(d)
<1>3. ASSUME NEW v \in Given(query.pin, d)
      PROVE  Claim(DimBounds(d))
  <2>1. Given(query.pin, d) = {v} /\ The(Given(query.pin, d)) = v /\ v \in Nat
    BY GivenType DEF IsOption
  <2> DEFINE t == Lower(v, n - 1)
  <2>2. DimBounds(d) = <<t, t>>
    BY <2>1 DEF DimBounds
  <2>3. Wanted(d) = {t}
    BY <2>1 DEF Wanted
  <2>4. t \in 0 .. n - 1 /\ t \in 0 .. U64 - 1
    BY <1>1, <2>1 DEF Lower
  <2> HIDE DEF t, n
  <2>5. t .. t = Wanted(d) /\ Wanted(d) \subseteq Int
    BY <1>1, <2>3, <2>4
  <2>6. Encloses(t, t, Wanted(d))
    BY <1>2, <2>5
  <2> QED
    BY <2>2, <2>4, <2>5, <2>6 DEF IsBox, n
<1>4. ASSUME Given(query.pin, d) = {}, dataset.coords[d] # <<>>
      PROVE  Claim(DimBounds(d))
  <2>1. DimBounds(d) = CoordBounds(d, whole)
    BY <1>4 DEF DimBounds
  <2>2. PICK a, b : /\ IsRange(CoordBounds(d, whole), dataset.coords[d], a, b)
                    /\ FromMin(d) \cap UpToMax(d) # {} => a .. b = FromMin(d) \cap UpToMax(d)
    BY <1>4, CoordRange
  <2>3. Len(dataset.coords[d]) = n
    <3>1. dataset.coords[d] \in Seq(Int) /\ Len(dataset.coords[d]) \in {0, n}
      BY DEF Wellformed, IsAxis
    <3> QED
      BY <1>4, <3>1, EmptySeq
  <2>4. DimBounds(d) = <<a, b>> /\ a \in 0 .. n /\ b \in 0 .. n - 1
    BY <2>1, <2>2, <2>3 DEF IsRange
  <2>5. IsBox(d, a, b)
    BY <1>1, <2>4 DEF IsBox
  <2>6. ASSUME OneHemisphere(d), Wanted(d) # {}
        PROVE  Encloses(a, b, Wanted(d)) /\ a .. b = Wanted(d)
    <3>1. Wanted(d) = FromMin(d) \cap UpToMax(d)
      BY <1>4, <2>6, ShownAsStored
    <3>2. a .. b = Wanted(d)
      BY <2>2, <2>6, <3>1
    <3>3. Wanted(d) \subseteq Int
      BY <1>1, <3>1 DEF FromMin
    <3> QED
      BY <1>2, <3>2, <3>3
  <2> HIDE DEF n
  <2> QED
    BY <2>4, <2>5, <2>6
<1>5. ASSUME Given(query.pin, d) = {}, dataset.coords[d] = <<>>, HasTransform(d)
      PROVE  Claim(DimBounds(d))
  <2>1. DimBounds(d) = TransformBounds(d, whole)
    BY <1>5 DEF DimBounds
  <2>2. /\ TransformBounds(d, whole) = <<BoxLow(d), BoxHigh(d)>>
        /\ IsBox(d, BoxLow(d), BoxHigh(d))
        /\ Wanted(d) # {} => Encloses(BoxLow(d), BoxHigh(d), Wanted(d))
    BY <1>5, TransformRange
  <2>3. DimBounds(d)[1] = BoxLow(d) /\ DimBounds(d)[2] = BoxHigh(d)
    BY <2>1, <2>2
  <2> QED
    BY <1>5, <2>2, <2>3
<1>6. ASSUME Given(query.pin, d) = {}, dataset.coords[d] = <<>>, ~HasTransform(d)
      PROVE  Claim(DimBounds(d))
  <2>1. DimBounds(d)[1] = 0 /\ DimBounds(d)[2] = n - 1 /\ Wanted(d) = 0 .. n - 1
    BY <1>6 DEF DimBounds, Wanted
  <2>2. IsBox(d, 0, n - 1)
    BY <1>1 DEF IsBox
  <2>3. Encloses(0, n - 1, Wanted(d))
    BY <1>1, <1>2, <2>1
  <2> HIDE DEF n
  <2> QED
    BY <2>1, <2>2, <2>3
<1> QED
  BY <1>3, <1>4, <1>5, <1>6

-----------------------------------------------------------------------------
(* The dataset that open_dataset makes.                                    *)

IsOpened(ds) ==
  /\ ~OpenError(request.source, request.asset)
  /\ ds = Opened(request.source, request.asset)

(* A dataset that could be opened has the sizes its validator checks.       *)
LEMMA OpenedWellformed ==
  ASSUME request \in Requests, IsOpened(dataset)
  PROVE  Wellformed /\ Complete
<1> DEFINE array == ArrayOf(request.source, The(SelectedAssets(request.source, request.asset)))
<1>1. Regular(dataset) /\ Complete
  BY RequestsAssumption DEF IsOpened, Complete, query
<1>2. dataset.shape = array.shape /\ dataset.chunk_shape = array.chunk_shape
  BY DEF IsOpened, Opened
<1>3. ~(0 \in ToSet(array.chunk_shape))
  BY DEF IsOpened, OpenError, ChunkError
<1>4. \A d \in DOMAIN array.shape : Len(dataset.coords[d]) \in {0, array.shape[d]}
  <2>1. ASSUME NEW d \in DOMAIN array.shape
        PROVE  Len(dataset.coords[d]) \in {0, array.shape[d]}
    <3> DEFINE name == DimNames(array)[d]
    <3>1. dataset.coords[d] = Coordinates(request.source, name, array.shape[d])
      BY <2>1 DEF IsOpened, Opened
    <3> HIDE DEF array, name
    <3>2. \A arrays, n : Readable(arrays, name, n) => Len(arrays[name].values) = n
      BY DEF Readable
    <3>3. Len(<<>>) = 0
      OBVIOUS
    <3> QED
      BY <3>1, <3>2, <3>3 DEF Coordinates
  <2> QED
    BY <2>1
<1> HIDE DEF array
<1>5. /\ dataset.shape \in Seq({n \in Nat \ {0} : 2 * n < U64})
      /\ dataset.chunk_shape \in Seq(Nat) /\ Len(dataset.chunk_shape) = Len(dataset.shape)
  BY <1>1 DEF Regular
<1>6. Rank \in Nat /\ DOMAIN dataset.shape = AllDims /\ DOMAIN dataset.chunk_shape = AllDims
  BY <1>5 DEF Rank, AllDims
<1>7. IsNumbered(dataset.shape)
  <2>1. \A d \in AllDims : dataset.shape[d] \in {n \in Nat \ {0} : 2 * n < U64}
    BY <1>5, <1>6
  <2>2. dataset.shape = [d \in AllDims |-> dataset.shape[d]]
    BY <1>5, <1>6
  <2> QED
    BY <2>1, <2>2 DEF IsNumbered
<1>8. dataset.chunk_shape \in [AllDims -> Nat \ {0}]
  <2>1. dataset.chunk_shape \in [AllDims -> Nat]
    <3>1. Len(dataset.chunk_shape) \in Nat /\ AllDims = 1 .. Len(dataset.chunk_shape)
      BY <1>5, <1>6 DEF AllDims, Rank
    <3> QED
      BY <1>5, <3>1, SMTT(30)
  <2>2. \A d \in AllDims : dataset.chunk_shape[d] \in ToSet(dataset.chunk_shape)
    BY <1>6 DEF ToSet
  <2> QED
    BY <1>2, <1>3, <2>1, <2>2
<1>9. ASSUME NEW d \in AllDims
      PROVE  IsAxis(d)
  BY <1>1, <1>2, <1>4, <1>6 DEF IsAxis, Regular
<1>10. dataset.scale \in Seq(Int) /\ dataset.translation \in Seq(Int)
  BY <1>1 DEF Regular
<1> QED
  BY <1>1, <1>6, <1>7, <1>8, <1>9, <1>10 DEF Wellformed

-----------------------------------------------------------------------------
(* The invariant: what each phase has made of the request.                  *)

Phases == {"bind", "open", "scan", "write", "done", "refused", "failed"}

Opening ==
  /\ request \in Requests /\ phase \in Phases
  /\ \/ dataset = NoDataset /\ phase \in {"bind", "refused"}
     \/ IsOpened(dataset) /\ phase # "bind"

HasBounds ==
  /\ bounds_min = [d \in AllDims |-> DimBounds(d)[1]]
  /\ bounds_max = [d \in AllDims |-> DimBounds(d)[2]]

Counted ==
  num_chunks = CountChunks(bounds_min, bounds_max) /\ planned = num_chunks

Unbound ==
  /\ bounds_min = <<>> /\ bounds_max = <<>> /\ num_chunks = 0 /\ planned = 0
  /\ chunk_idx = 0 /\ fetched = <<>> /\ lost = {}
  /\ phase \in {"bind", "open", "refused"}

Bounded ==
  /\ IsOpened(dataset) /\ HasBounds /\ Counted
  /\ phase \notin {"bind", "open"}

Bounding == Unbound \/ Bounded

(* A step that keeps the request and the dataset keeps what they define.    *)
LEMMA SameQuery ==
  ASSUME request' = request, dataset' = dataset
  PROVE  /\ AllDims' = AllDims /\ Rank' = Rank
         /\ \A d : DimBounds(d)' = DimBounds(d) /\ Wanted(d)' = Wanted(d)
         /\ IsOpened(dataset)' <=> IsOpened(dataset)
         /\ \A f : ProductAfter(f)' = ProductAfter(f)
<1>1. AllDims' = AllDims /\ Rank' = Rank
  BY DEF AllDims, Rank
<1>2. query' = query
  BY DEF query
<1>3. ASSUME NEW d
      PROVE  DimBounds(d)' = DimBounds(d)
  BY <1>2 DEF DimBounds, CoordBounds, TransformBounds, HasTransform, Given
<1>4. ASSUME NEW d
      PROVE  Wanted(d)' = Wanted(d)
  BY <1>2 DEF Wanted, Given, HasTransform, Coordinate
<1>5. IsOpened(dataset)' <=> IsOpened(dataset)
  BY DEF IsOpened
<1>6. \A f : ProductAfter(f)' = ProductAfter(f)
  BY <1>1 DEF ProductAfter, ProductsAfter
<1> QED
  BY <1>1, <1>3, <1>4, <1>5, <1>6

-----------------------------------------------------------------------------
(* Products over dimensions.                                               *)

(* ProductAfter has the equations that define it, and its values are in any  *)
(* set that holds 1 and is closed under the factors.                        *)
LEMMA Products ==
  ASSUME Rank \in Nat, NEW S, 1 \in S, NEW f,
         \A d \in AllDims : \A x \in S : f[d] * x \in S
  PROVE  /\ ProductAfter(f) \in [0 .. Rank -> S]
         /\ ProductAfter(f)[Rank] = 1
         /\ \A d \in AllDims : ProductAfter(f)[d - 1] = f[d] * ProductAfter(f)[d]
<1> DEFINE step == [d \in 1 .. Rank |-> [x \in S |-> f[d] * x]]
<1>1. step \in [1 .. Rank -> [S -> S]] /\ \A d \in 1 .. Rank : \A x \in S : step[d][x] = f[d] * x
  BY DEF AllDims
<1> HIDE DEF step
<1>2. PICK g \in [0 .. Rank -> S] : IsDownward(g, Rank, 1, step)
  BY <1>1, DownwardRecursion
<1>3. g[Rank] = 1 /\ \A d \in 1 .. Rank : g[d - 1] = f[d] * g[d]
  BY <1>1, <1>2 DEF IsDownward
<1> DEFINE Def(h) == h = [d \in 0 .. Rank |-> IF d = Rank THEN 1 ELSE f[d + 1] * h[d + 1]]
<1>4. Def(g)
  <2>1. ASSUME NEW d \in 0 .. Rank
        PROVE  g[d] = IF d = Rank THEN 1 ELSE f[d + 1] * g[d + 1]
    <3>1. CASE d = Rank
      BY <1>3, <3>1
    <3>2. CASE d # Rank
      <4>1. d + 1 \in 1 .. Rank /\ (d + 1) - 1 = d
        BY <3>2
      <4>2. g[(d + 1) - 1] = f[d + 1] * g[d + 1]
        BY <1>3, <4>1
      <4> QED
        BY <3>2, <4>1, <4>2
    <3> QED
      BY <3>1, <3>2
  <2> QED
    BY <2>1
<1>5. ProductAfter(f) = CHOOSE h : Def(h)
  BY DEF ProductAfter, ProductsAfter
<1> DEFINE p == ProductAfter(f)
<1> HIDE DEF Def
<1>6. Def(p)
  BY <1>4, <1>5
<1> HIDE DEF p
<1>7. /\ p = [d \in 0 .. Rank |-> p[d]] /\ DOMAIN p = 0 .. Rank
      /\ \A d \in 0 .. Rank : p[d] = IF d = Rank THEN 1 ELSE f[d + 1] * p[d + 1]
  BY <1>6 DEF Def
<1>8. p[Rank] = 1
  <2>1. Rank \in 0 .. Rank
    OBVIOUS
  <2> QED
    BY <1>7, <2>1
<1>9. ASSUME NEW d \in 1 .. Rank
      PROVE  p[d - 1] = f[d] * p[d]
  <2>1. d - 1 \in 0 .. Rank /\ d - 1 # Rank /\ (d - 1) + 1 = d
    OBVIOUS
  <2> QED
    BY <1>7, <2>1
<1>10. \A d \in 1 .. Rank : p[d] \in S => p[d - 1] \in S
  BY <1>9 DEF AllDims
<1>11. p \in [0 .. Rank -> S]
  BY <1>7, <1>8, <1>10, DownwardFunction
<1> QED
  BY <1>8, <1>9, <1>11 DEF p, AllDims

(* The volume of a shape is a number, and positive if no side is 0.         *)
LEMMA VolumeType ==
  ASSUME Rank \in Nat
  PROVE  /\ \A f \in [AllDims -> Nat] : Volume(f) \in Nat
         /\ \A f \in [AllDims -> Nat \ {0}] : Volume(f) \in Nat \ {0}
<1>1. 0 \in 0 .. Rank
  OBVIOUS
<1>2. ASSUME NEW f \in [AllDims -> Nat]
      PROVE  Volume(f) \in Nat
  <2>1. 1 \in Nat /\ \A d \in AllDims : \A x \in Nat : f[d] * x \in Nat
    <3>1. \A a, x \in Nat : a * x \in Nat
      OBVIOUS
    <3> QED
      BY <3>1
  <2>2. ProductAfter(f) \in [0 .. Rank -> Nat]
    BY <2>1, Products
  <2> QED
    BY <1>1, <2>2 DEF Volume
<1>3. ASSUME NEW f \in [AllDims -> Nat \ {0}]
      PROVE  Volume(f) \in Nat \ {0}
  <2>1. 1 \in Nat \ {0} /\ \A d \in AllDims : \A x \in Nat \ {0} : f[d] * x \in Nat \ {0}
    <3>1. \A a, x \in Nat \ {0} : a * x \in Nat \ {0}
      OBVIOUS
    <3> QED
      BY <3>1
  <2>2. ProductAfter(f) \in [0 .. Rank -> Nat \ {0}]
    BY <2>1, Products
  <2> QED
    BY <1>1, <2>2 DEF Volume
<1> QED
  BY <1>2, <1>3

-----------------------------------------------------------------------------
(* The box.                                                                *)

IsBoxed == \A d \in AllDims : IsBox(d, bounds_min[d], bounds_max[d])

(* The box that bind computes.                                             *)
LEMMA BoxType ==
  ASSUME Wellformed, Complete, HasBounds
  PROVE  /\ IsBoxed
         /\ \A d \in AllDims : /\ bounds_min[d] = DimBounds(d)[1]
                               /\ bounds_max[d] = DimBounds(d)[2]
<1>1. \A d \in AllDims : bounds_min[d] = DimBounds(d)[1] /\ bounds_max[d] = DimBounds(d)[2]
  BY DEF HasBounds
<1>2. \A d \in AllDims : IsBox(d, DimBounds(d)[1], DimBounds(d)[2])
  BY DimRange
<1> QED
  BY <1>1, <1>2 DEF IsBoxed

(* Both counts of the chunks are one number.                                *)
LEMMA ChunkCount ==
  ASSUME Wellformed, NEW lo, NEW hi, \A d \in AllDims : IsBox(d, lo[d], hi[d])
  PROVE  /\ CountChunks(lo, hi) \in Nat
         /\ PlanChunks(lo, hi) = CountChunks(lo, hi)
<1> DEFINE f == [d \in AllDims |->
                   Upper(0, hi[d] \div dataset.chunk_shape[d]
                            - lo[d] \div dataset.chunk_shape[d]) + 1]
<1>1. f \in [AllDims -> Nat]
  <2>1. ASSUME NEW d \in AllDims
        PROVE  f[d] \in Nat
    <3>1. /\ lo[d] \in Int /\ hi[d] \in Int
          /\ dataset.chunk_shape[d] \in Nat \ {0}
      <4>1. dataset.shape[d] \in Nat /\ U64 \in Nat /\ dataset.chunk_shape[d] \in Nat \ {0}
        BY SizeType
      <4> QED
        BY <4>1 DEF IsBox
    <3>2. \A a \in Int : \A c \in Nat \ {0} : a \div c \in Int
      OBVIOUS
    <3>3. \A a, b \in Int : Upper(0, a - b) + 1 \in Nat
      BY DEF Upper
    <3> QED
      BY <3>1, <3>2, <3>3
  <2> QED
    BY <2>1
<1>2. CountChunks(lo, hi) = Volume(f)
  BY DEF CountChunks
<1>3. PlanChunks(lo, hi) = Volume(f)
  BY DEF PlanChunks
<1>4. Rank \in Nat
  BY DEF Wellformed
<1> HIDE DEF f
<1> QED
  BY <1>1, <1>2, <1>3, <1>4, VolumeType

-----------------------------------------------------------------------------
(* The chunks of the box.                                                  *)

(* What a chunk index leaves after the dimensions behind each have divided   *)
(* it.                                                                     *)
LEMMA QuotientsType ==
  ASSUME Rank \in Nat, NEW idx \in Nat, \A d \in AllDims : DimLen[d] \in Nat \ {0}
  PROVE  /\ Quotients(idx) \in [0 .. Rank -> Nat]
         /\ Quotients(idx)[Rank] = idx
         /\ \A d \in AllDims : Quotients(idx)[d - 1] = Quotients(idx)[d] \div DimLen[d]
<1> DEFINE step == [d \in 1 .. Rank |-> [x \in Nat |-> x \div DimLen[d]]]
<1>1. step \in [1 .. Rank -> [Nat -> Nat]] /\ \A d \in 1 .. Rank : \A x \in Nat : step[d][x] = x \div DimLen[d]
  <2>1. \A d \in 1 .. Rank : DimLen[d] \in Nat \ {0}
    BY DEF AllDims
  <2>2. \A x \in Nat : \A m \in Nat \ {0} : x \div m \in Nat
    OBVIOUS
  <2> QED
    BY <2>1, <2>2
<1> HIDE DEF step
<1>2. PICK g \in [0 .. Rank -> Nat] : IsDownward(g, Rank, idx, step)
  BY <1>1, DownwardRecursion
<1>3. g[Rank] = idx /\ \A d \in 1 .. Rank : g[d - 1] = g[d] \div DimLen[d]
  <2>1. g[Rank] = idx /\ \A d \in 1 .. Rank : g[d - 1] = step[d][g[d]]
    BY <1>2 DEF IsDownward
  <2>2. \A d \in 1 .. Rank : g[d] \in Nat
    BY <1>2
  <2>3. \A d \in 1 .. Rank : step[d][g[d]] = g[d] \div DimLen[d]
    BY <1>1, <2>2
  <2> QED
    BY <2>1, <2>3
<1> DEFINE Def(h) == h = [d \in 0 .. Rank |-> IF d = Rank THEN idx ELSE h[d + 1] \div DimLen[d + 1]]
<1>4. Def(g)
  <2>1. ASSUME NEW d \in 0 .. Rank
        PROVE  g[d] = IF d = Rank THEN idx ELSE g[d + 1] \div DimLen[d + 1]
    <3>1. CASE d = Rank
      BY <1>3, <3>1
    <3>2. CASE d # Rank
      <4>1. d + 1 \in 1 .. Rank /\ (d + 1) - 1 = d
        BY <3>2
      <4>2. g[(d + 1) - 1] = g[d + 1] \div DimLen[d + 1]
        BY <1>3, <4>1
      <4> QED
        BY <3>2, <4>1, <4>2
    <3> QED
      BY <3>1, <3>2
  <2> QED
    BY <2>1
<1>5. Quotients(idx) = CHOOSE h : Def(h)
  BY DEF Quotients
<1> DEFINE p == Quotients(idx)
<1> HIDE DEF Def
<1>6. Def(p)
  BY <1>4, <1>5
<1> HIDE DEF p
<1>7. /\ p = [d \in 0 .. Rank |-> p[d]] /\ DOMAIN p = 0 .. Rank
      /\ \A d \in 0 .. Rank : p[d] = IF d = Rank THEN idx ELSE p[d + 1] \div DimLen[d + 1]
  BY <1>6 DEF Def
<1>8. p[Rank] = idx
  <2>1. Rank \in 0 .. Rank
    OBVIOUS
  <2> QED
    BY <1>7, <2>1
<1>9. ASSUME NEW d \in 1 .. Rank
      PROVE  p[d - 1] = p[d] \div DimLen[d]
  <2>1. d - 1 \in 0 .. Rank /\ d - 1 # Rank /\ (d - 1) + 1 = d
    OBVIOUS
  <2> QED
    BY <1>7, <2>1
<1>10. \A d \in 1 .. Rank : p[d] \in Nat => p[d - 1] \in Nat
  <2>1. \A d \in 1 .. Rank : DimLen[d] \in Nat \ {0}
    BY DEF AllDims
  <2>2. \A x \in Nat : \A m \in Nat \ {0} : x \div m \in Nat
    OBVIOUS
  <2> QED
    BY <1>9, <2>1, <2>2
<1>11. p \in [0 .. Rank -> Nat]
  BY <1>7, <1>8, <1>10, DownwardFunction
<1> QED
  BY <1>8, <1>9, <1>11 DEF p, AllDims

(* The chunks at the ends of the box, and how many there are between them    *)
(* unless the position panics.                                             *)
LEMMA ExtentType ==
  ASSUME Wellformed, IsBoxed, NEW d \in AllDims
  PROVE  /\ ChunkMin[d] \in Nat /\ ChunkMax[d] \in Nat
         /\ ChunkMin[d] <= ChunkMax[d] => DimLen[d] = ChunkMax[d] - ChunkMin[d] + 1
         /\ DimLen[d] \in Nat
         /\ ~PosPanics => DimLen[d] \in Nat \ {0}
<1>1. /\ bounds_min[d] \in Nat /\ bounds_max[d] \in Nat
      /\ bounds_max[d] + 1 < U64 /\ U64 \in Nat \ {0} /\ dataset.chunk_shape[d] \in Nat \ {0}
  <2>1. /\ dataset.shape[d] \in Nat \ {0} /\ 2 * dataset.shape[d] < U64 /\ U64 \in Nat
        /\ dataset.chunk_shape[d] \in Nat \ {0}
    BY SizeType
  <2>2. bounds_min[d] \in 0 .. U64 - 1 /\ bounds_max[d] \in 0 .. dataset.shape[d] - 1
    BY DEF IsBoxed, IsBox
  <2> QED
    BY <2>1, <2>2
<1>2. \A a \in Nat : \A c \in Nat \ {0} : a \div c \in Nat /\ a \div c <= a
  OBVIOUS
<1>3. /\ ChunkMin[d] = bounds_min[d] \div dataset.chunk_shape[d]
      /\ ChunkMax[d] = bounds_max[d] \div dataset.chunk_shape[d]
  BY DEF ChunkMin, ChunkMax
<1>4. ChunkMin[d] \in Nat /\ ChunkMax[d] \in Nat /\ ChunkMax[d] + 1 < U64
  BY <1>1, <1>2, <1>3
<1>5. DimLen[d] = (ChunkMax[d] - ChunkMin[d] + 1) % U64
  BY DEF DimLen
<1> DEFINE lo == ChunkMin[d]
           hi == ChunkMax[d]
<1> HIDE DEF lo, hi
<1>6. lo <= hi => (hi - lo + 1) % U64 = hi - lo + 1
  <2>1. ASSUME NEW x \in Nat, NEW m \in Nat \ {0}, x < m
        PROVE  x % m = x
    BY <2>1
  <2>2. ASSUME lo <= hi
        PROVE  hi - lo + 1 \in Nat /\ hi - lo + 1 < U64
    BY <1>1, <1>4, <2>2 DEF lo, hi
  <2> QED
    BY <1>1, <2>1, <2>2
<1>7. \A x \in Int : x % U64 \in Nat
  BY <1>1
<1>8. DimLen[d] \in Nat
  BY <1>4, <1>5, <1>7
<1>9. ~PosPanics => lo <= hi \/ DimLen[d] # 0
  BY <1>4 DEF PosPanics, lo, hi
<1> QED
  BY <1>4, <1>5, <1>6, <1>8, <1>9 DEF lo, hi

(* A position that does not panic is one of numbers.                        *)
LEMMA PosType ==
  ASSUME Wellformed, IsBoxed, ~PosPanics, NEW idx \in Nat
  PROVE  GetChunkPos(idx) \in [AllDims -> Nat]
<1>1. Rank \in Nat /\ \A d \in AllDims : ChunkMin[d] \in Nat /\ DimLen[d] \in Nat \ {0}
  BY ExtentType DEF Wellformed
<1>2. Quotients(idx) \in [0 .. Rank -> Nat]
  BY <1>1, QuotientsType
<1>3. ASSUME NEW d \in AllDims
      PROVE  ChunkMin[d] + (Quotients(idx)[d] % DimLen[d]) \in Nat
  <2>1. d \in 0 .. Rank
    BY <1>1 DEF AllDims
  <2>2. Quotients(idx)[d] \in Nat /\ ChunkMin[d] \in Nat /\ DimLen[d] \in Nat \ {0}
    BY <1>1, <1>2, <2>1
  <2> QED
    BY <2>2
<1> QED
  BY <1>3 DEF GetChunkPos

(* A subset that can be asked for has a size.                               *)
LEMMA SubsetSized ==
  ASSUME Wellformed, IsBoxed, chunk_idx \in Nat, Possible
  PROVE  SubsetShape(Pos) \in [AllDims -> Nat]
<1>1. Pos \in [AllDims -> Nat]
  BY PosType DEF Possible, Pos
<1>2. ASSUME NEW d \in AllDims
      PROVE  SubsetShape(Pos)[d] \in Nat
  <2>1. /\ bounds_min[d] \in Int /\ bounds_max[d] \in Int /\ dataset.chunk_shape[d] \in Int
        /\ Pos[d] \in Int
    <3>1. dataset.shape[d] \in Nat /\ U64 \in Nat /\ dataset.chunk_shape[d] \in Nat
      BY SizeType
    <3> QED
      BY <1>1, <3>1 DEF IsBoxed, IsBox
  <2>2. Pos[d] * dataset.chunk_shape[d] \in Int /\ (Pos[d] + 1) * dataset.chunk_shape[d] - 1 \in Int
    BY <2>1
  <2>3. SubsetLo(Pos)[d] \in Int /\ SubsetHi(Pos)[d] \in Int
    BY <2>1, <2>2 DEF SubsetLo, SubsetHi, Upper, Lower
  <2>4. SubsetShape(Pos)[d] = SubsetHi(Pos)[d] - SubsetLo(Pos)[d] + 1
    BY DEF SubsetShape
  <2>5. SubsetHi(Pos)[d] < SubsetLo(Pos)[d] => ~(SubsetShape(Pos)[d] < 0)
    BY DEF Possible, SubsetFails
  <2> QED
    BY <2>3, <2>4, <2>5
<1> QED
  BY <1>2 DEF SubsetShape

(* And so many elements.                                                    *)
LEMMA ElementsLength ==
  ASSUME Wellformed, IsBoxed, chunk_idx \in Nat, Possible, NEW present
  PROVE  Len(Elements(Pos, present)) \in Nat
<1>3. SubsetShape(Pos) \in [AllDims -> Nat]
  BY SubsetSized
<1>4. Volume(SubsetShape(Pos)) \in Nat
  BY <1>3, VolumeType DEF Wellformed
<1> DEFINE e == Elements(Pos, present)
           v == Volume(SubsetShape(Pos))
<1>5. e = [k \in 1 .. v |-> e[k]]
  BY DEF Elements
<1>8. v \in Nat
  BY <1>4
<1> DEFINE S == {e[k] : k \in 1 .. v}
<1> HIDE DEF e, v
<1>6. e \in [1 .. v -> S]
  BY <1>5
<1> HIDE DEF S
<1>7. e \in Seq(S)
  BY <1>6, <1>8, SeqDef
<1> QED
  BY <1>7 DEF e

-----------------------------------------------------------------------------
(* The invariant, step by step.                                            *)

IsListed(s) == s \in Seq(ToSet(s))

Reading ==
  /\ num_chunks \in Nat /\ chunk_idx \in 0 .. num_chunks
  /\ IsListed(fetched) /\ Len(fetched) = chunk_idx
  /\ \A i \in 1 .. chunk_idx : fetched[i] = GetChunkPos(i - 1)
  /\ chunk_idx # 0 => ~PosPanics
  /\ lost \subseteq ToSet(fetched)
  /\ phase = "done" => chunk_idx = num_chunks

Writing ==
  /\ Len(buffer) \in Nat /\ cursor \in 0 .. Len(buffer)
  /\ phase = "write" => cursor < Len(buffer) \/ Len(buffer) = 0
  /\ valid_rows \in 0 .. VectorSize - 1

QueryInv == Opening /\ Bounding /\ Reading /\ Writing

(* What is known of a query whose dataset is open.                          *)
LEMMA OpenFacts ==
  ASSUME Opening, IsOpened(dataset)
  PROVE  Wellformed /\ Complete
BY OpenedWellformed DEF Opening

(* What is known of a query that has a box.                                 *)
LEMMA BoundFacts ==
  ASSUME Opening, Bounded
  PROVE  Wellformed /\ Complete /\ IsBoxed /\ HasBounds
BY OpenFacts, BoxType DEF Bounded

(* A step that keeps the request and the box keeps the chunks' positions.   *)
LEMMA SameBox ==
  ASSUME request' = request, UNCHANGED box
  PROVE  /\ HasBounds' <=> HasBounds
         /\ Counted' <=> Counted
         /\ IsOpened(dataset)' <=> IsOpened(dataset)
         /\ \A idx : GetChunkPos(idx)' = GetChunkPos(idx)
         /\ PosPanics' <=> PosPanics
<1>1. /\ dataset' = dataset /\ bounds_min' = bounds_min /\ bounds_max' = bounds_max
      /\ num_chunks' = num_chunks /\ planned' = planned
  BY DEF box
<1>2. /\ AllDims' = AllDims /\ Rank' = Rank /\ \A d : DimBounds(d)' = DimBounds(d)
      /\ IsOpened(dataset)' <=> IsOpened(dataset)
  BY <1>1, SameQuery
<1>3. \A f : ProductAfter(f)' = ProductAfter(f)
  BY <1>1, SameQuery
<1>4. HasBounds' <=> HasBounds
  BY <1>1, <1>2 DEF HasBounds
<1>5. Counted' <=> Counted
  <2>1. CountChunks(bounds_min, bounds_max)' = CountChunks(bounds_min, bounds_max)
    BY <1>1, <1>2, <1>3 DEF CountChunks, Volume
  <2> QED
    BY <1>1, <2>1 DEF Counted
<1>6. ChunkMin' = ChunkMin /\ ChunkMax' = ChunkMax
  BY <1>1, <1>2 DEF ChunkMin, ChunkMax
<1>7. DimLen' = DimLen
  BY <1>2, <1>6 DEF DimLen
<1>8. \A idx : Quotients(idx)' = Quotients(idx)
  BY <1>2, <1>7 DEF Quotients
<1>9. \A idx : GetChunkPos(idx)' = GetChunkPos(idx)
  BY <1>2, <1>6, <1>7, <1>8 DEF GetChunkPos
<1>10. PosPanics' <=> PosPanics
  BY <1>2, <1>6, <1>7 DEF PosPanics
<1> QED
  BY <1>2, <1>4, <1>5, <1>9, <1>10

(* Each action keeps the request and, but for Open and Bind, the box.       *)
LEMMA KeepsBox ==
  ASSUME [Next]_vars
  PROVE  /\ request' = request
         /\ Open \/ Bind \/ UNCHANGED box
         /\ Bind => dataset' = dataset
BY DEF Next, vars, Open, OpenFails, Bind, ReadChunk, ReadRefused, ReadFails, WriteBatch, WriteFails,
       EndOfStream, Answered

(* A query's dataset is the one its source opens as.                        *)
LEMMA OpeningStep ==
  ASSUME Opening, [Next]_vars
  PROVE  Opening'
<1>1. request' = request
  BY KeepsBox
<1>2. CASE Open
  <2>1. dataset' = Opened(source, request.asset) /\ ~OpenError(source, request.asset) /\ phase' = "open"
    BY <1>2 DEF Open, CanOpen
  <2>2. IsOpened(dataset)'
    BY <1>1, <2>1 DEF IsOpened, source
  <2> QED
    BY <1>1, <2>1, <2>2 DEF Opening, Phases
<1>3. CASE dataset' = dataset
  <2>1. IsOpened(dataset)' <=> IsOpened(dataset)
    BY <1>1, <1>3, SameQuery
  <2>2. CASE Bind
    <3>1. phase = "open" /\ phase' = "scan"
      BY <2>2 DEF Bind
    <3>2. IsOpened(dataset)'
      BY <2>1, <3>1 DEF Opening
    <3> QED
      BY <1>1, <3>1, <3>2 DEF Opening, Phases
  <2>3. CASE OpenFails
    <3>1. phase = "bind" /\ phase' = "refused"
      BY <2>3 DEF OpenFails
    <3>2. dataset = NoDataset
      BY <3>1 DEF Opening
    <3> QED
      BY <1>1, <1>3, <3>1, <3>2 DEF Opening, Phases, NoDataset
  <2>4. CASE UNCHANGED vars \/ Answered
    <3>1. phase' = phase
      BY <2>4 DEF vars, Answered
    <3> QED
      BY <1>1, <1>3, <2>1, <3>1 DEF Opening, NoDataset
  <2>5. CASE \/ \E got \in BOOLEAN : ReadChunk(got)
             \/ ReadRefused \/ ReadFails \/ WriteBatch \/ WriteFails \/ EndOfStream
    <3>1. phase \in {"scan", "write"} /\ phase' \in Phases \ {"bind"}
      BY <2>5 DEF ReadChunk, ReadRefused, ReadFails, WriteBatch, WriteFails, EndOfStream, Phases
    <3>2. IsOpened(dataset)'
      BY <2>1, <3>1 DEF Opening
    <3> QED
      BY <1>1, <3>1, <3>2 DEF Opening
  <2>6. CASE Open
    BY <1>2, <2>6
  <2> QED
    BY <2>2, <2>3, <2>4, <2>5, <2>6 DEF Next
<1>4. Open \/ dataset' = dataset
  BY KeepsBox DEF box
<1> QED
  BY <1>2, <1>3, <1>4

(* A query has no box, or the one of its window with its chunks counted.    *)
LEMMA BoundingStep ==
  ASSUME Opening, Bounding, [Next]_vars
  PROVE  Bounding'
<1>1. request' = request
  BY KeepsBox
<1>2. CASE Open
  <2>1. /\ phase = "bind" /\ phase' = "open"
        /\ UNCHANGED <<bounds_min, bounds_max, num_chunks, planned, chunk_idx, fetched, lost>>
    BY <1>2 DEF Open, chunk
  <2>2. Unbound
    BY <2>1 DEF Bounding, Bounded
  <2> QED
    BY <2>1, <2>2 DEF Bounding, Unbound
<1>3. CASE Bind
  <2>1. /\ phase = "open" /\ phase' = "scan" /\ dataset' = dataset
        /\ bounds_min' = [d \in AllDims |-> DimBounds(d)[1]]
        /\ bounds_max' = [d \in AllDims |-> DimBounds(d)[2]]
        /\ num_chunks' = CountChunks(bounds_min', bounds_max')
        /\ planned' = PlanChunks(bounds_min', bounds_max')
    BY <1>3 DEF Bind
  <2>2. IsOpened(dataset)
    BY <2>1 DEF Opening
  <2>3. /\ AllDims' = AllDims /\ \A d : DimBounds(d)' = DimBounds(d)
        /\ IsOpened(dataset)' <=> IsOpened(dataset)
        /\ \A f : ProductAfter(f)' = ProductAfter(f)
    BY <1>1, <2>1, SameQuery
  <2>4. HasBounds'
    BY <2>1, <2>3 DEF HasBounds
  <2>5. Counted'
    <3>1. CountChunks(bounds_min, bounds_max)' = CountChunks(bounds_min', bounds_max')
      BY <2>1, <2>3 DEF CountChunks, Volume
    <3>2. PlanChunks(bounds_min', bounds_max') = CountChunks(bounds_min', bounds_max')
      BY DEF PlanChunks, CountChunks
    <3> QED
      BY <2>1, <3>1, <3>2 DEF Counted
  <2> QED
    BY <2>1, <2>2, <2>3, <2>4, <2>5 DEF Bounding, Bounded
<1>4. CASE UNCHANGED box /\ ~Open /\ ~Bind
  <2>1. /\ HasBounds' <=> HasBounds
        /\ Counted' <=> Counted
        /\ IsOpened(dataset)' <=> IsOpened(dataset)
    BY <1>1, <1>4, SameBox
  <2>2. CASE phase \in {"bind", "open"}
    <3>1. Unbound
      BY <2>2 DEF Bounding, Bounded
    <3>2. OpenFails \/ UNCHANGED vars
      BY <1>4, <2>2 DEF Next, ReadChunk, ReadRefused, ReadFails, WriteBatch, WriteFails,
                        EndOfStream, Answered
    <3>3. /\ phase' \in {"bind", "open", "refused"}
          /\ UNCHANGED <<bounds_min, bounds_max, num_chunks, planned, chunk_idx, fetched, lost>>
      BY <2>2, <3>2 DEF OpenFails, vars, box, chunk
    <3> QED
      BY <3>1, <3>3 DEF Bounding, Unbound
  <2>3. CASE Bounded
    <3>1. phase' \notin {"bind", "open"}
      BY <1>4, <2>3 DEF Bounded, Next, vars, OpenFails, ReadChunk, ReadRefused, ReadFails, WriteBatch,
                        WriteFails, EndOfStream, Answered
    <3> QED
      BY <2>1, <2>3, <3>1 DEF Bounding, Bounded
  <2>4. CASE Unbound /\ phase \notin {"bind", "open"}
    <3>1. phase = "refused"
      BY <2>4 DEF Unbound
    <3>2. UNCHANGED vars
      BY <1>4, <3>1 DEF Next, OpenFails, ReadChunk, ReadRefused, ReadFails, WriteBatch, WriteFails,
                        EndOfStream, Answered
    <3>3. UNCHANGED <<phase, bounds_min, bounds_max, num_chunks, planned, chunk_idx, fetched, lost>>
      BY <3>2 DEF vars, box, chunk
    <3> QED
      BY <2>4, <3>3 DEF Bounding, Unbound
  <2> QED
    BY <2>2, <2>3, <2>4 DEF Bounding
<1> QED
  BY <1>2, <1>3, <1>4, KeepsBox

(* Appending keeps a listed sequence listed.                                *)
LEMMA ListedAppend ==
  ASSUME NEW s, IsListed(s), NEW x
  PROVE  /\ IsListed(Append(s, x)) /\ Len(Append(s, x)) = Len(s) + 1
         /\ ToSet(Append(s, x)) = ToSet(s) \cup {x}
         /\ \A i \in 1 .. Len(s) : Append(s, x)[i] = s[i]
         /\ Append(s, x)[Len(s) + 1] = x
<1> DEFINE T == ToSet(s) \cup {x}
           t == Append(s, x)
<1>1. s \in Seq(T) /\ x \in T
  <2>1. s \in Seq(ToSet(s)) /\ ToSet(s) \subseteq T
    BY DEF IsListed
  <2> QED
    BY <2>1, SeqMonotonic
<1>2. Len(s) \in Nat /\ DOMAIN s = 1 .. Len(s) /\ ToSet(s) = {s[i] : i \in 1 .. Len(s)}
  BY <1>1 DEF ToSet
<1> HIDE DEF T
<1>3. /\ t \in Seq(T) /\ Len(t) = Len(s) + 1 /\ DOMAIN t = 1 .. Len(s) + 1
      /\ \A i \in 1 .. Len(s) : t[i] = s[i]
      /\ t[Len(s) + 1] = x
  BY <1>1
<1> DEFINE n == Len(s)
<1> HIDE DEF t, n
<1>4. ToSet(t) = ToSet(s) \cup {x}
  <2>1. ToSet(t) = {t[i] : i \in 1 .. n + 1}
    BY <1>3 DEF ToSet, n
  <2>2. 1 .. n + 1 = 1 .. n \cup {n + 1}
    BY <1>2 DEF n
  <2>3. {t[i] : i \in 1 .. n + 1} = {t[i] : i \in 1 .. n} \cup {t[n + 1]}
    BY <2>2
  <2>4. {t[i] : i \in 1 .. n} = {s[i] : i \in 1 .. n}
    BY <1>3 DEF n
  <2> QED
    BY <1>2, <1>3, <2>1, <2>3, <2>4 DEF n
<1>5. ToSet(t) = T
  BY <1>4 DEF T
<1> QED
  BY <1>3, <1>4, <1>5 DEF t, n, IsListed

(* The chunks read are the first of the box, in the order of their indices. *)
LEMMA ReadingStep ==
  ASSUME Opening, Bounding, Reading, [Next]_vars
  PROVE  Reading'
<1>1. request' = request
  BY KeepsBox
<1>2. CASE Open
  <2>1. /\ UNCHANGED <<bounds_min, bounds_max, num_chunks, planned, chunk_idx, fetched, lost>>
        /\ phase' # "done"
    BY <1>2 DEF Open, chunk
  <2>2. Unbound
    BY <1>2 DEF Open, Bounding, Bounded
  <2> QED
    BY <2>1, <2>2 DEF Reading, Unbound, IsListed
<1>3. CASE Bind
  <2>1. /\ phase = "open" /\ phase' # "done" /\ dataset' = dataset
        /\ bounds_min' = [d \in AllDims |-> DimBounds(d)[1]]
        /\ bounds_max' = [d \in AllDims |-> DimBounds(d)[2]]
        /\ num_chunks' = CountChunks(bounds_min', bounds_max')
        /\ UNCHANGED <<chunk_idx, fetched, lost>>
    BY <1>3 DEF Bind, chunk
  <2>2. IsOpened(dataset) /\ Unbound
    BY <2>1 DEF Opening, Bounding, Bounded
  <2>3. Wellformed /\ Complete
    BY <2>2, OpenFacts
  <2>4. num_chunks' \in Nat
    <3>1. \A d \in AllDims : IsBox(d, bounds_min'[d], bounds_max'[d])
      BY <2>1, <2>3, DimRange
    <3> QED
      BY <2>1, <2>3, <3>1, ChunkCount
  <2>5. chunk_idx' = 0 /\ fetched' = <<>> /\ lost' = {}
    BY <2>1, <2>2 DEF Unbound
  <2> QED
    BY <2>1, <2>4, <2>5 DEF Reading, IsListed
<1>4. CASE UNCHANGED box
  <2>1. num_chunks' = num_chunks
    BY <1>4 DEF box
  <2>2. (\A idx : GetChunkPos(idx)' = GetChunkPos(idx)) /\ (PosPanics' <=> PosPanics)
    BY <1>1, <1>4, SameBox
  <2>3. ASSUME NEW got \in BOOLEAN, ReadChunk(got)
        PROVE  Reading'
    <3>1. /\ chunk_idx < num_chunks /\ chunk_idx' = chunk_idx + 1
          /\ fetched' = Append(fetched, Pos) /\ lost' \subseteq lost \cup {Pos}
          /\ ~PosPanics /\ phase' # "done"
      BY <2>3 DEF ReadChunk, Possible
    <3>2. /\ num_chunks \in Nat /\ chunk_idx \in 0 .. num_chunks
          /\ IsListed(fetched) /\ Len(fetched) = chunk_idx
          /\ \A i \in 1 .. chunk_idx : fetched[i] = GetChunkPos(i - 1)
          /\ lost \subseteq ToSet(fetched)
      BY DEF Reading
    <3>3. /\ IsListed(fetched') /\ Len(fetched') = chunk_idx'
          /\ ToSet(fetched') = ToSet(fetched) \cup {Pos}
          /\ \A i \in 1 .. chunk_idx : fetched'[i] = fetched[i]
          /\ fetched'[chunk_idx + 1] = Pos
      BY <3>1, <3>2, ListedAppend
    <3>4. ASSUME NEW i \in 1 .. chunk_idx'
          PROVE  fetched'[i] = GetChunkPos(i - 1)'
      <4>1. i \in 1 .. chunk_idx \/ i = chunk_idx + 1
        BY <3>1, <3>2
      <4>2. GetChunkPos(i - 1)' = GetChunkPos(i - 1)
        BY <2>2
      <4>3. CASE i \in 1 .. chunk_idx
        BY <3>2, <3>3, <4>2, <4>3
      <4>4. CASE i = chunk_idx + 1
        <5>1. i - 1 = chunk_idx
          BY <3>2, <4>4
        <5> QED
          BY <3>3, <4>2, <4>4, <5>1 DEF Pos
      <4> QED
        BY <4>1, <4>3, <4>4
    <3>5. num_chunks' \in Nat /\ chunk_idx' \in 0 .. num_chunks'
      BY <2>1, <3>1, <3>2
    <3>6. lost' \subseteq ToSet(fetched')
      BY <3>1, <3>2, <3>3
    <3>7. ~PosPanics'
      BY <2>2, <3>1
    <3> QED
      BY <3>1, <3>3, <3>4, <3>5, <3>6, <3>7 DEF Reading
  <2>4. ASSUME UNCHANGED <<chunk_idx, fetched, lost>>,
               phase' = "done" => phase = "done" \/ chunk_idx >= num_chunks
        PROVE  Reading'
    <3>1. phase' = "done" => chunk_idx' = num_chunks'
      BY <2>1, <2>4 DEF Reading
    <3> QED
      BY <2>1, <2>2, <2>4, <3>1 DEF Reading, IsListed
  <2>5. \/ \E got \in BOOLEAN : ReadChunk(got)
        \/ /\ UNCHANGED <<chunk_idx, fetched, lost>>
           /\ phase' = "done" => phase = "done" \/ chunk_idx >= num_chunks
    BY DEF Next, vars, chunk, Open, OpenFails, Bind, ReadRefused, ReadFails, WriteBatch, WriteFails,
           EndOfStream, Answered
  <2> QED
    BY <2>3, <2>4, <2>5
<1> QED
  BY <1>2, <1>3, <1>4, KeepsBox

(* The buffer is written to its end, and a vector is never left full.       *)
LEMMA WritingStep ==
  ASSUME Opening, Bounding, Reading, Writing, [Next]_vars
  PROVE  Writing'
<1>1. ASSUME NEW got \in BOOLEAN, ReadChunk(got)
      PROVE  Writing'
  <2>1. /\ phase = "scan" /\ Possible /\ buffer' = Elements(Pos, got /\ Present)
        /\ cursor' = 0 /\ valid_rows' = valid_rows
    BY <1>1 DEF ReadChunk
  <2>2. Bounded
    BY <2>1 DEF Bounding, Unbound
  <2>3. Wellformed /\ IsBoxed
    BY <2>2, BoundFacts
  <2>4. Len(buffer') \in Nat
    <3>1. chunk_idx \in Nat
      BY DEF Reading
    <3> QED
      BY <2>1, <2>3, <3>1, ElementsLength
  <2> QED
    BY <2>1, <2>4 DEF Writing
<1>2. CASE WriteBatch
  <2> DEFINE n == Lower(Len(buffer) - cursor, VectorSize - valid_rows)
  <2>1. /\ phase = "write" /\ buffer' = buffer /\ cursor' = cursor + n
        /\ valid_rows' = IF valid_rows + n >= VectorSize THEN 0 ELSE valid_rows + n
        /\ phase' = IF cursor + n >= Len(buffer) THEN "scan" ELSE "write"
    BY <1>2 DEF WriteBatch, chunk
  <2>2. /\ Len(buffer) \in Nat /\ cursor \in 0 .. Len(buffer) /\ VectorSize \in Nat \ {0}
        /\ valid_rows \in 0 .. VectorSize - 1
    BY ReadAssumption DEF Writing
  <2>3. n \in Nat /\ cursor + n <= Len(buffer) /\ valid_rows + n <= VectorSize
    BY <2>2 DEF Lower
  <2> HIDE DEF n
  <2>4. cursor' \in 0 .. Len(buffer)
    BY <2>1, <2>2, <2>3
  <2>5. valid_rows' \in 0 .. VectorSize - 1
    BY <2>1, <2>2, <2>3
  <2>6. phase' = "write" => cursor' < Len(buffer)
    BY <2>1, <2>2, <2>3
  <2> QED
    BY <2>1, <2>2, <2>4, <2>5, <2>6 DEF Writing
<1>3. ASSUME UNCHANGED <<buffer, cursor, valid_rows>>, phase' = "write" => phase = "write"
      PROVE  Writing'
  BY <1>3 DEF Writing
<1>4. \/ \E got \in BOOLEAN : ReadChunk(got)
      \/ WriteBatch
      \/ UNCHANGED <<buffer, cursor, valid_rows>> /\ (phase' = "write" => phase = "write")
  BY DEF Next, vars, chunk, Open, OpenFails, Bind, ReadRefused, ReadFails, WriteFails, EndOfStream,
         Answered
<1> QED
  BY <1>1, <1>2, <1>3, <1>4

(* What holds of every query, whatever its source and its window.           *)
LEMMA QueryInvariant == Spec => []QueryInv
<1>1. Init => QueryInv
  <2> SUFFICES ASSUME Init
               PROVE  QueryInv
    OBVIOUS
  <2>1. Opening
    BY DEF Init, Opening, Phases
  <2>2. Bounding
    BY DEF Init, Bounding, Unbound
  <2>3. Reading
    BY DEF Init, Reading, IsListed
  <2>4. Writing
    BY ReadAssumption DEF Init, Writing
  <2> QED
    BY <2>1, <2>2, <2>3, <2>4 DEF QueryInv
<1>2. QueryInv /\ [Next]_vars => QueryInv'
  BY OpeningStep, BoundingStep, ReadingStep, WritingStep DEF QueryInv
<1> QED
  BY <1>1, <1>2, PTL DEF Spec

-----------------------------------------------------------------------------
(* Theorems.                                                               *)

(* Every query's sizes, box, position and vector stay in their ranges, for   *)
(* every set of regular sources.                                           *)
THEOREM QueryTyped == Spec => []TypeOK
<1>1. QueryInv => TypeOK
  <2> SUFFICES ASSUME QueryInv
               PROVE  TypeOK
    OBVIOUS
  <2>1. Opening /\ Bounding /\ Reading /\ Writing
    BY DEF QueryInv
  <2>2. ASSUME NEW d \in AllDims
        PROVE  /\ dataset.shape[d] \in Nat \ {0} /\ 2 * dataset.shape[d] < U64
               /\ dataset.chunk_shape[d] \in Nat \ {0}
               /\ Len(dataset.coords[d]) \in {0, dataset.shape[d]}
               /\ IsBound => /\ bounds_min[d] \in 0 .. U64 - 1
                             /\ bounds_max[d] \in 0 .. dataset.shape[d] - 1
    <3>1. dataset # NoDataset
      <4>1. ASSUME dataset = NoDataset
            PROVE  FALSE
        <5>1. Len(dataset.shape) = 0
          BY <4>1 DEF NoDataset
        <5> QED
          BY <5>1 DEF AllDims, Rank
      <4> QED
        BY <4>1
    <3>2. IsOpened(dataset)
      BY <2>1, <3>1 DEF Opening
    <3>3. Wellformed /\ Complete
      BY <2>1, <3>2, OpenFacts
    <3>4. /\ dataset.shape[d] \in Nat \ {0} /\ 2 * dataset.shape[d] < U64
          /\ dataset.chunk_shape[d] \in Nat \ {0}
      BY <3>3, SizeType
    <3>5. Len(dataset.coords[d]) \in {0, dataset.shape[d]}
      BY <3>3 DEF Wellformed, IsAxis
    <3>6. ASSUME IsBound
          PROVE  /\ bounds_min[d] \in 0 .. U64 - 1
                 /\ bounds_max[d] \in 0 .. dataset.shape[d] - 1
      <4>1. Bounded
        BY <2>1, <3>6 DEF Bounding, Unbound, IsBound
      <4>2. IsBoxed
        BY <2>1, <4>1, BoundFacts
      <4> QED
        BY <4>2 DEF IsBoxed, IsBox
    <3> QED
      BY <3>4, <3>5, <3>6
  <2>3. phase \in {"bind", "open", "scan", "write", "done", "refused", "failed"}
    BY <2>1 DEF Opening, Phases
  <2>4. /\ num_chunks \in Nat /\ chunk_idx \in 0 .. num_chunks
        /\ Len(fetched) = chunk_idx /\ lost \subseteq ToSet(fetched)
    BY <2>1 DEF Reading
  <2>5. /\ phase = "write" => cursor < Len(buffer) \/ Len(buffer) = 0
        /\ valid_rows \in 0 .. VectorSize - 1
    BY <2>1 DEF Writing
  <2> QED
    BY <2>2, <2>3, <2>4, <2>5 DEF TypeOK
<1> QED
  BY <1>1, QueryInvariant, PTL

(* A window that holds some cell becomes the index range of its cells: on a  *)
(* coordinate array of any length, in either direction, exactly it, and on   *)
(* a transformed axis of any scale at most one index more on each side.     *)
THEOREM WindowBecomesItsBox == Spec => []BoundsExact
<1>1. QueryInv => BoundsExact
  <2> SUFFICES ASSUME QueryInv, IsBound, Answerable, NEW d \in AllDims
               PROVE  /\ Wanted(d) \subseteq Box(d)
                      /\ dataset.coords[d] # <<>> \/ ~HasTransform(d) => Box(d) = Wanted(d)
                      /\ \A i \in Box(d) : \E j \in Wanted(d) : i - j \in -1 .. 1
    BY DEF BoundsExact
  <2>1. Opening /\ Bounded
    BY DEF QueryInv, Bounding, Unbound, IsBound
  <2>2. Wellformed /\ Complete /\ HasBounds
    BY <2>1, BoundFacts
  <2>3. Box(d) = DimBounds(d)[1] .. DimBounds(d)[2]
    BY <2>2, BoxType DEF Box
  <2>4. /\ Encloses(DimBounds(d)[1], DimBounds(d)[2], Wanted(d))
        /\ dataset.coords[d] # <<>> \/ ~HasTransform(d) =>
             DimBounds(d)[1] .. DimBounds(d)[2] = Wanted(d)
    BY <2>2, DimRange DEF Answerable
  <2> QED
    BY <2>3, <2>4 DEF Encloses
<1> QED
  BY <1>1, QueryInvariant, PTL

-----------------------------------------------------------------------------
(* The order of the chunks.                                                *)

(* A set of dimensions with an element has a last one.                      *)
LEMMA LastDim ==
  ASSUME NEW N \in Nat, NEW S \in SUBSET (1 .. N), S # {}
  PROVE  Max(S) \in S /\ \A y \in S : y <= Max(S)
<1> DEFINE T == {N - y : y \in S}
<1>7. \A y \in S : y \in 1 .. N /\ y \in Int /\ N - y \in Nat
  OBVIOUS
<1>1. T \in SUBSET Nat /\ T # {}
  <2>1. T \subseteq Nat
    BY <1>7
  <2>2. PICK y \in S : TRUE
    OBVIOUS
  <2>3. N - y \in T
    BY <2>2
  <2> QED
    BY <2>1, <2>3
<1>2. PICK x \in T : \A y \in T : x <= y
  BY <1>1, LeastNumber
<1>3. PICK m \in S : x = N - m
  OBVIOUS
<1>4. ASSUME NEW y \in S
      PROVE  m >= y
  <2>1. N - y \in T /\ N - m <= N - y
    BY <1>2, <1>3
  <2>2. m \in Int /\ y \in Int
    OBVIOUS
  <2> QED
    BY <2>1, <2>2
<1>5. Max(S) \in S /\ \A y \in S : Max(S) >= y
  BY <1>3, <1>4 DEF Max
<1>6. Max(S) \in Int /\ \A y \in S : y \in Int
  BY <1>5, <1>7
<1> QED
  BY <1>5, <1>6

(* Adding one to a number carries just if its remainder is the last.        *)
LEMMA Carry ==
  ASSUME NEW q \in Nat, NEW m \in Nat \ {0}
  PROVE  /\ q \div m \in Nat /\ q % m \in 0 .. m - 1 /\ (q \div m) * m <= q
         /\ q % m = m - 1 => (q + 1) % m = 0 /\ (q + 1) \div m = q \div m + 1
         /\ q % m < m - 1 => (q + 1) % m = (q % m) + 1 /\ (q + 1) \div m = q \div m
<1> DEFINE a == q \div m
           r == q % m
<1>1. a \in Nat /\ r \in 0 .. m - 1 /\ q = a * m + r
  OBVIOUS
<1> HIDE DEF a, r
<1>2. a * m \in Nat /\ (a + 1) * m = a * m + m
  BY <1>1
<1>3. ASSUME NEW x \in Nat, NEW b \in Nat, NEW s \in 0 .. m - 1, x = b * m + s
      PROVE  x \div m = b /\ x % m = s
  <2> DEFINE e == x \div m
             f == x % m
  <2>1. e \in Nat /\ f \in 0 .. m - 1 /\ x = e * m + f
    OBVIOUS
  <2> HIDE DEF e, f
  <2>2. \A i, j \in Int : (i <= j => i * m <= j * m) /\ (i > j => i * m >= j * m + m)
    BY TimesOrder
  <2>3. b * m \in Int /\ e * m \in Int
    BY <2>1
  <2>4. ~(e > b)
    <3>1. e > b => e * m >= b * m + m
      BY <2>1, <2>2
    <3> QED
      BY <1>3, <2>1, <2>3, <3>1
  <2>5. ~(b > e)
    <3>1. b > e => b * m >= e * m + m
      BY <2>1, <2>2
    <3> QED
      BY <1>3, <2>1, <2>3, <3>1
  <2>6. e = b
    BY <2>1, <2>4, <2>5
  <2> QED
    BY <1>3, <2>1, <2>3, <2>6 DEF e, f
<1>4. r = m - 1 => (q + 1) % m = 0 /\ (q + 1) \div m = a + 1
  <2>1. ASSUME r = m - 1
        PROVE  q + 1 = (a + 1) * m + 0
    BY <1>1, <1>2, <2>1
  <2>2. 0 \in 0 .. m - 1 /\ a + 1 \in Nat /\ q + 1 \in Nat
    BY <1>1
  <2> QED
    BY <1>3, <2>1, <2>2
<1>5. r < m - 1 => (q + 1) % m = r + 1 /\ (q + 1) \div m = a
  <2>1. q + 1 = a * m + (r + 1) /\ q + 1 \in Nat
    BY <1>1, <1>2
  <2>2. r < m - 1 => r + 1 \in 0 .. m - 1
    BY <1>1
  <2> QED
    BY <1>1, <1>3, <2>1, <2>2
<1> QED
  BY <1>1, <1>2, <1>4, <1>5 DEF a, r

IsUpright == \A d \in AllDims : ChunkMin[d] <= ChunkMax[d]

(* The products of extents that a product is taken of are the sizes of what  *)
(* lies behind each dimension.                                             *)
LEMMA ProductsAre ==
  ASSUME Rank \in Nat, NEW f, \A d \in AllDims : f[d] \in Nat \ {0}
  PROVE  IsAfter(ProductAfter(f), f, Rank)
<1>1. 1 \in Nat \ {0} /\ \A d \in AllDims : \A x \in Nat \ {0} : f[d] * x \in Nat \ {0}
  <2>1. \A m, x \in Nat \ {0} : m * x \in Nat \ {0}
    OBVIOUS
  <2> QED
    BY <2>1
<1>2. /\ ProductAfter(f) \in [0 .. Rank -> Nat \ {0}]
      /\ ProductAfter(f)[Rank] = 1
      /\ \A d \in AllDims : ProductAfter(f)[d - 1] = f[d] * ProductAfter(f)[d]
  BY <1>1, Products
<1> QED
  BY <1>2 DEF IsAfter, AllDims

(* An upright box has as many chunks as the product of its extents, and an   *)
(* index among them leaves nothing.                                         *)
LEMMA NothingLeft ==
  ASSUME Rank \in Nat, \A d \in AllDims : DimLen[d] \in Nat \ {0},
         NEW idx \in Nat, idx < Volume(DimLen)
  PROVE  Quotients(idx)[0] = 0
<1>1. /\ Quotients(idx) \in [0 .. Rank -> Nat] /\ Quotients(idx)[Rank] = idx
      /\ \A d \in AllDims : Quotients(idx)[d - 1] = Quotients(idx)[d] \div DimLen[d]
  BY QuotientsType
<1>2. IsDigits(Quotients(idx), DimLen, Rank, idx)
  BY <1>1 DEF IsDigits, AllDims
<1>3. IsAfter(ProductAfter(DimLen), DimLen, Rank)
  BY ProductsAre
<1>4. \A d \in 1 .. Rank : DimLen[d] \in Nat \ {0}
  BY DEF AllDims
<1> QED
  BY <1>2, <1>3, <1>4, DigitsEnd DEF Volume

(* The next index is the next position, as GridIterator::next finds it.     *)
LEMMA PositionAfter ==
  ASSUME Wellformed, IsBoxed, IsUpright, NEW k \in Nat, k + 1 < Volume(DimLen)
  PROVE  GetChunkPos(k + 1) = NextPos(GetChunkPos(k))
<1> DEFINE q == Quotients(k)
           s == Quotients(k + 1)
           pos == GetChunkPos(k)
           open == {d \in AllDims : pos[d] < ChunkMax[d]}
<1>1. /\ Rank \in Nat
      /\ \A d \in AllDims : /\ ChunkMin[d] \in Nat /\ DimLen[d] \in Nat \ {0}
                            /\ ChunkMax[d] = ChunkMin[d] + (DimLen[d] - 1)
  <2>1. ASSUME NEW d \in AllDims
        PROVE  /\ ChunkMin[d] \in Nat /\ DimLen[d] \in Nat \ {0}
               /\ ChunkMax[d] = ChunkMin[d] + (DimLen[d] - 1)
    <3>1. /\ ChunkMin[d] \in Nat /\ ChunkMax[d] \in Nat /\ ChunkMin[d] <= ChunkMax[d]
          /\ DimLen[d] = ChunkMax[d] - ChunkMin[d] + 1
      BY ExtentType DEF IsUpright
    <3> QED
      BY <3>1
  <2> QED
    BY <2>1 DEF Wellformed
<1>2. /\ q \in [0 .. Rank -> Nat] /\ q[Rank] = k
      /\ \A d \in AllDims : q[d - 1] = q[d] \div DimLen[d]
  BY <1>1, QuotientsType
<1>3. /\ s \in [0 .. Rank -> Nat] /\ s[Rank] = k + 1
      /\ \A d \in AllDims : s[d - 1] = s[d] \div DimLen[d]
  <2>1. k + 1 \in Nat
    OBVIOUS
  <2> QED
    BY <1>1, <2>1, QuotientsType
<1>4. /\ \A d \in AllDims : pos[d] = ChunkMin[d] + (q[d] % DimLen[d])
      /\ GetChunkPos(k + 1) = [d \in AllDims |-> ChunkMin[d] + (s[d] % DimLen[d])]
  BY DEF GetChunkPos
<1>5. q[0] = 0 /\ s[0] = 0
  <2>1. k + 1 \in Nat /\ k < Volume(DimLen)
    <3>1. DimLen \in [AllDims -> Nat]
      BY <1>1 DEF DimLen
    <3>2. Volume(DimLen) \in Nat
      BY <1>1, <3>1, VolumeType
    <3> QED
      BY <3>2
  <2> QED
    BY <1>1, <2>1, NothingLeft
<1> HIDE DEF q, s, pos
<1>6. ASSUME NEW d \in AllDims
      PROVE  /\ d \in 0 .. Rank /\ d - 1 \in 0 .. Rank /\ q[d] \in Nat /\ s[d] \in Nat
             /\ d \in open <=> q[d] % DimLen[d] < DimLen[d] - 1
             /\ d \notin open <=> q[d] % DimLen[d] = DimLen[d] - 1
  <2>1. d \in 0 .. Rank /\ d - 1 \in 0 .. Rank
    BY <1>1 DEF AllDims
  <2>2. q[d] \in Nat /\ s[d] \in Nat
    BY <1>2, <1>3, <2>1
  <2>3. q[d] % DimLen[d] \in 0 .. DimLen[d] - 1
    BY <1>1, <2>2, Carry
  <2>4. d \in open <=> ChunkMin[d] + (q[d] % DimLen[d]) < ChunkMin[d] + (DimLen[d] - 1)
    BY <1>1, <1>4
  <2>5. /\ DimLen[d] \in Nat /\ ChunkMin[d] \in Nat
    BY <1>1
  <2> DEFINE r == q[d] % DimLen[d]
             m == DimLen[d]
             c == ChunkMin[d]
  <2> HIDE DEF r, m, c, open
  <2>6. (d \in open <=> r < m - 1) /\ (d \notin open <=> r = m - 1)
    BY <2>3, <2>4, <2>5 DEF r, m, c
  <2> QED
    BY <2>1, <2>2, <2>6 DEF r, m
<1> DEFINE A(i) == {d \in 0 .. Rank : d >= i => s[d] = q[d] + 1}
<1>7. ASSUME NEW i \in Nat, \A d \in AllDims : d > i => d \notin open
      PROVE  \A d \in 0 .. Rank : d >= i => s[d] = q[d] + 1
  <2>1. Rank \in A(i)
    BY <1>1, <1>2, <1>3
  <2>2. ASSUME NEW d \in 1 .. Rank, d \in A(i)
        PROVE  d - 1 \in A(i)
    <3>1. d \in AllDims
      BY DEF AllDims
    <3>2. ASSUME d - 1 >= i
          PROVE  s[d - 1] = q[d - 1] + 1
      <4>1. s[d] = q[d] + 1 /\ d \notin open
        BY <2>2, <3>1, <3>2, <1>7
      <4>2. q[d] % DimLen[d] = DimLen[d] - 1 /\ q[d] \in Nat
        BY <1>6, <3>1, <4>1
      <4>3. (q[d] + 1) \div DimLen[d] = q[d] \div DimLen[d] + 1
        BY <1>1, <3>1, <4>2, Carry
      <4> QED
        BY <1>2, <1>3, <3>1, <4>1, <4>3
    <3>3. d - 1 \in 0 .. Rank
      BY <1>1
    <3> QED
      BY <3>2, <3>3
  <2> DEFINE B == A(i)
  <2>3. Rank \in B /\ \A d \in 1 .. Rank : d \in B => d - 1 \in B
    BY <2>1, <2>2
  <2> HIDE DEF B
  <2>4. 0 .. Rank \subseteq B
    BY <1>1, <2>3, DownwardInduction
  <2> QED
    BY <2>4 DEF B
<1>8. open # {}
  <2>1. ASSUME open = {}
        PROVE  FALSE
    <3>1. \A d \in 0 .. Rank : d >= 0 => s[d] = q[d] + 1
      BY <1>7, <2>1
    <3>2. s[0] = q[0] + 1
      BY <1>1, <3>1
    <3> QED
      BY <1>5, <3>2
  <2> QED
    BY <2>1
<1> DEFINE i == Max(open)
<1>9. i \in AllDims /\ i \in open /\ \A d \in open : d <= i
  <2>1. open \in SUBSET (1 .. Rank)
    BY DEF AllDims
  <2> HIDE DEF open
  <2>2. Max(open) \in open /\ \A d \in open : d <= Max(open)
    BY <1>1, <1>8, <2>1, LastDim
  <2> QED
    BY <2>1, <2>2 DEF AllDims
<1>10. i \in 1 .. Rank
  BY <1>9 DEF AllDims
<1> HIDE DEF i
<1>11. \A d \in AllDims : d > i => d \notin open
  <2>1. \A d \in AllDims : d \in Int
    BY <1>1 DEF AllDims
  <2> HIDE DEF open
  <2> QED
    BY <1>9, <1>10, <2>1
<1>12. \A d \in 0 .. Rank : d >= i => s[d] = q[d] + 1
  <2>1. i \in Nat
    BY <1>10
  <2> HIDE DEF open
  <2> QED
    BY <1>7, <1>11, <2>1
<1>13. \A d \in 0 .. Rank : d < i => s[d] = q[d]
  <2> DEFINE B == {d \in 0 .. Rank : d < i => s[d] = q[d]}
  <2>1. Rank \in B
    BY <1>1, <1>10
  <2>2. ASSUME NEW d \in 1 .. Rank, d \in B
        PROVE  d - 1 \in B
    <3>1. d \in AllDims /\ d - 1 \in 0 .. Rank /\ d \in 0 .. Rank
      BY <1>1 DEF AllDims
    <3>2. CASE d < i
      <4>1. s[d] = q[d]
        BY <2>2, <3>2
      <4>2. s[d - 1] = q[d - 1]
        BY <1>2, <1>3, <3>1, <4>1
      <4> QED
        BY <3>1, <4>2
    <3>3. CASE d = i
      <4>1. s[i] = q[i] + 1
        BY <1>10, <1>12, <3>1, <3>3
      <4>2. q[i] % DimLen[i] < DimLen[i] - 1 /\ q[i] \in Nat
        BY <1>6, <1>9
      <4>3. (q[i] + 1) \div DimLen[i] = q[i] \div DimLen[i]
        BY <1>1, <1>9, <4>2, Carry
      <4>4. s[d - 1] = q[d - 1]
        BY <1>2, <1>3, <3>1, <3>3, <4>1, <4>3
      <4> QED
        BY <3>1, <4>4
    <3>4. CASE d > i
      BY <1>10, <3>1, <3>4
    <3> QED
      BY <1>10, <3>2, <3>3, <3>4
  <2> HIDE DEF B
  <2>3. 0 .. Rank \subseteq B
    BY <1>1, <2>1, <2>2, DownwardInduction
  <2> QED
    BY <2>3 DEF B
<1>14. ASSUME NEW d \in AllDims
       PROVE  ChunkMin[d] + (s[d] % DimLen[d]) =
                IF d < i THEN pos[d] ELSE IF d = i THEN pos[d] + 1 ELSE ChunkMin[d]
  <2>1. d \in 0 .. Rank /\ q[d] \in Nat /\ d \in Int /\ i \in Int
    BY <1>6, <1>10
  <2>2. ChunkMin[d] \in Nat /\ DimLen[d] \in Nat \ {0} /\ pos[d] = ChunkMin[d] + (q[d] % DimLen[d])
    BY <1>1, <1>4
  <2>3. CASE d < i
    BY <1>13, <2>1, <2>2, <2>3
  <2>4. CASE d = i
    <3>1. s[d] = q[d] + 1
      BY <1>12, <2>1, <2>4
    <3>2. q[d] % DimLen[d] < DimLen[d] - 1
      BY <1>6, <1>9, <2>4
    <3>3. (q[d] + 1) % DimLen[d] = (q[d] % DimLen[d]) + 1
      BY <2>1, <2>2, <3>2, Carry
    <3>4. q[d] % DimLen[d] \in Int
      BY <2>1, <2>2
    <3> QED
      BY <2>1, <2>2, <2>4, <3>1, <3>3, <3>4
  <2>5. CASE d > i
    <3>1. s[d] = q[d] + 1
      BY <1>12, <2>1, <2>5
    <3>2. q[d] % DimLen[d] = DimLen[d] - 1
      BY <1>6, <1>11, <2>5
    <3>3. (q[d] + 1) % DimLen[d] = 0
      BY <2>1, <2>2, <3>2, Carry
    <3> QED
      BY <2>1, <2>2, <2>5, <3>1, <3>3
  <2> QED
    BY <2>1, <2>3, <2>4, <2>5
<1>15. NextPos(pos) = [d \in AllDims |-> IF d < i THEN pos[d]
                                         ELSE IF d = i THEN pos[d] + 1 ELSE ChunkMin[d]]
  BY DEF NextPos, i
<1>16. GetChunkPos(k + 1) = NextPos(pos)
  BY <1>4, <1>14, <1>15
<1> QED
  BY <1>16 DEF pos

(* A query that can be answered has an upright box.                         *)
LEMMA AnswerableUpright ==
  ASSUME Opening, Bounded, Answerable
  PROVE  IsUpright /\ \A d \in AllDims : bounds_min[d] <= bounds_max[d]
<1>1. Wellformed /\ Complete /\ IsBoxed /\ HasBounds
  BY BoundFacts
<1>2. ASSUME NEW d \in AllDims
      PROVE  bounds_min[d] <= bounds_max[d] /\ ChunkMin[d] <= ChunkMax[d]
  <2>1. bounds_min[d] = DimBounds(d)[1] /\ bounds_max[d] = DimBounds(d)[2]
    BY <1>1, BoxType
  <2>2. Wanted(d) # {} /\ Wanted(d) \subseteq bounds_min[d] .. bounds_max[d]
    <3>1. Encloses(DimBounds(d)[1], DimBounds(d)[2], Wanted(d))
      BY <1>1, DimRange DEF Answerable
    <3> QED
      BY <2>1, <3>1 DEF Encloses, Answerable
  <2>3. /\ bounds_min[d] \in Nat /\ bounds_max[d] \in Nat /\ dataset.chunk_shape[d] \in Nat \ {0}
    <3>1. dataset.shape[d] \in Nat /\ U64 \in Nat /\ dataset.chunk_shape[d] \in Nat \ {0}
      BY <1>1, SizeType
    <3> QED
      BY <1>1, <3>1 DEF IsBoxed, IsBox
  <2>4. bounds_min[d] <= bounds_max[d]
    BY <2>2, <2>3
  <2>5. bounds_min[d] \div dataset.chunk_shape[d] <= bounds_max[d] \div dataset.chunk_shape[d]
    <3>1. bounds_min[d] \in Int /\ bounds_max[d] \in Int
      BY <2>3
    <3> QED
      BY <2>3, <2>4, <3>1, DivMonotone
  <2> QED
    BY <2>4, <2>5 DEF ChunkMin, ChunkMax
<1> QED
  BY <1>2 DEF IsUpright

(* The number of chunks is the product of the box's extents.                *)
LEMMA CountIsVolume ==
  ASSUME Wellformed, IsBoxed, IsUpright
  PROVE  CountChunks(bounds_min, bounds_max) = Volume(DimLen)
<1> DEFINE f == [d \in AllDims |->
                   Upper(0, bounds_max[d] \div dataset.chunk_shape[d]
                            - bounds_min[d] \div dataset.chunk_shape[d]) + 1]
<1>1. ASSUME NEW d \in AllDims
      PROVE  f[d] = DimLen[d]
  <2>1. /\ ChunkMin[d] \in Nat /\ ChunkMax[d] \in Nat /\ ChunkMin[d] <= ChunkMax[d]
        /\ DimLen[d] = ChunkMax[d] - ChunkMin[d] + 1
    BY ExtentType DEF IsUpright
  <2>2. f[d] = Upper(0, ChunkMax[d] - ChunkMin[d]) + 1
    BY DEF ChunkMin, ChunkMax
  <2> HIDE DEF f
  <2> QED
    BY <2>1, <2>2 DEF Upper
<1>2. DimLen = [d \in AllDims |-> DimLen[d]]
  BY DEF DimLen
<1>3. f = DimLen
  BY <1>1, <1>2
<1>4. CountChunks(bounds_min, bounds_max) = Volume(f)
  BY DEF CountChunks
<1> HIDE DEF f
<1> QED
  BY <1>3, <1>4

(* plan_read_geo foretells the number of chunks that the same query reads,   *)
(* and get_chunk_pos's divisions enumerate them as GridIterator::next does,  *)
(* whatever the rank and the extents of the box.                            *)
THEOREM ChunksAsPlanned == Spec => []PlanExact
<1>1. QueryInv => PlanExact
  <2> SUFFICES ASSUME QueryInv, Answerable
               PROVE  /\ phase = "done" => Len(fetched) = planned
                      /\ \A i \in 2 .. Len(fetched) : fetched[i] = NextPos(fetched[i - 1])
    BY DEF PlanExact
  <2>1. Opening /\ Bounding /\ Reading
    BY DEF QueryInv
  <2>3. ASSUME NEW i \in 2 .. Len(fetched)
        PROVE  fetched[i] = NextPos(fetched[i - 1])
    <3>1. /\ num_chunks \in Nat /\ chunk_idx \in 0 .. num_chunks /\ Len(fetched) = chunk_idx
          /\ \A j \in 1 .. chunk_idx : fetched[j] = GetChunkPos(j - 1)
      BY <2>1 DEF Reading
    <3>2. chunk_idx # 0
      BY <3>1
    <3>3. Bounded
      BY <2>1, <3>2 DEF Bounding, Unbound
    <3>4. Wellformed /\ IsBoxed /\ IsUpright
      BY <2>1, <3>3, BoundFacts, AnswerableUpright
    <3>5. num_chunks = Volume(DimLen)
      BY <3>3, <3>4, CountIsVolume DEF Bounded, Counted
    <3> DEFINE k == i - 2
    <3>6. k \in Nat /\ k + 1 = i - 1 /\ k + 1 < num_chunks /\ (i - 1) - 1 = k
      BY <3>1
    <3>7. GetChunkPos(k + 1) = NextPos(GetChunkPos(k))
      <4> HIDE DEF k
      <4> QED
        BY <3>4, <3>5, <3>6, PositionAfter
    <3>8. i \in 1 .. chunk_idx /\ i - 1 \in 1 .. chunk_idx
      BY <3>1
    <3>9. fetched[i] = GetChunkPos(i - 1) /\ fetched[i - 1] = GetChunkPos((i - 1) - 1)
      BY <3>1, <3>8
    <3> HIDE DEF k
    <3> QED
      BY <3>6, <3>7, <3>9
  <2>4. ASSUME phase = "done"
        PROVE  Len(fetched) = planned
    <3>1. Bounded
      BY <2>1, <2>4 DEF Bounding, Unbound
    <3> QED
      BY <2>1, <2>4, <3>1 DEF Bounded, Counted, Reading
  <2> QED
    BY <2>3, <2>4
<1> QED
  BY <1>1, QueryInvariant, PTL

-----------------------------------------------------------------------------
(* The cells of the chunks.                                                *)

IsOrdered == \A d \in AllDims : bounds_min[d] <= bounds_max[d]
IsChunk(pos) ==
  pos \in [AllDims -> Nat] /\ \A d \in AllDims : pos[d] \in ChunkMin[d] .. ChunkMax[d]
InBox(cell) ==
  cell = [d \in AllDims |-> cell[d]] /\ \A d \in AllDims : cell[d] \in Box(d)

SizeOf(pos) == Volume(SubsetShape(pos))
CellAt(pos, j) == [d \in AllDims |-> GlobalCoord(Info(pos), d, j)]

(* A chunk's indices are those whose quotient by its length is its position. *)
LEMMA QuotientIs ==
  ASSUME NEW c \in Nat \ {0}, NEW x \in Int
  PROVE  /\ x * c \in Int /\ (x + 1) * c = x * c + c
         /\ \A i \in Int : /\ i \div c \in Int
                           /\ i \div c >= x <=> i >= x * c
                           /\ i \div c <= x <=> i <= x * c + c - 1
                           /\ i \div c = x <=> x * c <= i /\ i <= x * c + c - 1
<1>1. PICK y \in Int : y = x * c
  OBVIOUS
<1>2. (x + 1) * c = x * c + c
  OBVIOUS
<1>3. ASSUME NEW i \in Int
      PROVE  /\ i \div c \in Int
             /\ i \div c >= x <=> i >= y
             /\ i \div c <= x <=> i <= y + c - 1
  <2>1. i \div c \in Int /\ \A k \in Int : k * c <= i <=> k <= i \div c
    BY DivPositive
  <2>2. PICK q \in Int : q = i \div c
    BY <2>1
  <2>3. y <= i <=> x <= q
    BY <1>1, <2>1, <2>2
  <2>4. y + c <= i <=> x + 1 <= q
    <3>1. x + 1 \in Int
      OBVIOUS
    <3>2. (x + 1) * c <= i <=> x + 1 <= i \div c
      BY <2>1, <3>1
    <3> QED
      BY <1>1, <1>2, <2>2, <3>2
  <2> QED
    BY <2>2, <2>3, <2>4
<1>4. \A i \in Int : i \div c = x <=> y <= i /\ i <= y + c - 1
  <2>1. ASSUME NEW i \in Int
        PROVE  i \div c = x <=> y <= i /\ i <= y + c - 1
    <3>1. PICK q \in Int : q = i \div c
      BY <1>3
    <3>2. (q >= x <=> i >= y) /\ (q <= x <=> i <= y + c - 1)
      BY <1>3, <3>1
    <3> QED
      BY <3>1, <3>2
  <2> QED
    BY <2>1
<1> QED
  BY <1>1, <1>2, <1>3, <1>4

(* The part of a chunk that lies in the box is not empty, and is an index    *)
(* range per dimension: the box's indices that belong to the chunk.          *)
LEMMA PartOfBox ==
  ASSUME Wellformed, IsBoxed, IsOrdered, NEW pos, IsChunk(pos), NEW d \in AllDims
  PROVE  /\ SubsetLo(pos)[d] \in Nat /\ SubsetShape(pos)[d] \in Nat \ {0}
         /\ \A i \in Int :
              i \in SubsetLo(pos)[d] .. SubsetLo(pos)[d] + SubsetShape(pos)[d] - 1
                <=> i \in Box(d) /\ i \div dataset.chunk_shape[d] = pos[d]
<1>1. PICK c \in Nat \ {0} : c = dataset.chunk_shape[d]
  BY SizeType
<1>2. bounds_min[d] \in Nat /\ bounds_max[d] \in Nat
  <2>1. dataset.shape[d] \in Nat /\ U64 \in Nat
    BY SizeType
  <2> QED
    BY <2>1 DEF IsBoxed, IsBox
<1>3. PICK a, b \in Nat : a = bounds_min[d] /\ b = bounds_max[d] /\ a <= b
  BY <1>2 DEF IsOrdered
<1>4. PICK x \in Nat : x = pos[d] /\ a \div c <= x /\ x <= b \div c
  <2>1. pos[d] \in Nat /\ ChunkMin[d] = a \div c /\ ChunkMax[d] = b \div c
    BY <1>1, <1>3 DEF IsChunk, ChunkMin, ChunkMax
  <2>2. a \div c \in Int /\ b \div c \in Int
    <3>1. a \in Int /\ b \in Int
      OBVIOUS
    <3> QED
      BY <3>1, DivPositive
  <2>3. pos[d] \in ChunkMin[d] .. ChunkMax[d]
    BY DEF IsChunk
  <2> QED
    BY <2>1, <2>2, <2>3
<1>5. PICK y \in Nat : y = x * c
  OBVIOUS
<1>6. /\ (x + 1) * c = y + c
      /\ \A i \in Int : /\ i \div c \in Int
                        /\ i \div c >= x <=> i >= y
                        /\ i \div c <= x <=> i <= y + c - 1
                        /\ i \div c = x <=> y <= i /\ i <= y + c - 1
  <2>1. x \in Int
    OBVIOUS
  <2> QED
    BY <1>5, <2>1, QuotientIs
<1>7. a <= y + c - 1 /\ b >= y
  <2>1. a \in Int /\ b \in Int
    OBVIOUS
  <2>2. (a \div c <= x <=> a <= y + c - 1) /\ (b \div c >= x <=> b >= y)
    BY <1>6, <2>1
  <2>3. b \div c \in Int
    BY <1>6, <2>1
  <2> QED
    BY <1>4, <2>2, <2>3
<1>8. /\ SubsetLo(pos)[d] = Upper(a, y)
      /\ SubsetHi(pos)[d] = Lower(b, y + c - 1)
      /\ SubsetShape(pos)[d] = SubsetHi(pos)[d] - SubsetLo(pos)[d] + 1
  <2>1. SubsetLo(pos)[d] = Upper(a, x * c)
    BY <1>1, <1>3, <1>4 DEF SubsetLo
  <2>2. SubsetHi(pos)[d] = Lower(b, (x + 1) * c - 1)
    BY <1>1, <1>3, <1>4 DEF SubsetHi
  <2>3. SubsetShape(pos)[d] = SubsetHi(pos)[d] - SubsetLo(pos)[d] + 1
    BY DEF SubsetShape
  <2> QED
    BY <1>5, <1>6, <2>1, <2>2, <2>3
<1>9. PICK lo, hi \in Nat : /\ lo = SubsetLo(pos)[d] /\ hi = SubsetHi(pos)[d] /\ lo <= hi
                            /\ lo = Upper(a, y) /\ hi = Lower(b, y + c - 1)
  <2>1. Upper(a, y) \in Nat /\ Lower(b, y + c - 1) \in Nat /\ Upper(a, y) <= Lower(b, y + c - 1)
    BY <1>3, <1>7 DEF Upper, Lower
  <2> QED
    BY <1>8, <2>1
<1>10. ASSUME NEW i \in Int
       PROVE  i \in lo .. hi <=> i \in Box(d) /\ i \div dataset.chunk_shape[d] = pos[d]
  <2>1. i \div c = x <=> y <= i /\ i <= y + c - 1
    BY <1>6
  <2>2. i \in lo .. hi <=> a <= i /\ i <= b /\ y <= i /\ i <= y + c - 1
    BY <1>9 DEF Upper, Lower
  <2>3. i \in Box(d) <=> a <= i /\ i <= b
    BY <1>3 DEF Box
  <2> QED
    BY <1>1, <1>4, <2>1, <2>2, <2>3
<1>11. SubsetShape(pos)[d] = hi - lo + 1 /\ lo + (hi - lo + 1) - 1 = hi
  BY <1>8, <1>9
<1> QED
  BY <1>9, <1>10, <1>11


(* The elements of a chunk's subset are the cells of the box that belong to  *)
(* the chunk, each once.                                                   *)
LEMMA CellsOfChunk ==
  ASSUME Wellformed, IsBoxed, IsOrdered, NEW pos, IsChunk(pos)
  PROVE  /\ SizeOf(pos) \in Nat \ {0}
         /\ \A j \in 0 .. SizeOf(pos) - 1 :
              InBox(CellAt(pos, j)) /\ ChunkOf(CellAt(pos, j)) = pos
         /\ \A i, j \in 0 .. SizeOf(pos) - 1 : CellAt(pos, i) = CellAt(pos, j) => i = j
         /\ \A cell : InBox(cell) /\ ChunkOf(cell) = pos =>
              \E j \in 0 .. SizeOf(pos) - 1 : CellAt(pos, j) = cell
<1> DEFINE L == SubsetShape(pos)
           p == ProductAfter(L)
           lo == SubsetLo(pos)
<1>1. /\ Rank \in Nat /\ AllDims = 1 .. Rank
      /\ \A d \in AllDims : lo[d] \in Nat /\ L[d] \in Nat \ {0}
  BY PartOfBox DEF Wellformed, AllDims
<1>2. \A d \in AllDims : \A i \in Int :
        i \in lo[d] .. lo[d] + L[d] - 1 <=> i \in Box(d) /\ i \div dataset.chunk_shape[d] = pos[d]
  BY PartOfBox
<1>3. \A d \in AllDims : \A j : GlobalCoord(Info(pos), d, j) = lo[d] + Digit(L, p, d, j)
  BY DEF GlobalCoord, Info, Strides, Digit
<1>4. CellAt(pos, 0) = CellAt(pos, 0) /\ SizeOf(pos) = p[0]
  BY DEF SizeOf, Volume
<1>5. pos = [d \in AllDims |-> pos[d]]
  BY DEF IsChunk
<1>6. \A d \in AllDims : Box(d) \subseteq Int
  <2>1. \A a, b : a .. b \subseteq Int
    OBVIOUS
  <2> QED
    BY <2>1 DEF Box
<1> HIDE DEF L, lo
<1>7. IsAfter(p, L, Rank)
  BY <1>1, ProductsAre
<1> HIDE DEF p
<1>8. p[0] \in Nat \ {0}
  <2>1. 0 \in 0 .. Rank
    BY <1>1
  <2> QED
    BY <1>7, <2>1 DEF IsAfter
<1>13. /\ \A i, j \in 0 .. p[0] - 1 :
            (\A d \in 1 .. Rank : Digit(L, p, d, i) = Digit(L, p, d, j)) => i = j
       /\ \A c : (\A d \in 1 .. Rank : c[d] \in 0 .. L[d] - 1) =>
            \E j \in 0 .. p[0] - 1 : \A d \in 1 .. Rank : Digit(L, p, d, j) = c[d]
       /\ \A j \in 0 .. p[0] - 1 : \A d \in 1 .. Rank : Digit(L, p, d, j) \in 0 .. L[d] - 1
  <2>1. \A d \in 1 .. Rank : L[d] \in Nat \ {0}
    BY <1>1
  <2> QED
    BY <1>1, <1>7, <2>1, RowMajor
<1>9. \A j : CellAt(pos, j) = [d \in AllDims |-> lo[d] + Digit(L, p, d, j)]
  BY <1>3 DEF CellAt
<1>10. ASSUME NEW j \in 0 .. p[0] - 1
       PROVE  InBox(CellAt(pos, j)) /\ ChunkOf(CellAt(pos, j)) = pos
  <2>1. ASSUME NEW d \in AllDims
        PROVE  CellAt(pos, j)[d] \in Box(d) /\ CellAt(pos, j)[d] \div dataset.chunk_shape[d] = pos[d]
    <3>1. Digit(L, p, d, j) \in 0 .. L[d] - 1
      BY <1>1, <1>13
    <3>2. PICK x \in Nat, m \in Nat \ {0}, e \in Nat :
            e <= m - 1 /\ x = lo[d] /\ m = L[d] /\ e = Digit(L, p, d, j)
      BY <1>1, <3>1
    <3>3. CellAt(pos, j)[d] = x + e
      BY <1>9, <3>2
    <3>4. x + e \in Int /\ x + e \in x .. x + m - 1
      BY <3>2
    <3> QED
      BY <1>2, <3>2, <3>3, <3>4
  <2>2. CellAt(pos, j) = [d \in AllDims |-> CellAt(pos, j)[d]]
    BY DEF CellAt
  <2> QED
    BY <1>5, <2>1, <2>2 DEF InBox, ChunkOf
<1>11. ASSUME NEW i \in 0 .. p[0] - 1, NEW j \in 0 .. p[0] - 1, CellAt(pos, i) = CellAt(pos, j)
       PROVE  i = j
  <2>1. ASSUME NEW d \in 1 .. Rank
        PROVE  Digit(L, p, d, i) = Digit(L, p, d, j)
    <3>1. d \in AllDims
      BY <1>1
    <3>2. Digit(L, p, d, i) \in 0 .. L[d] - 1 /\ Digit(L, p, d, j) \in 0 .. L[d] - 1
      BY <1>1, <1>13
    <3>3. CellAt(pos, i)[d] = lo[d] + Digit(L, p, d, i) /\ CellAt(pos, j)[d] = lo[d] + Digit(L, p, d, j)
      BY <1>9, <3>1
    <3>4. PICK x, e, g \in Int : x = lo[d] /\ e = Digit(L, p, d, i) /\ g = Digit(L, p, d, j)
      BY <1>1, <3>1, <3>2
    <3> QED
      BY <1>11, <3>3, <3>4
  <2> QED
    BY <1>1, <1>13, <2>1
<1>12. ASSUME NEW cell, InBox(cell), ChunkOf(cell) = pos
       PROVE  \E j \in 0 .. p[0] - 1 : CellAt(pos, j) = cell
  <2> DEFINE c == [d \in AllDims |-> cell[d] - lo[d]]
  <2>1. ASSUME NEW d \in AllDims
        PROVE  /\ cell[d] \in Int /\ c[d] \in 0 .. L[d] - 1 /\ lo[d] + c[d] = cell[d]
    <3>1. cell[d] \in Box(d) /\ cell[d] \div dataset.chunk_shape[d] = pos[d]
      BY <1>12 DEF InBox, ChunkOf
    <3>2. cell[d] \in Int
      BY <1>6, <3>1
    <3>3. PICK x \in Nat, m \in Nat \ {0}, e \in Int : x = lo[d] /\ m = L[d] /\ e = cell[d]
      BY <1>1, <3>2
    <3>4. e \in x .. x + m - 1
      BY <1>2, <3>1, <3>3
    <3> QED
      BY <3>3, <3>4
  <2> HIDE DEF c
  <2>2. PICK j \in 0 .. p[0] - 1 : \A d \in 1 .. Rank : Digit(L, p, d, j) = c[d]
    BY <1>1, <1>13, <2>1
  <2>3. CellAt(pos, j) = [d \in AllDims |-> cell[d]]
    <3>1. \A d \in AllDims : lo[d] + Digit(L, p, d, j) = cell[d]
      BY <1>1, <2>1, <2>2
    <3> QED
      BY <1>9, <3>1
  <2> QED
    BY <1>12, <2>3 DEF InBox
<1> QED
  BY <1>4, <1>8, <1>10, <1>11, <1>12

(* get_chunk_pos enumerates the chunks of an upright box, each once.         *)
LEMMA ChunksOfBox ==
  ASSUME Wellformed, IsBoxed, IsUpright
  PROVE  /\ Volume(DimLen) \in Nat \ {0}
         /\ \A k \in 0 .. Volume(DimLen) - 1 : IsChunk(GetChunkPos(k))
         /\ \A k, l \in 0 .. Volume(DimLen) - 1 : GetChunkPos(k) = GetChunkPos(l) => k = l
         /\ \A pos : IsChunk(pos) =>
              \E k \in 0 .. Volume(DimLen) - 1 : GetChunkPos(k) = pos
<1> DEFINE L == DimLen
           p == ProductAfter(L)
           lo == ChunkMin
<1>1. /\ Rank \in Nat /\ AllDims = 1 .. Rank
      /\ \A d \in AllDims : /\ lo[d] \in Nat /\ L[d] \in Nat \ {0}
                            /\ ChunkMax[d] = lo[d] + (L[d] - 1)
  <2>1. ASSUME NEW d \in AllDims
        PROVE  lo[d] \in Nat /\ L[d] \in Nat \ {0} /\ ChunkMax[d] = lo[d] + (L[d] - 1)
    <3>1. /\ ChunkMin[d] \in Nat /\ ChunkMax[d] \in Nat /\ ChunkMin[d] <= ChunkMax[d]
          /\ DimLen[d] = ChunkMax[d] - ChunkMin[d] + 1
      BY ExtentType DEF IsUpright
    <3> QED
      BY <3>1
  <2> QED
    BY <2>1 DEF Wellformed, AllDims
<1>2. Volume(DimLen) = p[0]
  BY DEF Volume
<1>3. \A k : GetChunkPos(k) = [d \in AllDims |-> lo[d] + (Quotients(k)[d] % L[d])]
  BY DEF GetChunkPos
<1>4. ASSUME NEW k \in Nat
      PROVE  IsDigits(Quotients(k), L, Rank, k)
  <2>1. /\ Quotients(k) \in [0 .. Rank -> Nat] /\ Quotients(k)[Rank] = k
        /\ \A d \in AllDims : Quotients(k)[d - 1] = Quotients(k)[d] \div DimLen[d]
    BY <1>1, QuotientsType
  <2> QED
    BY <1>1, <2>1 DEF IsDigits
<1> HIDE DEF L, lo
<1>5. IsAfter(p, L, Rank)
  BY <1>1, ProductsAre
<1> HIDE DEF p
<1>6. p[0] \in Nat \ {0}
  <2>1. 0 \in 0 .. Rank
    BY <1>1
  <2> QED
    BY <1>5, <2>1 DEF IsAfter
<1>7. ASSUME NEW k \in 0 .. p[0] - 1
      PROVE  GetChunkPos(k) = [d \in AllDims |-> lo[d] + Digit(L, p, d, k)]
  <2>1. k \in Nat
    BY <1>6
  <2>2. \A d \in 0 .. Rank : Quotients(k)[d] = k \div p[d]
    BY <1>1, <1>4, <1>5, <2>1, DigitsDivide
  <2>3. \A d \in AllDims : Quotients(k)[d] % L[d] = Digit(L, p, d, k)
    <3>1. \A d \in AllDims : d \in 0 .. Rank
      BY <1>1
    <3> QED
      BY <2>2, <3>1 DEF Digit
  <2> QED
    BY <1>3, <2>3
<1>12. /\ \A i, j \in 0 .. p[0] - 1 :
            (\A d \in 1 .. Rank : Digit(L, p, d, i) = Digit(L, p, d, j)) => i = j
       /\ \A c : (\A d \in 1 .. Rank : c[d] \in 0 .. L[d] - 1) =>
            \E j \in 0 .. p[0] - 1 : \A d \in 1 .. Rank : Digit(L, p, d, j) = c[d]
       /\ \A j \in 0 .. p[0] - 1 : \A d \in 1 .. Rank : Digit(L, p, d, j) \in 0 .. L[d] - 1
  <2>1. \A d \in 1 .. Rank : L[d] \in Nat \ {0}
    BY <1>1
  <2> QED
    BY <1>1, <1>5, <2>1, RowMajor, ZenonT(60)
<1>8. \A k \in 0 .. p[0] - 1 : \A d \in AllDims : Digit(L, p, d, k) \in 0 .. L[d] - 1
  BY <1>1, <1>12
<1>9. ASSUME NEW k \in 0 .. p[0] - 1
      PROVE  IsChunk(GetChunkPos(k))
  <2>1. ASSUME NEW d \in AllDims
        PROVE  lo[d] + Digit(L, p, d, k) \in Nat /\ lo[d] + Digit(L, p, d, k) \in lo[d] .. ChunkMax[d]
    <3>1. PICK x \in Nat, m \in Nat \ {0}, e \in Nat :
            e <= m - 1 /\ x = lo[d] /\ m = L[d] /\ e = Digit(L, p, d, k) /\ ChunkMax[d] = x + (m - 1)
      BY <1>1, <1>8, SMTT(30)
    <3> QED
      BY <3>1
  <2> QED
    BY <1>7, <2>1 DEF IsChunk, lo
<1>10. ASSUME NEW k \in 0 .. p[0] - 1, NEW l \in 0 .. p[0] - 1, GetChunkPos(k) = GetChunkPos(l)
       PROVE  k = l
  <2>1. ASSUME NEW d \in 1 .. Rank
        PROVE  Digit(L, p, d, k) = Digit(L, p, d, l)
    <3>4. Digit(L, p, d, k) \in 0 .. L[d] - 1 /\ Digit(L, p, d, l) \in 0 .. L[d] - 1
      BY <1>12
    <3>1. PICK x, e, g \in Int : x = lo[d] /\ e = Digit(L, p, d, k) /\ g = Digit(L, p, d, l)
      BY <1>1, <3>4
    <3>2. GetChunkPos(k)[d] = x + e /\ GetChunkPos(l)[d] = x + g
      BY <1>1, <1>7, <3>1
    <3> QED
      BY <1>10, <3>1, <3>2
  <2> QED
    BY <1>1, <1>12, <2>1
<1>11. ASSUME NEW pos, IsChunk(pos)
       PROVE  \E k \in 0 .. p[0] - 1 : GetChunkPos(k) = pos
  <2> DEFINE c == [d \in AllDims |-> pos[d] - lo[d]]
  <2>1. ASSUME NEW d \in AllDims
        PROVE  c[d] \in 0 .. L[d] - 1 /\ lo[d] + c[d] = pos[d]
    <3>1. pos[d] \in Nat /\ pos[d] \in lo[d] .. ChunkMax[d]
      BY <1>11 DEF IsChunk, lo
    <3>2. PICK x \in Nat : x = lo[d]
      BY <1>1
    <3>3. PICK m \in Nat \ {0} : m = L[d]
      BY <1>1
    <3>4. ChunkMax[d] = x + (m - 1)
      BY <1>1, <3>2, <3>3
    <3>5. PICK e \in Int : e = pos[d]
      BY <3>1
    <3>6. e \in x .. x + (m - 1)
      BY <3>1, <3>2, <3>4, <3>5
    <3> QED
      BY <3>2, <3>3, <3>5, <3>6
  <2> HIDE DEF c
  <2>2. PICK k \in 0 .. p[0] - 1 : \A d \in 1 .. Rank : Digit(L, p, d, k) = c[d]
    BY <1>1, <1>12, <2>1
  <2>3. GetChunkPos(k) = [d \in AllDims |-> pos[d]]
    BY <1>1, <1>7, <2>1, <2>2
  <2> QED
    BY <1>11, <2>3 DEF IsChunk
<1> QED
  BY <1>2, <1>6, <1>9, <1>10, <1>11

Cell(k, j) == CellAt(GetChunkPos(k), j)
Size(k) == SizeOf(GetChunkPos(k))
IsPlace(k, j) == k \in 0 .. Volume(DimLen) - 1 /\ j \in 0 .. Size(k) - 1

PlacesSized ==
  /\ Volume(DimLen) \in Nat \ {0}
  /\ \A k \in 0 .. Volume(DimLen) - 1 : Size(k) \in Nat \ {0}
PlacesInBox == \A k, j : IsPlace(k, j) => InBox(Cell(k, j))
PlacesDistinct ==
  \A k, j, l, i : IsPlace(k, j) /\ IsPlace(l, i) /\ Cell(k, j) = Cell(l, i) => k = l /\ i = j
PlacesCover == \A cell : InBox(cell) => \E k, j : IsPlace(k, j) /\ Cell(k, j) = cell

(* A box whose ends are in order has its chunks in order.                   *)
LEMMA OrderedUpright ==
  ASSUME Wellformed, IsBoxed, IsOrdered
  PROVE  /\ IsUpright
         /\ \A cell : InBox(cell) => IsChunk(ChunkOf(cell))
<1>1. ASSUME NEW d \in AllDims
      PROVE  /\ dataset.chunk_shape[d] \in Nat \ {0}
             /\ bounds_min[d] \in Nat /\ bounds_max[d] \in Nat /\ bounds_min[d] <= bounds_max[d]
  <2>1. dataset.shape[d] \in Nat /\ U64 \in Nat /\ dataset.chunk_shape[d] \in Nat \ {0}
    BY SizeType
  <2> QED
    BY <2>1 DEF IsBoxed, IsBox, IsOrdered
<1>2. IsUpright
  <2>1. ASSUME NEW d \in AllDims
        PROVE  bounds_min[d] \div dataset.chunk_shape[d] <= bounds_max[d] \div dataset.chunk_shape[d]
    <3>1. bounds_min[d] \in Int /\ bounds_max[d] \in Int
      BY <1>1
    <3> QED
      BY <1>1, <3>1, DivMonotone
  <2> QED
    BY <2>1 DEF IsUpright, ChunkMin, ChunkMax
<1>3. ASSUME NEW cell, InBox(cell)
      PROVE  IsChunk(ChunkOf(cell))
  <2>1. ASSUME NEW d \in AllDims
        PROVE  /\ cell[d] \div dataset.chunk_shape[d] \in Nat
               /\ cell[d] \div dataset.chunk_shape[d] \in ChunkMin[d] .. ChunkMax[d]
    <3>1. PICK c \in Nat \ {0} : c = dataset.chunk_shape[d]
      BY <1>1
    <3>2. PICK a, b \in Nat : a = bounds_min[d] /\ b = bounds_max[d]
      BY <1>1
    <3>3. PICK i \in Nat : i = cell[d] /\ a <= i /\ i <= b
      <4>1. cell[d] \in a .. b
        BY <1>3, <3>2 DEF InBox, Box
      <4> QED
        BY <4>1
    <3>4. a \in Int /\ b \in Int /\ i \in Int
      OBVIOUS
    <3>5. /\ a \div c \in Int /\ i \div c \in Int /\ b \div c \in Int
          /\ a \div c <= i \div c /\ i \div c <= b \div c
      BY <3>3, <3>4, DivMonotone
    <3>6. i \div c \in Nat
      OBVIOUS
    <3>7. ChunkMin[d] = a \div c /\ ChunkMax[d] = b \div c
      BY <3>1, <3>2 DEF ChunkMin, ChunkMax
    <3> QED
      BY <3>1, <3>3, <3>5, <3>6, <3>7
  <2> QED
    BY <2>1 DEF IsChunk, ChunkOf
<1> QED
  BY <1>2, <1>3

(* Each cell of the box is one element of one chunk.                        *)
LEMMA CellsOfBox ==
  ASSUME Wellformed, IsBoxed, IsOrdered
  PROVE  PlacesSized /\ PlacesInBox /\ PlacesDistinct /\ PlacesCover
<1>1. /\ Volume(DimLen) \in Nat \ {0}
      /\ \A k \in 0 .. Volume(DimLen) - 1 : IsChunk(GetChunkPos(k))
      /\ \A k, l \in 0 .. Volume(DimLen) - 1 : GetChunkPos(k) = GetChunkPos(l) => k = l
      /\ \A pos : IsChunk(pos) => \E k \in 0 .. Volume(DimLen) - 1 : GetChunkPos(k) = pos
  BY OrderedUpright, ChunksOfBox
<1>2. ASSUME NEW k \in 0 .. Volume(DimLen) - 1
      PROVE  /\ Size(k) \in Nat \ {0}
             /\ \A j \in 0 .. Size(k) - 1 :
                  InBox(Cell(k, j)) /\ ChunkOf(Cell(k, j)) = GetChunkPos(k)
             /\ \A i, j \in 0 .. Size(k) - 1 : Cell(k, i) = Cell(k, j) => i = j
             /\ \A cell : InBox(cell) /\ ChunkOf(cell) = GetChunkPos(k) =>
                  \E j \in 0 .. Size(k) - 1 : Cell(k, j) = cell
  <2>1. IsChunk(GetChunkPos(k))
    BY <1>1
  <2> DEFINE pos == GetChunkPos(k)
  <2> HIDE DEF pos
  <2>2. /\ SizeOf(pos) \in Nat \ {0}
        /\ \A j \in 0 .. SizeOf(pos) - 1 :
             InBox(CellAt(pos, j)) /\ ChunkOf(CellAt(pos, j)) = pos
        /\ \A i, j \in 0 .. SizeOf(pos) - 1 : CellAt(pos, i) = CellAt(pos, j) => i = j
        /\ \A cell : InBox(cell) /\ ChunkOf(cell) = pos =>
             \E j \in 0 .. SizeOf(pos) - 1 : CellAt(pos, j) = cell
    BY <2>1, CellsOfChunk DEF pos
  <2> QED
    BY <2>2 DEF pos, Size, Cell
<1>3. ASSUME NEW k, NEW j, IsPlace(k, j)
      PROVE  InBox(Cell(k, j)) /\ ChunkOf(Cell(k, j)) = GetChunkPos(k)
  BY <1>2, <1>3 DEF IsPlace
<1>4. ASSUME NEW k, NEW j, NEW l, NEW i, IsPlace(k, j), IsPlace(l, i), Cell(k, j) = Cell(l, i)
      PROVE  k = l /\ i = j
  <2>1. GetChunkPos(k) = GetChunkPos(l)
    <3>1. ChunkOf(Cell(k, j)) = GetChunkPos(k) /\ ChunkOf(Cell(l, i)) = GetChunkPos(l)
      BY <1>3, <1>4
    <3> QED
      BY <1>4, <3>1
  <2>2. k = l
    BY <1>1, <1>4, <2>1 DEF IsPlace
  <2>3. \A a, b \in 0 .. Size(k) - 1 : Cell(k, a) = Cell(k, b) => a = b
    BY <1>2, <1>4 DEF IsPlace
  <2>4. i \in 0 .. Size(k) - 1 /\ j \in 0 .. Size(k) - 1 /\ Cell(k, i) = Cell(k, j)
    BY <1>4, <2>2 DEF IsPlace
  <2> QED
    BY <2>2, <2>3, <2>4
<1>5. ASSUME NEW cell, InBox(cell)
      PROVE  \E k, j : IsPlace(k, j) /\ Cell(k, j) = cell
  <2>1. IsChunk(ChunkOf(cell))
    BY <1>5, OrderedUpright
  <2>2. PICK k \in 0 .. Volume(DimLen) - 1 : GetChunkPos(k) = ChunkOf(cell)
    BY <1>1, <2>1
  <2>3. PICK j \in 0 .. Size(k) - 1 : Cell(k, j) = cell
    BY <1>2, <1>5, <2>2
  <2> QED
    BY <2>3 DEF IsPlace
<1>6. PlacesSized
  BY <1>1, <1>2 DEF PlacesSized
<1>7. PlacesInBox
  BY <1>3 DEF PlacesInBox
<1>8. PlacesDistinct
  BY <1>4 DEF PlacesDistinct
<1>9. PlacesCover
  BY <1>5 DEF PlacesCover
<1> QED
  BY <1>6, <1>7, <1>8, <1>9

-----------------------------------------------------------------------------
(* The rows.                                                               *)

(* The elements written so far.                                            *)
Told(k, j) ==
  k \in 0 .. chunk_idx - 1 /\ j \in 0 .. (IF k = chunk_idx - 1 THEN cursor ELSE Size(k)) - 1

ChunkHeld ==
  /\ subset_info = Info(GetChunkPos(chunk_idx - 1)) /\ Len(buffer) = Size(chunk_idx - 1)
  /\ phase \in {"scan", "done"} => cursor = Len(buffer)

RowsTold == \A i \in 1 .. Len(rows) : \E k, j : Told(k, j) /\ rows[i].cell = Cell(k, j)
ToldHaveRow == \A k, j : Told(k, j) => \E i \in 1 .. Len(rows) : rows[i].cell = Cell(k, j)
RowsDistinct == \A i, j \in 1 .. Len(rows) : rows[i].cell = rows[j].cell => i = j

RowsExact == IsListed(rows) /\ RowsTold /\ ToldHaveRow /\ RowsDistinct

Telling ==
  /\ chunk_idx = 0 => rows = <<>> /\ phase # "write"
  /\ chunk_idx # 0 /\ IsOrdered => ChunkHeld /\ RowsExact

(* A step that keeps the box keeps the chunks' cells.                       *)
LEMMA SameCells ==
  ASSUME request' = request, UNCHANGED box
  PROVE  /\ IsOrdered' <=> IsOrdered
         /\ \A k : /\ Info(GetChunkPos(k))' = Info(GetChunkPos(k))
                   /\ Size(k)' = Size(k)
                   /\ \A j : Cell(k, j)' = Cell(k, j)
<1>1. dataset' = dataset /\ bounds_min' = bounds_min /\ bounds_max' = bounds_max
  BY DEF box
<1>2. AllDims' = AllDims /\ Rank' = Rank
  BY <1>1, SameQuery
<1>3. IsOrdered' <=> IsOrdered
  BY <1>1, <1>2 DEF IsOrdered
<1>4. \A k : GetChunkPos(k)' = GetChunkPos(k)
  BY SameBox
<1>5. ASSUME NEW k
      PROVE  /\ Info(GetChunkPos(k))' = Info(GetChunkPos(k))
             /\ Size(k)' = Size(k)
             /\ \A j : Cell(k, j)' = Cell(k, j)
  <2>1. GetChunkPos(k)' = GetChunkPos(k)
    BY <1>4
  <2>2. /\ SubsetLo(GetChunkPos(k))' = SubsetLo(GetChunkPos(k))
        /\ SubsetHi(GetChunkPos(k))' = SubsetHi(GetChunkPos(k))
    BY <1>1, <1>2, <2>1 DEF SubsetLo, SubsetHi
  <2>3. SubsetShape(GetChunkPos(k))' = SubsetShape(GetChunkPos(k))
    BY <1>2, <2>2 DEF SubsetShape
  <2>4. ProductAfter(SubsetShape(GetChunkPos(k)))' = ProductAfter(SubsetShape(GetChunkPos(k)))
    BY <1>2, <2>3 DEF ProductAfter, ProductsAfter
  <2>5. Strides(SubsetShape(GetChunkPos(k)))' = Strides(SubsetShape(GetChunkPos(k)))
    BY <1>2, <2>4 DEF Strides
  <2>6. Info(GetChunkPos(k))' = Info(GetChunkPos(k))
    BY <2>2, <2>3, <2>5 DEF Info
  <2>7. Size(k)' = Size(k)
    BY <2>4 DEF Size, SizeOf, Volume
  <2>8. ASSUME NEW j
        PROVE  Cell(k, j)' = Cell(k, j)
    BY <1>2, <2>6 DEF Cell, CellAt, GlobalCoord
  <2> QED
    BY <2>6, <2>7, <2>8
<1> QED
  BY <1>3, <1>5

(* Concatenating listed sequences.                                         *)
LEMMA ListedConcat ==
  ASSUME NEW s, IsListed(s), NEW n \in Nat, NEW t, t = [i \in 1 .. n |-> t[i]]
  PROVE  /\ IsListed(s \o t) /\ Len(s \o t) = Len(s) + n /\ Len(s) \in Nat
         /\ \A i \in 1 .. Len(s) : (s \o t)[i] = s[i]
         /\ \A i \in 1 .. n : (s \o t)[Len(s) + i] = t[i]
<1> DEFINE S == {t[i] : i \in 1 .. n}
           T == ToSet(s) \cup S
           u == s \o t
<1>1. t \in [1 .. n -> S]
  OBVIOUS
<1> HIDE DEF S
<1>2. t \in Seq(S)
  BY <1>1, SeqDef
<1>3. Len(t) = n
  BY <1>1, <1>2
<1>4. s \in Seq(T) /\ t \in Seq(T)
  <2>1. s \in Seq(ToSet(s)) /\ ToSet(s) \subseteq T /\ S \subseteq T
    BY DEF IsListed
  <2> QED
    BY <1>2, <2>1, SeqMonotonic
<1> HIDE DEF T
<1>5. /\ u \in Seq(T) /\ Len(u) = Len(s) + n /\ Len(s) \in Nat /\ DOMAIN u = 1 .. Len(u)
      /\ \A i \in 1 .. Len(s) : u[i] = s[i]
      /\ \A i \in 1 .. n : u[Len(s) + i] = t[i]
  BY <1>3, <1>4
<1> HIDE DEF u
<1>6. IsListed(u)
  <2>1. \A i \in 1 .. Len(u) : u[i] \in ToSet(u)
    BY <1>5 DEF ToSet
  <2>2. u = [i \in 1 .. Len(u) |-> u[i]] /\ Len(u) \in Nat
    BY <1>5
  <2>3. u \in [1 .. Len(u) -> ToSet(u)]
    BY <2>1, <2>2
  <2>4. u \in Seq(ToSet(u))
    BY <2>2, <2>3, SeqDef
  <2> QED
    BY <2>4 DEF IsListed
<1> QED
  BY <1>5, <1>6 DEF u

(* What a state with chunks knows of them.                                  *)
LEMMA ChunkFacts ==
  ASSUME Opening, Bounding, Reading, Writing, Telling, chunk_idx # 0, IsOrdered
  PROVE  /\ num_chunks = Volume(DimLen) /\ num_chunks \in Nat /\ chunk_idx \in 1 .. num_chunks
         /\ PlacesSized /\ PlacesInBox /\ PlacesDistinct /\ PlacesCover
         /\ ChunkHeld /\ RowsExact
         /\ cursor \in 0 .. Size(chunk_idx - 1)
         /\ \A k, j : Told(k, j) => IsPlace(k, j)
<1>1. Bounded
  BY DEF Bounding, Unbound
<1>2. Wellformed /\ IsBoxed
  BY <1>1, BoundFacts
<1>3. PlacesSized /\ PlacesInBox /\ PlacesDistinct /\ PlacesCover
  BY <1>2, CellsOfBox
<1>4. num_chunks = Volume(DimLen)
  BY <1>1, <1>2, OrderedUpright, CountIsVolume DEF Bounded, Counted
<1>5. num_chunks \in Nat /\ chunk_idx \in 1 .. num_chunks
  BY DEF Reading
<1>6. ChunkHeld /\ RowsExact
  BY DEF Telling
<1>7. cursor \in 0 .. Size(chunk_idx - 1)
  BY <1>6 DEF ChunkHeld, Writing
<1>8. ASSUME NEW k, NEW j, Told(k, j)
      PROVE  IsPlace(k, j)
  <2>1. k \in 0 .. num_chunks - 1
    BY <1>5, <1>8 DEF Told
  <2>2. Size(k) \in Nat
    BY <1>3, <1>4, <2>1 DEF PlacesSized
  <2>3. j \in 0 .. Size(k) - 1
    <3>1. CASE k = chunk_idx - 1
      <4>1. PICK z \in Nat : z = Size(k) /\ cursor \in 0 .. z
        BY <1>7, <2>2, <3>1
      <4>2. j \in 0 .. cursor - 1
        BY <1>8, <3>1 DEF Told
      <4> QED
        BY <4>1, <4>2
    <3>2. CASE k # chunk_idx - 1
      BY <1>8, <3>2 DEF Told
    <3> QED
      BY <3>1, <3>2
  <2> QED
    BY <1>4, <2>1, <2>3 DEF IsPlace
<1> QED
  BY <1>3, <1>4, <1>5, <1>6, <1>7, <1>8

(* Reading a chunk tells nothing yet: the one before it has been written.    *)
LEMMA ReadTells ==
  ASSUME Opening, Bounding, Reading, Writing, Telling, request' = request, UNCHANGED box,
         NEW got \in BOOLEAN, ReadChunk(got)
  PROVE  Telling'
<1>1. /\ phase = "scan" /\ chunk_idx < num_chunks /\ Possible
      /\ buffer' = Elements(Pos, got /\ Present) /\ subset_info' = Info(Pos)
      /\ chunk_idx' = chunk_idx + 1 /\ cursor' = 0 /\ phase' = "write" /\ rows' = rows
  BY DEF ReadChunk
<1>2. num_chunks \in Nat /\ chunk_idx \in 0 .. num_chunks
  BY DEF Reading
<1>3. chunk_idx' # 0 /\ chunk_idx' - 1 = chunk_idx /\ Pos = GetChunkPos(chunk_idx)
  BY <1>1, <1>2 DEF Pos
<1>4. SUFFICES ASSUME IsOrdered'
               PROVE  ChunkHeld' /\ RowsExact'
  BY <1>3 DEF Telling
<1>5. /\ IsOrdered
      /\ \A k : /\ Info(GetChunkPos(k))' = Info(GetChunkPos(k)) /\ Size(k)' = Size(k)
                /\ \A j : Cell(k, j)' = Cell(k, j)
  BY <1>4, SameCells
<1>6. Wellformed /\ IsBoxed /\ Bounded
  <2>1. Bounded
    BY <1>1 DEF Bounding, Unbound
  <2> QED
    BY <2>1, BoundFacts
<1>7. PlacesSized /\ num_chunks = Volume(DimLen)
  BY <1>5, <1>6, CellsOfBox, OrderedUpright, CountIsVolume DEF Bounded, Counted
<1>8. Size(chunk_idx) \in Nat
  <2>1. chunk_idx \in 0 .. Volume(DimLen) - 1
    BY <1>1, <1>2, <1>7
  <2> QED
    BY <1>7, <2>1 DEF PlacesSized
<1>9. Len(buffer') = Size(chunk_idx)
  <2>1. Volume(SubsetShape(Pos)) = Size(chunk_idx)
    BY <1>3 DEF Size, SizeOf
  <2> DEFINE e == Elements(Pos, got /\ Present)
             v == Size(chunk_idx)
  <2>2. e = [k \in 1 .. v |-> e[k]]
    BY <2>1 DEF Elements
  <2>3. v \in Nat
    BY <1>8
  <2> DEFINE S == {e[k] : k \in 1 .. v}
  <2> HIDE DEF e, v
  <2>4. e \in [1 .. v -> S]
    BY <2>2
  <2> HIDE DEF S
  <2>5. e \in Seq(S)
    BY <2>3, <2>4, SeqDef
  <2>6. Len(e) = v
    BY <2>3, <2>4, <2>5
  <2> QED
    BY <1>1, <2>6 DEF e, v
<1>10. ChunkHeld'
  <2>1. chunk_idx' - 1 = chunk_idx
    BY <1>3
  <2> QED
    BY <1>1, <1>3, <1>5, <1>9, <2>1 DEF ChunkHeld
<1>11. CASE chunk_idx = 0
  <2>1. rows = <<>>
    BY <1>11 DEF Telling
  <2>2. IsListed(rows)' /\ Len(rows') = 0
    BY <1>1, <2>1 DEF IsListed
  <2>3. \A k, j : ~Told(k, j)'
    BY <1>1, <1>11 DEF Told
  <2> QED
    BY <1>10, <2>2, <2>3 DEF RowsExact, RowsTold, ToldHaveRow, RowsDistinct
<1>12. CASE chunk_idx # 0
  <2>1. ChunkHeld /\ RowsExact /\ cursor = Size(chunk_idx - 1)
    BY <1>1, <1>5, <1>12 DEF Telling, ChunkHeld
  <2>2. ASSUME NEW k, NEW j
        PROVE  Told(k, j)' <=> Told(k, j)
    <3>1. Told(k, j) <=> k \in 0 .. chunk_idx - 1 /\ j \in 0 .. Size(k) - 1
      BY <2>1 DEF Told
    <3>2. Told(k, j)' <=> /\ k \in 0 .. chunk_idx
                          /\ j \in 0 .. (IF k = chunk_idx THEN 0 ELSE Size(k)) - 1
      BY <1>1, <1>3, <1>5 DEF Told
    <3>3. k \in 0 .. chunk_idx <=> k \in 0 .. chunk_idx - 1 \/ k = chunk_idx
      BY <1>2
    <3>4. k \in 0 .. chunk_idx - 1 => k # chunk_idx
      BY <1>2
    <3>5. ~(j \in 0 .. 0 - 1)
      OBVIOUS
    <3> QED
      BY <3>1, <3>2, <3>3, <3>4, <3>5
  <2>3. IsListed(rows)' /\ RowsDistinct'
    BY <1>1, <2>1 DEF RowsExact, RowsDistinct, IsListed
  <2>4. RowsTold' /\ ToldHaveRow'
    <3>1. \A k, j : Cell(k, j)' = Cell(k, j)
      BY <1>5
    <3>2. ASSUME NEW i \in 1 .. Len(rows)
          PROVE  \E k, j : Told(k, j)' /\ rows[i].cell = Cell(k, j)'
      <4>1. PICK k, j : Told(k, j) /\ rows[i].cell = Cell(k, j)
        BY <2>1 DEF RowsExact, RowsTold
      <4>2. Told(k, j)'
        BY <2>2, <4>1
      <4>3. rows[i].cell = Cell(k, j)'
        BY <3>1, <4>1
      <4> QED
        BY <4>2, <4>3
    <3>3. ASSUME NEW k, NEW j, Told(k, j)'
          PROVE  \E i \in 1 .. Len(rows) : rows[i].cell = Cell(k, j)'
      <4>1. Told(k, j)
        BY <2>2, <3>3
      <4>2. PICK i \in 1 .. Len(rows) : rows[i].cell = Cell(k, j)
        BY <2>1, <4>1 DEF RowsExact, ToldHaveRow
      <4> QED
        BY <3>1, <4>2
    <3>4. RowsTold'
      BY <1>1, <3>2 DEF RowsTold
    <3>5. ToldHaveRow'
      BY <1>1, <3>3 DEF ToldHaveRow
    <3> QED
      BY <3>4, <3>5
  <2> QED
    BY <1>10, <2>3, <2>4 DEF RowsExact
<1> QED
  BY <1>11, <1>12

(* A batch adds the next elements of the buffered chunk.                    *)
LEMMA BatchAppends ==
  ASSUME Writing, IsListed(rows), WriteBatch
  PROVE  \E n \in Nat :
           /\ IsListed(rows)' /\ Len(rows') = Len(rows) + n /\ Len(rows) \in Nat
           /\ \A i \in 1 .. Len(rows) : rows'[i] = rows[i]
           /\ \A i \in 1 .. n : rows'[Len(rows) + i].cell =
                [d \in AllDims |-> GlobalCoord(subset_info, d, cursor + i - 1)]
           /\ cursor \in Nat /\ cursor' = cursor + n /\ cursor' <= Len(buffer)
           /\ phase = "write" /\ phase' \in {"scan", "write"}
           /\ phase' = "scan" => cursor' = Len(buffer)
           /\ UNCHANGED <<chunk_idx, buffer, subset_info>>
<1> DEFINE n == Lower(Len(buffer) - cursor, VectorSize - valid_rows)
           dims == query.projected \cap AllDims
           column == [d \in dims |-> PopulateBatch(subset_info, d, cursor, n)]
           batch == [i \in 1 .. n |->
              [cell |-> [d \in AllDims |-> GlobalCoord(subset_info, d, cursor + i - 1)],
               columns |-> [d \in dims |-> column[d][i]],
               value |-> IF Rank + 1 \in query.projected THEN {Value(buffer[cursor + i])}
                         ELSE {}]]
<1>1. /\ phase = "write" /\ cursor' = cursor + n /\ rows' = rows \o batch
      /\ phase' = IF cursor + n >= Len(buffer) THEN "scan" ELSE "write"
      /\ UNCHANGED <<chunk_idx, buffer, subset_info>>
  BY DEF WriteBatch, chunk
<1>2. /\ Len(buffer) \in Nat /\ cursor \in 0 .. Len(buffer) /\ VectorSize \in Nat \ {0}
      /\ valid_rows \in 0 .. VectorSize - 1
  BY ReadAssumption DEF Writing
<1>3. n \in Nat /\ cursor + n <= Len(buffer)
  BY <1>2 DEF Lower
<1>4. batch = [i \in 1 .. n |-> batch[i]]
  OBVIOUS
<1>5. \A i \in 1 .. n : batch[i].cell =
        [d \in AllDims |-> GlobalCoord(subset_info, d, cursor + i - 1)]
  OBVIOUS
<1> HIDE DEF n, batch
<1>6. /\ IsListed(rows \o batch) /\ Len(rows \o batch) = Len(rows) + n /\ Len(rows) \in Nat
      /\ \A i \in 1 .. Len(rows) : (rows \o batch)[i] = rows[i]
      /\ \A i \in 1 .. n : (rows \o batch)[Len(rows) + i] = batch[i]
  <2>1. IsListed(rows) /\ n \in Nat
    BY <1>3
  <2> QED
    BY <1>4, <2>1, ListedConcat, SMTT(30)
<1>7. /\ IsListed(rows)' /\ Len(rows') = Len(rows) + n
      /\ \A i \in 1 .. Len(rows) : rows'[i] = rows[i]
      /\ \A i \in 1 .. n : rows'[Len(rows) + i] = batch[i]
  BY <1>1, <1>6 DEF IsListed
<1>8. \A i \in 1 .. n : rows'[Len(rows) + i].cell =
        [d \in AllDims |-> GlobalCoord(subset_info, d, cursor + i - 1)]
  BY <1>5, <1>7
<1>9. /\ cursor \in Nat /\ cursor' = cursor + n /\ cursor' <= Len(buffer)
      /\ phase' \in {"scan", "write"} /\ (phase' = "scan" => cursor' = Len(buffer))
  BY <1>1, <1>2, <1>3
<1> QED
  BY <1>1, <1>3, <1>6, <1>7, <1>8, <1>9

(* Writing a batch tells its elements, which no row has told before.         *)
LEMMA WriteTells ==
  ASSUME Opening, Bounding, Reading, Writing, Telling, request' = request, UNCHANGED box,
         WriteBatch
  PROVE  Telling'
<1>1. chunk_idx # 0
  BY DEF Telling, WriteBatch
<1>2. SUFFICES ASSUME IsOrdered'
               PROVE  ChunkHeld' /\ RowsExact'
  <2>1. chunk_idx' = chunk_idx
    BY DEF WriteBatch
  <2> QED
    BY <1>1, <2>1 DEF Telling
<1>3. /\ IsOrdered
      /\ \A k : /\ Info(GetChunkPos(k))' = Info(GetChunkPos(k)) /\ Size(k)' = Size(k)
                /\ \A j : Cell(k, j)' = Cell(k, j)
  BY <1>2, SameCells
<1>4. /\ PlacesDistinct /\ ChunkHeld /\ RowsExact /\ chunk_idx \in Nat \ {0}
      /\ cursor \in 0 .. Size(chunk_idx - 1)
      /\ \A k, j : Told(k, j) => IsPlace(k, j)
      /\ chunk_idx - 1 \in 0 .. Volume(DimLen) - 1
  <2>1. /\ num_chunks = Volume(DimLen) /\ num_chunks \in Nat /\ chunk_idx \in 1 .. num_chunks
        /\ PlacesDistinct /\ ChunkHeld /\ RowsExact
        /\ cursor \in 0 .. Size(chunk_idx - 1)
        /\ \A k, j : Told(k, j) => IsPlace(k, j)
    BY <1>1, <1>3, ChunkFacts
  <2>2. chunk_idx \in Nat \ {0} /\ chunk_idx - 1 \in 0 .. num_chunks - 1
    BY <2>1
  <2> QED
    BY <2>1, <2>2
<1>5. PICK n \in Nat :
        /\ IsListed(rows)' /\ Len(rows') = Len(rows) + n /\ Len(rows) \in Nat
        /\ \A i \in 1 .. Len(rows) : rows'[i] = rows[i]
        /\ \A i \in 1 .. n : rows'[Len(rows) + i].cell =
             [d \in AllDims |-> GlobalCoord(subset_info, d, cursor + i - 1)]
        /\ cursor \in Nat /\ cursor' = cursor + n /\ cursor' <= Len(buffer)
        /\ phase = "write" /\ phase' \in {"scan", "write"}
        /\ phase' = "scan" => cursor' = Len(buffer)
        /\ UNCHANGED <<chunk_idx, buffer, subset_info>>
  BY <1>4, BatchAppends DEF RowsExact
<1>14. PICK last \in Nat : last = chunk_idx - 1
  BY <1>4
<1> DEFINE m == Len(rows)
<1>6. ChunkHeld'
  BY <1>3, <1>4, <1>5 DEF ChunkHeld
<1>7. \A i \in 1 .. n : rows'[m + i].cell = Cell(last, cursor + i - 1)
  BY <1>4, <1>5, <1>14 DEF ChunkHeld, Cell, CellAt
<1>15. PICK from, to \in Nat : from = cursor /\ to = cursor + n /\ to = cursor' /\ from <= to
  BY <1>5
<1>8. ASSUME NEW k, NEW j
      PROVE  Told(k, j)' <=> Told(k, j) \/ (k = last /\ j \in cursor .. cursor + n - 1)
  <2>1. Told(k, j) <=> k \in 0 .. last /\ j \in 0 .. (IF k = last THEN from ELSE Size(k)) - 1
    BY <1>14, <1>15 DEF Told
  <2>2. Told(k, j)' <=> k \in 0 .. last /\ j \in 0 .. (IF k = last THEN to ELSE Size(k)) - 1
    BY <1>3, <1>5, <1>14, <1>15 DEF Told
  <2>3. last \in 0 .. last
    OBVIOUS
  <2>4. j \in 0 .. to - 1 <=> j \in 0 .. from - 1 \/ j \in from .. to - 1
    BY <1>15
  <2>5. CASE k = last
    <3>1. Told(k, j) <=> j \in 0 .. from - 1
      BY <2>1, <2>3, <2>5
    <3>2. Told(k, j)' <=> j \in 0 .. to - 1
      BY <2>2, <2>3, <2>5
    <3> QED
      BY <1>15, <2>4, <2>5, <3>1, <3>2
  <2>6. CASE k # last
    BY <2>1, <2>2, <2>6
  <2> QED
    BY <2>5, <2>6
<1>9. \A j \in cursor .. cursor + n - 1 : IsPlace(last, j)
  <2>1. PICK z \in Nat : z = Size(last) /\ cursor + n <= z
    <3>1. Len(buffer) = Size(last) /\ Len(buffer) \in Nat
      BY <1>4, <1>14 DEF ChunkHeld, Writing
    <3> QED
      BY <1>5, <3>1
  <2>2. \A j \in cursor .. cursor + n - 1 : j \in 0 .. z - 1
    BY <1>5, <2>1, SMTT(30)
  <2> QED
    BY <1>4, <1>14, <2>1, <2>2, SMTT(30) DEF IsPlace
<1> HIDE DEF m
<1>10. ASSUME NEW i \in 1 .. Len(rows')
       PROVE  \/ i \in 1 .. m /\ rows'[i] = rows[i]
              \/ i - m \in 1 .. n /\ i = m + (i - m)
                 /\ rows'[i].cell = Cell(last, cursor + (i - m) - 1)
  <2>1. m \in Nat /\ Len(rows') = m + n
    BY <1>5 DEF m
  <2>2. i \in 1 .. m \/ (i - m \in 1 .. n /\ i = m + (i - m))
    BY <2>1
  <2> QED
    BY <1>5, <1>7, <2>2 DEF m
<1>11. RowsTold'
  <2>1. ASSUME NEW i \in 1 .. Len(rows')
        PROVE  \E k, j : Told(k, j)' /\ rows'[i].cell = Cell(k, j)'
    <3>1. CASE i \in 1 .. m /\ rows'[i] = rows[i]
      <4>1. PICK k, j : Told(k, j) /\ rows[i].cell = Cell(k, j)
        BY <1>4, <3>1 DEF RowsExact, RowsTold, m
      <4>2. Told(k, j)' /\ rows'[i].cell = Cell(k, j)'
        BY <1>3, <1>8, <3>1, <4>1
      <4> QED
        BY <4>2
    <3>2. ASSUME i - m \in 1 .. n, rows'[i].cell = Cell(last, cursor + (i - m) - 1)
          PROVE  \E k, j : Told(k, j)' /\ rows'[i].cell = Cell(k, j)'
      <4>1. PICK j \in Nat : j = cursor + (i - m) - 1 /\ j \in cursor .. cursor + n - 1
        BY <1>5, <3>2
      <4>2. Told(last, j)' /\ rows'[i].cell = Cell(last, j)'
        BY <1>3, <1>8, <3>2, <4>1
      <4> QED
        BY <4>2
    <3> QED
      BY <1>10, <3>1, <3>2
  <2> QED
    BY <2>1 DEF RowsTold
<1>12. ToldHaveRow'
  <2>1. ASSUME NEW k, NEW j, Told(k, j)'
        PROVE  \E i \in 1 .. Len(rows') : rows'[i].cell = Cell(k, j)'
    <3>1. CASE Told(k, j)
      <4>1. PICK i \in 1 .. m : rows[i].cell = Cell(k, j)
        BY <1>4, <3>1 DEF RowsExact, ToldHaveRow, m
      <4>2. i \in 1 .. Len(rows') /\ rows'[i] = rows[i]
        BY <1>5 DEF m
      <4> QED
        BY <1>3, <4>1, <4>2
    <3>2. CASE k = last /\ j \in cursor .. cursor + n - 1
      <4>1. PICK a \in 1 .. n : j = cursor + a - 1
        <5>1. j - cursor + 1 \in 1 .. n /\ j = cursor + (j - cursor + 1) - 1
          BY <1>5, <3>2
        <5> QED
          BY <5>1
      <4>2. rows'[m + a].cell = Cell(k, j)
        BY <1>7, <3>2, <4>1
      <4>3. m + a \in 1 .. Len(rows')
        BY <1>5 DEF m
      <4> QED
        BY <1>3, <4>2, <4>3
    <3> QED
      BY <1>8, <2>1, <3>1, <3>2
  <2> QED
    BY <2>1 DEF ToldHaveRow
<1>13. RowsDistinct'
  <2>1. ASSUME NEW i \in 1 .. Len(rows')
        PROVE  \E k, j : /\ IsPlace(k, j) /\ rows'[i].cell = Cell(k, j)
                         /\ \/ i \in 1 .. m /\ rows'[i] = rows[i] /\ Told(k, j)
                            \/ i - m \in 1 .. n /\ k = last /\ j = cursor + (i - m) - 1
    <3>1. CASE i \in 1 .. m /\ rows'[i] = rows[i]
      <4>1. PICK k, j : Told(k, j) /\ rows[i].cell = Cell(k, j)
        BY <1>4, <3>1 DEF RowsExact, RowsTold, m
      <4> QED
        BY <1>4, <3>1, <4>1
    <3>2. ASSUME i - m \in 1 .. n, rows'[i].cell = Cell(last, cursor + (i - m) - 1)
          PROVE  /\ IsPlace(last, cursor + (i - m) - 1)
                 /\ rows'[i].cell = Cell(last, cursor + (i - m) - 1)
      <4>1. cursor + (i - m) - 1 \in cursor .. cursor + n - 1
        BY <1>5, <3>2
      <4> QED
        BY <1>9, <3>2, <4>1
    <3> QED
      BY <1>10, <3>1, <3>2
  <2>2. ASSUME NEW i \in 1 .. Len(rows'), NEW h \in 1 .. Len(rows'), rows'[i].cell = rows'[h].cell
        PROVE  i = h
    <3>1. PICK k, j : /\ IsPlace(k, j) /\ rows'[i].cell = Cell(k, j)
                      /\ \/ i \in 1 .. m /\ rows'[i] = rows[i] /\ Told(k, j)
                         \/ i - m \in 1 .. n /\ k = last /\ j = cursor + (i - m) - 1
      BY <2>1
    <3>2. PICK l, g : /\ IsPlace(l, g) /\ rows'[h].cell = Cell(l, g)
                      /\ \/ h \in 1 .. m /\ rows'[h] = rows[h] /\ Told(l, g)
                         \/ h - m \in 1 .. n /\ l = last /\ g = cursor + (h - m) - 1
      BY <2>1
    <3>3. k = l /\ g = j
      BY <1>4, <2>2, <3>1, <3>2 DEF PlacesDistinct
    <3>4. ~(Told(last, j) /\ j \in cursor .. cursor + n - 1)
      <4>1. Told(last, j) => j \in 0 .. cursor - 1
        BY <1>14 DEF Told
      <4> QED
        BY <1>5, <4>1
    <3>5. \A a \in 1 .. n : cursor + a - 1 \in cursor .. cursor + n - 1
      BY <1>5
    <3>6. CASE i \in 1 .. m /\ h \in 1 .. m
      <4>1. rows[i].cell = rows[h].cell
        <5>1. m \in Int /\ \A a \in 1 .. m : ~(a - m \in 1 .. n)
          BY <1>5 DEF m
        <5> QED
          BY <2>2, <3>1, <3>2, <3>6, <5>1
      <4> QED
        BY <1>4, <3>6, <4>1 DEF RowsExact, RowsDistinct, m
    <3>7. CASE i - m \in 1 .. n /\ h - m \in 1 .. n
      <4>1. m \in Int /\ cursor \in Int /\ \A a \in 1 .. m : ~(a - m \in 1 .. n)
        BY <1>5 DEF m
      <4>2. j = cursor + (i - m) - 1 /\ j = cursor + (h - m) - 1
        BY <3>1, <3>2, <3>3, <3>7, <4>1
      <4>3. i \in Int /\ h \in Int
        BY <1>5 DEF m
      <4> QED
        BY <4>1, <4>2, <4>3
    <3> QED
      BY <3>1, <3>2, <3>3, <3>4, <3>5, <3>6, <3>7
  <2> QED
    BY <2>2 DEF RowsDistinct
<1> QED
  BY <1>5, <1>6, <1>11, <1>12, <1>13 DEF RowsExact

(* The rows are the elements written, each once.                            *)
LEMMA TellingStep ==
  ASSUME Opening, Bounding, Reading, Writing, Telling, [Next]_vars
  PROVE  Telling'
<1>1. request' = request
  BY KeepsBox
<1>2. CASE Open \/ Bind
  <2>1. /\ phase \in {"bind", "open"} /\ phase' # "write"
        /\ UNCHANGED <<chunk_idx, rows>>
    BY <1>2 DEF Open, Bind
  <2>2. chunk_idx = 0
    BY <2>1 DEF Bounding, Bounded, Unbound
  <2> QED
    BY <2>1, <2>2 DEF Telling
<1>3. CASE UNCHANGED box
  <2>1. ASSUME NEW got \in BOOLEAN, ReadChunk(got)
        PROVE  Telling'
    BY <1>1, <1>3, <2>1, ReadTells
  <2>2. CASE WriteBatch
    BY <1>1, <1>3, <2>2, WriteTells
  <2>3. ASSUME UNCHANGED <<chunk_idx, buffer, subset_info, cursor, rows>>,
               phase' = "write" => phase = "write",
               phase' \in {"scan", "done"} => phase \in {"scan", "done"}
        PROVE  Telling'
    <3>1. chunk_idx' = 0 => rows' = <<>> /\ phase' # "write"
      BY <2>3 DEF Telling
    <3>2. ASSUME chunk_idx # 0, IsOrdered'
          PROVE  ChunkHeld' /\ RowsExact'
      <4>1. /\ IsOrdered
            /\ \A k : /\ Info(GetChunkPos(k))' = Info(GetChunkPos(k)) /\ Size(k)' = Size(k)
                      /\ \A j : Cell(k, j)' = Cell(k, j)
        BY <1>1, <1>3, <3>2, SameCells
      <4>2. ChunkHeld /\ RowsExact
        BY <3>2, <4>1 DEF Telling
      <4>3. ChunkHeld'
        BY <2>3, <4>1, <4>2 DEF ChunkHeld
      <4>4. \A k, j : Told(k, j)' <=> Told(k, j)
        BY <2>3, <4>1 DEF Told
      <4>5. IsListed(rows)' /\ RowsDistinct'
        BY <2>3, <4>2 DEF RowsExact, RowsDistinct, IsListed
      <4>6. RowsTold'
        <5>1. ASSUME NEW i \in 1 .. Len(rows)
              PROVE  \E k, j : Told(k, j)' /\ rows[i].cell = Cell(k, j)'
          <6>1. PICK k, j : Told(k, j) /\ rows[i].cell = Cell(k, j)
            BY <4>2 DEF RowsExact, RowsTold
          <6>2. Told(k, j)' /\ rows[i].cell = Cell(k, j)'
            BY <4>1, <4>4, <6>1
          <6> QED
            BY <6>2
        <5> QED
          BY <2>3, <5>1 DEF RowsTold
      <4>7. ToldHaveRow'
        <5>1. ASSUME NEW k, NEW j, Told(k, j)'
              PROVE  \E i \in 1 .. Len(rows) : rows[i].cell = Cell(k, j)'
          <6>1. Told(k, j)
            BY <4>4, <5>1
          <6>2. PICK i \in 1 .. Len(rows) : rows[i].cell = Cell(k, j)
            BY <4>2, <6>1 DEF RowsExact, ToldHaveRow
          <6> QED
            BY <4>1, <6>2
        <5> QED
          BY <2>3, <5>1 DEF ToldHaveRow
      <4> QED
        BY <4>3, <4>5, <4>6, <4>7 DEF RowsExact
    <3> QED
      BY <2>3, <3>1, <3>2 DEF Telling
  <2>4. \/ \E got \in BOOLEAN : ReadChunk(got)
        \/ WriteBatch
        \/ Open \/ Bind
        \/ /\ UNCHANGED <<chunk_idx, buffer, subset_info, cursor, rows>>
           /\ phase' = "write" => phase = "write"
           /\ phase' \in {"scan", "done"} => phase \in {"scan", "done"}
    BY DEF Next, vars, chunk, OpenFails, ReadRefused, ReadFails, WriteFails, EndOfStream, Answered
  <2> QED
    BY <1>2, <2>1, <2>2, <2>3, <2>4
<1> QED
  BY <1>2, <1>3, KeepsBox

(* Every query's rows are the elements of its chunks that it has written.    *)
LEMMA RowsInvariant == Spec => [](QueryInv /\ Telling)
<1>1. Init => Telling
  BY DEF Init, Telling
<1>2. QueryInv /\ Telling /\ [Next]_vars => Telling'
  BY TellingStep DEF QueryInv
<1> QED
  BY <1>1, <1>2, QueryInvariant, PTL DEF Spec

(* A query that is answered has returned every cell of its box once, for any *)
(* rank, any shapes of the array and of its chunks, and any vector size:     *)
(* chunks that straddle the box, ragged last chunks and vectors that end     *)
(* inside a chunk lose no cell and repeat none.                             *)
THEOREM EveryCellOnce == Spec => []CellsOnce
<1>1. QueryInv /\ Telling => CellsOnce
  <2> SUFFICES ASSUME QueryInv, Telling, phase = "done", Answerable
               PROVE  /\ \A i, j \in DOMAIN rows : rows[i].cell = rows[j].cell => i = j
                      /\ {rows[i].cell : i \in DOMAIN rows} =
                           {cell \in [AllDims -> UNION {Box(d) : d \in AllDims}] :
                              \A d \in AllDims : cell[d] \in Box(d)}
    BY DEF CellsOnce
  <2>1. Opening /\ Bounding /\ Reading /\ Writing
    BY DEF QueryInv
  <2>2. Bounded
    BY <2>1 DEF Bounding, Unbound
  <2>3. Wellformed /\ IsBoxed /\ IsOrdered
    BY <2>1, <2>2, BoundFacts, AnswerableUpright DEF IsOrdered
  <2>4. num_chunks = Volume(DimLen) /\ chunk_idx = num_chunks /\ num_chunks \in Nat \ {0}
    <3>1. num_chunks = Volume(DimLen)
      BY <2>2, <2>3, OrderedUpright, CountIsVolume DEF Bounded, Counted
    <3> QED
      BY <2>1, <2>3, <3>1, CellsOfBox DEF Reading, PlacesSized
  <2>5. /\ PlacesInBox /\ PlacesCover /\ ChunkHeld /\ RowsExact
        /\ \A k, j : Told(k, j) => IsPlace(k, j)
    <3>1. chunk_idx # 0
      BY <2>4
    <3> QED
      BY <2>1, <2>3, <3>1, ChunkFacts
  <2>6. \A k, j : IsPlace(k, j) => Told(k, j)
    <3>1. cursor = Size(chunk_idx - 1)
      BY <2>5 DEF ChunkHeld
    <3> QED
      BY <2>4, <3>1 DEF Told, IsPlace
  <2>7. DOMAIN rows = 1 .. Len(rows)
    BY <2>5 DEF RowsExact, IsListed
  <2>8. ASSUME NEW i \in DOMAIN rows
        PROVE  InBox(rows[i].cell)
    <3>1. PICK k, j : Told(k, j) /\ rows[i].cell = Cell(k, j)
      BY <2>5, <2>7 DEF RowsExact, RowsTold
    <3> QED
      BY <2>5, <3>1 DEF PlacesInBox
  <2>9. ASSUME NEW cell, InBox(cell)
        PROVE  \E i \in DOMAIN rows : rows[i].cell = cell
    <3>1. PICK k, j : IsPlace(k, j) /\ Cell(k, j) = cell
      BY <2>5, <2>9 DEF PlacesCover
    <3>2. PICK i \in 1 .. Len(rows) : rows[i].cell = Cell(k, j)
      BY <2>5, <2>6, <3>1 DEF RowsExact, ToldHaveRow
    <3> QED
      BY <2>7, <3>1, <3>2
  <2>10. ASSUME NEW cell
         PROVE  InBox(cell) <=>
                  cell \in {c \in [AllDims -> UNION {Box(d) : d \in AllDims}] :
                              \A d \in AllDims : c[d] \in Box(d)}
    BY DEF InBox
  <2>11. \A i, j \in DOMAIN rows : rows[i].cell = rows[j].cell => i = j
    BY <2>5, <2>7 DEF RowsExact, RowsDistinct
  <2>12. {rows[i].cell : i \in DOMAIN rows} =
           {cell \in [AllDims -> UNION {Box(d) : d \in AllDims}] :
              \A d \in AllDims : cell[d] \in Box(d)}
    BY <2>8, <2>9, <2>10
  <2> QED
    BY <2>11, <2>12
<1> QED
  BY <1>1, RowsInvariant, PTL
-----------------------------------------------------------------------------
(* The coordinate columns of a batch.                                       *)

SumDivides(x, y, m) ==
  /\ (x + y) \div m = (x \div m) + (((x % m) + y) \div m)
  /\ (x + y) % m = ((x % m) + y) % m

(* Division of a sum.                                                       *)
LEMMA DivSum ==
  ASSUME NEW x \in Nat, NEW y \in Nat, NEW m \in Nat \ {0}
  PROVE  SumDivides(x, y, m)
<1> DEFINE a == x \div m
           r == x % m
           b == (r + y) \div m
           s == (r + y) % m
<1>1. a \in Nat /\ r \in 0 .. m - 1 /\ x = a * m + r
  OBVIOUS
<1> HIDE DEF a, r
<1>2. b \in Nat /\ s \in 0 .. m - 1 /\ r + y = b * m + s
  BY <1>1
<1> HIDE DEF b, s
<1>3. PICK c \in Nat : c = a + b
  BY <1>1, <1>2
<1>4. c * m = a * m + b * m /\ a * m \in Int /\ b * m \in Int
  BY <1>1, <1>2, <1>3
<1>5. x + y = c * m + s
  BY <1>1, <1>2, <1>4
<1>6. (c * m + s) \div m = c /\ (c * m + s) % m = s
  <2>1. c \in Int /\ s \in 0 .. m - 1
    BY <1>2, <1>3
  <2> QED
    BY <2>1, DivUnique, SMTT(30)
<1> QED
  BY <1>3, <1>5, <1>6 DEF a, b, r, s, SumDivides

(* Where a run is in its batch: what is left of it, the run's number and    *)
(* the steps made in the run.                                               *)
RunPlaces(n, shape, stride) == (0 .. n) \X (0 .. shape - 1) \X (0 .. stride - 1)

(* A run's rows, and the place after.                                         *)
RunCount(at, stride) == Lower(stride - at[3], at[1])
RunRows(col, at, stride) == [i \in 1 .. RunCount(at, stride) |-> col[at[2]]]

NextRun(at, shape, stride) ==
  LET count == RunCount(at, stride)
      full == at[3] + count = stride
  IN <<at[1] - count, IF full THEN (at[2] + 1) % shape ELSE at[2],
       IF full THEN 0 ELSE at[3] + count>>

IsFill(h, col, n, shape, stride) ==
  h = [at \in RunPlaces(n, shape, stride) |->
         IF at[1] = 0 THEN <<>>
         ELSE RunRows(col, at, stride)
                \o h[NextRun(at, shape, stride)]]

(* The rows left, computed one by one.                                      *)
FilledFrom(col, at, shape, stride) ==
  [i \in 1 .. at[1] |-> col[(at[2] + ((at[3] + i - 1) \div stride)) % shape]]

(* A run and the rows after it are the rows.                                *)
LEMMA RunThenRest ==
  ASSUME NEW shape \in Nat \ {0}, NEW stride \in Nat \ {0}, NEW n \in Nat, NEW col,
         NEW at \in RunPlaces(n, shape, stride), at[1] # 0
  PROVE  /\ RunCount(at, stride) \in 1 .. at[1]
         /\ NextRun(at, shape, stride) \in RunPlaces(n, shape, stride)
         /\ NextRun(at, shape, stride)[1] = at[1] - RunCount(at, stride)
         /\ RunRows(col, at, stride)
              \o FilledFrom(col, NextRun(at, shape, stride), shape, stride)
              = FilledFrom(col, at, shape, stride)
<1>0. PICK left \in 1 .. n, mod \in 0 .. shape - 1, step \in 0 .. stride - 1 :
        left = at[1] /\ mod = at[2] /\ step = at[3]
  <2>1. at[1] \in 0 .. n /\ at[2] \in 0 .. shape - 1 /\ at[3] \in 0 .. stride - 1
    BY DEF RunPlaces
  <2>2. at[1] \in 1 .. n
    BY <2>1
  <2> QED
    BY <2>1, <2>2
<1> DEFINE count == RunCount(at, stride)
           next == NextRun(at, shape, stride)
           run == RunRows(col, at, stride)
           rest == FilledFrom(col, next, shape, stride)
           whole == FilledFrom(col, at, shape, stride)
           full == step + count = stride
<1>1. /\ count \in 1 .. left /\ step + count <= stride /\ (~full => count = left)
      /\ left \in Nat /\ mod \in Nat /\ step \in Nat
  BY <1>0 DEF RunCount, Lower
<1>2. /\ next = <<left - count, IF full THEN (mod + 1) % shape ELSE mod,
                  IF full THEN 0 ELSE step + count>>
  BY <1>0 DEF NextRun
<1> HIDE DEF count, next
<1>3. (mod + 1) % shape \in 0 .. shape - 1
  OBVIOUS
<1>4. next \in RunPlaces(n, shape, stride) /\ next[1] = left - count
  <2>1. left - count \in 0 .. n
    BY <1>1
  <2>2. (IF full THEN (mod + 1) % shape ELSE mod) \in 0 .. shape - 1
    BY <1>3
  <2>3. (IF full THEN 0 ELSE step + count) \in 0 .. stride - 1
    BY <1>1
  <2> QED
    BY <1>2, <2>1, <2>2, <2>3 DEF RunPlaces
<1>5. ASSUME NEW i \in 1 .. count
      PROVE  (mod + ((step + i - 1) \div stride)) % shape = mod
  <2>1. step + i - 1 \in 0 .. stride - 1
    BY <1>1
  <2>2. (step + i - 1) \div stride = 0
    BY <2>1
  <2> QED
    BY <2>2
<1>6. ASSUME NEW i \in 1 .. left - count
      PROVE  (mod + ((step + (count + i) - 1) \div stride)) % shape
               = (next[2] + ((next[3] + i - 1) \div stride)) % shape
  <2>1. full
    BY <1>1
  <2>2. next[2] = (mod + 1) % shape /\ next[3] = 0
    BY <1>2, <2>1
  <2>3. PICK j \in Nat : j = i - 1
    OBVIOUS
  <2>4. step + (count + i) - 1 = stride + j
    BY <1>1, <2>1, <2>3
  <2>5. (stride + j) \div stride = (stride \div stride) + (((stride % stride) + j) \div stride)
    <3>1. SumDivides(stride, j, stride)
      BY <2>3, DivSum
    <3> QED
      BY <3>1 DEF SumDivides
  <2>6. stride \div stride = 1 /\ stride % stride = 0
    <3>1. 1 * stride + 0 = stride /\ 0 \in 0 .. stride - 1
      OBVIOUS
    <3> QED
      BY <3>1, DivUnique
  <2>7. PICK q \in Nat : q = j \div stride
    BY <2>3
  <2>8. (step + (count + i) - 1) \div stride = 1 + q
    BY <2>3, <2>4, <2>5, <2>6, <2>7
  <2>9. (next[3] + i - 1) \div stride = q
    BY <2>2, <2>3, <2>7
  <2>10. ((mod + 1) + q) % shape = (((mod + 1) % shape) + q) % shape
    <3>1. mod + 1 \in Nat
      BY <1>1
    <3>2. SumDivides(mod + 1, q, shape)
      BY <2>7, <3>1, DivSum
    <3> QED
      BY <3>2 DEF SumDivides
  <2>11. mod + (1 + q) = (mod + 1) + q
    BY <1>1, <2>7
  <2> QED
    BY <2>2, <2>8, <2>9, <2>10, <2>11
<1>7. run \o rest = whole
  <2> DEFINE S == {col[k] : k \in 0 .. shape - 1}
             of(i) == (mod + ((step + i - 1) \div stride)) % shape
             later(i) == (next[2] + ((next[3] + i - 1) \div stride)) % shape
  <2>1. \A i \in 1 .. left : of(i) \in 0 .. shape - 1
    <3>1. ASSUME NEW i \in 1 .. left
          PROVE  of(i) \in 0 .. shape - 1
      <4>1. PICK q \in Nat : q = (step + i - 1) \div stride
        <5>1. step + i - 1 \in Nat
          BY <1>1
        <5> QED
          BY <5>1
      <4>2. (mod + q) % shape \in 0 .. shape - 1
        BY <1>1, <4>1
      <4> QED
        BY <4>1, <4>2
    <3> QED
      BY <3>1
  <2>2. \A i \in 1 .. left - count : count + i \in 1 .. left /\ later(i) = of(count + i)
    BY <1>1, <1>6
  <2>3. \A i \in 1 .. count : i \in 1 .. left /\ of(i) = mod
    BY <1>1, <1>5
  <2>4. /\ whole = [i \in 1 .. left |-> col[of(i)]]
        /\ rest = [i \in 1 .. left - count |-> col[later(i)]]
    BY <1>0, <1>4 DEF FilledFrom
  <2> HIDE DEF of, later, whole, rest
  <2>5. \A i \in 1 .. left : col[of(i)] \in S
    BY <2>1
  <2> HIDE DEF S
  <2>14. run = [i \in 1 .. count |-> col[mod]]
    BY <1>0 DEF RunRows, count
  <2>6. /\ run = [i \in 1 .. count |-> col[of(i)]]
        /\ rest = [i \in 1 .. left - count |-> col[of(count + i)]]
    BY <2>2, <2>3, <2>4, <2>14
  <2> HIDE DEF run
  <2>7. PICK a, b \in Nat : a = count /\ b = left - count /\ a + b = left
    BY <1>1
  <2>8. /\ run \in [1 .. a -> S] /\ rest \in [1 .. b -> S]
        /\ \A i \in 1 .. a : run[i] = col[of(i)]
        /\ \A i \in 1 .. b : rest[i] = col[of(a + i)]
    BY <2>2, <2>3, <2>5, <2>6, <2>7
  <2>9. run \in Seq(S) /\ rest \in Seq(S) /\ Len(run) = a /\ Len(rest) = b
    BY <2>8, SeqDef
  <2>10. PICK both : both = run \o rest
    OBVIOUS
  <2>11. /\ both \in Seq(S) /\ Len(both) = a + b
         /\ \A i \in 1 .. a + b : both[i] = IF i <= a THEN run[i] ELSE rest[i - a]
    BY <2>9, <2>10, ConcatProperties
  <2>12. ASSUME NEW i \in 1 .. a + b
         PROVE  both[i] = col[of(i)]
    <3>1. CASE i <= a
      BY <2>8, <2>11, <3>1
    <3>2. CASE i > a
      <4>1. i - a \in 1 .. b /\ a + (i - a) = i
        BY <3>2
      <4> QED
        BY <2>8, <2>11, <3>2, <4>1
    <3> QED
      BY <3>1, <3>2
  <2>13. both = [i \in 1 .. a + b |-> both[i]]
    BY <2>11
  <2> QED
    BY <2>4, <2>7, <2>10, <2>12, <2>13
<1> QED
  BY <1>0, <1>1, <1>4, <1>7 DEF count, next

(* The function of a batch exists: it holds the rows left, one by one.       *)
LEMMA FillExists ==
  ASSUME NEW shape \in Nat \ {0}, NEW stride \in Nat \ {0}, NEW n \in Nat, NEW col
  PROVE  \E h : IsFill(h, col, n, shape, stride)
<1> DEFINE h == [at \in RunPlaces(n, shape, stride) |->
                   FilledFrom(col, at, shape, stride)]
           Step(g, at) == IF at[1] = 0 THEN <<>>
             ELSE RunRows(col, at, stride)
                    \o g[NextRun(at, shape, stride)]
<1>1. ASSUME NEW at \in RunPlaces(n, shape, stride)
      PROVE  h[at] = Step(h, at)
  <2>1. at[1] \in 0 .. n /\ at[2] \in 0 .. shape - 1 /\ at[3] \in 0 .. stride - 1
    BY DEF RunPlaces
  <2>2. CASE at[1] = 0
    <3>1. h[at] = [i \in 1 .. 0 |-> col[(at[2] + ((at[3] + i - 1) \div stride)) % shape]]
      BY <2>2 DEF FilledFrom
    <3>2. h[at] = <<>>
      BY <3>1
    <3> QED
      BY <2>2, <3>2
  <2>3. CASE at[1] # 0
    <3>1. at[1] \in 1 .. n
      BY <2>1, <2>3
    <3> DEFINE next == NextRun(at, shape, stride)
    <3>2. /\ next \in RunPlaces(n, shape, stride)
          /\ RunRows(col, at, stride)
               \o FilledFrom(col, next, shape, stride)
             = FilledFrom(col, at, shape, stride)
      BY <2>3, RunThenRest
    <3> HIDE DEF next
    <3>3. h[next] = FilledFrom(col, next, shape, stride)
      BY <3>2
    <3>4. h[at] = FilledFrom(col, at, shape, stride)
      OBVIOUS
    <3> HIDE DEF h
    <3>5. Step(h, at) = RunRows(col, at, stride) \o h[next]
      BY <2>3 DEF next
    <3> QED
      BY <3>2, <3>3, <3>4, <3>5
  <2> QED
    BY <2>2, <2>3
<1>2. h = [at \in RunPlaces(n, shape, stride) |-> h[at]]
  OBVIOUS
<1> HIDE DEF h
<1>3. h = [at \in RunPlaces(n, shape, stride) |-> Step(h, at)]
  BY <1>1, <1>2
<1> QED
  BY <1>3 DEF IsFill

(* And it holds no others.                                                  *)
LEMMA FillIs ==
  ASSUME NEW shape \in Nat \ {0}, NEW stride \in Nat \ {0}, NEW n \in Nat, NEW col,
         NEW h, IsFill(h, col, n, shape, stride),
         NEW at \in RunPlaces(n, shape, stride), at[1] = n
  PROVE  h[at] = FilledFrom(col, at, shape, stride)
<1> DEFINE Right(left) == \A x \in RunPlaces(n, shape, stride) :
             x[1] = left => h[x] = FilledFrom(col, x, shape, stride)
           T == {left \in 0 .. n : ~Right(left)}
<1>1. ASSUME T # {}
      PROVE  FALSE
  <2>1. T \in SUBSET Nat
    OBVIOUS
  <2>2. PICK left \in T : \A y \in T : left <= y
    BY <1>1, <2>1, LeastNumber
  <2>3. left \in 0 .. n /\ ~Right(left) /\ \A y \in 0 .. n : y < left => Right(y)
    BY <2>2
  <2> HIDE DEF T
  <2>4. PICK x \in RunPlaces(n, shape, stride) :
          x[1] = left /\ h[x] # FilledFrom(col, x, shape, stride)
    BY <2>3
  <2>5. x[1] \in 0 .. n /\ x[2] \in 0 .. shape - 1 /\ x[3] \in 0 .. stride - 1
    BY DEF RunPlaces
  <2>6. h[x] = IF x[1] = 0 THEN <<>>
                ELSE RunRows(col, x, stride)
                       \o h[NextRun(x, shape, stride)]
    BY DEF IsFill
  <2>7. CASE x[1] = 0
    <3>1. FilledFrom(col, x, shape, stride)
            = [i \in 1 .. 0 |-> col[(x[2] + ((x[3] + i - 1) \div stride)) % shape]]
      BY <2>7 DEF FilledFrom
    <3> QED
      BY <2>4, <2>6, <2>7, <3>1
  <2>8. CASE x[1] # 0
    <3>1. x[1] \in 1 .. n
      BY <2>5, <2>8
    <3> DEFINE next == NextRun(x, shape, stride)
               count == RunCount(x, stride)
    <3>2. /\ next \in RunPlaces(n, shape, stride) /\ count \in 1 .. x[1] /\ next[1] = x[1] - count
          /\ RunRows(col, x, stride)
               \o FilledFrom(col, next, shape, stride)
             = FilledFrom(col, x, shape, stride)
      BY <2>8, RunThenRest
    <3>3. h[x] = RunRows(col, x, stride) \o h[next]
      BY <2>6, <2>8
    <3> HIDE DEF next, count
    <3>4. next[1] \in 0 .. n /\ next[1] < left
      BY <2>4, <3>1, <3>2
    <3>5. Right(next[1])
      BY <2>3, <3>4
    <3>6. h[next] = FilledFrom(col, next, shape, stride)
      BY <3>2, <3>5
    <3> QED
      BY <2>4, <3>2, <3>3, <3>6
  <2> QED
    BY <2>7, <2>8
<1>2. Right(n)
  <2>1. n \in 0 .. n
    OBVIOUS
  <2> HIDE DEF Right
  <2> QED
    BY <1>1, <2>1
<1> QED
  BY <1>2

FilledTruly(info, d, pos, n) ==
  \A i \in 1 .. n : PopulateBatch(info, d, pos, n)[i] = Coordinate(d, GlobalCoord(info, d, pos + i - 1))

(* The column that populate_coordinate_batch fills run by run holds, row by *)
(* row, the coordinate of the element's cell, wherever in its runs the batch *)
(* begins and ends.                                                         *)
LEMMA BatchColumn ==
  ASSUME NEW info, NEW d, NEW pos \in Nat, NEW n \in Nat,
         info.strides[d] \in Nat \ {0}, info.shape[d] \in Nat \ {0}
  PROVE  FilledTruly(info, d, pos, n)
<1>1. PICK stride \in Nat \ {0}, shape \in Nat \ {0} :
        stride = info.strides[d] /\ shape = info.shape[d]
  OBVIOUS
<1>11. \A j \in Nat : SumDivides(pos, j, stride)
  BY DivSum
<1> DEFINE start == info.global_starts[d]
           col == [k \in 0 .. shape - 1 |-> Coordinate(d, start + k)]
           Rows(at) == [i \in 1 .. Lower(stride - at[3], at[1]) |-> Coordinate(d, start + at[2])]
           After(at) == <<at[1] - Lower(stride - at[3], at[1]),
                          IF at[3] + Lower(stride - at[3], at[1]) = stride
                          THEN (at[2] + 1) % shape ELSE at[2],
                          IF at[3] + Lower(stride - at[3], at[1]) = stride
                          THEN 0 ELSE at[3] + Lower(stride - at[3], at[1])>>
           Def(h) == h = [at \in (0 .. n) \X (0 .. shape - 1) \X (0 .. stride - 1) |->
                            IF at[1] = 0 THEN <<>> ELSE Rows(at) \o h[After(at)]]
           first == <<n, (pos \div stride) % shape, pos % stride>>
<1>2. PopulateBatch(info, d, pos, n) = (CHOOSE h : Def(h))[first]
  BY <1>1 DEF PopulateBatch
<1>3. ASSUME NEW h
      PROVE  Def(h) <=> IsFill(h, col, n, shape, stride)
  <2>1. ASSUME NEW at \in RunPlaces(n, shape, stride)
        PROVE  Rows(at) = RunRows(col, at, stride) /\ After(at) = NextRun(at, shape, stride)
    <3>1. at[2] \in 0 .. shape - 1
      BY DEF RunPlaces
    <3>2. col[at[2]] = Coordinate(d, start + at[2])
      BY <3>1
    <3> HIDE DEF col
    <3> QED
      BY <3>2 DEF RunRows, NextRun, RunCount
  <2> HIDE DEF Rows, After, col
  <2>2. [at \in RunPlaces(n, shape, stride) |->
           IF at[1] = 0 THEN <<>> ELSE Rows(at) \o h[After(at)]]
        = [at \in RunPlaces(n, shape, stride) |->
             IF at[1] = 0 THEN <<>>
             ELSE RunRows(col, at, stride) \o h[NextRun(at, shape, stride)]]
    BY <2>1
  <2> QED
    BY <2>2 DEF IsFill, RunPlaces
<1> HIDE DEF col, Def, Rows, After
<1>4. PICK g : Def(g)
  BY <1>3, FillExists
<1> DEFINE f == CHOOSE h : Def(h)
<1>5. Def(f)
  BY <1>4
<1> HIDE DEF f
<1>6. IsFill(f, col, n, shape, stride)
  BY <1>3, <1>5
<1>7. PICK e \in Nat, r \in 0 .. stride - 1, m \in 0 .. shape - 1 :
        e = pos \div stride /\ r = pos % stride /\ m = e % shape
  <2>1. PICK e \in Nat, r \in 0 .. stride - 1 : e = pos \div stride /\ r = pos % stride
    OBVIOUS
  <2>2. e % shape \in 0 .. shape - 1
    OBVIOUS
  <2> QED
    BY <2>1, <2>2
<1>10. first = <<n, m, r>>
  BY <1>7
<1> HIDE DEF first
<1>8. f[first] = FilledFrom(col, first, shape, stride)
  <2>1. first \in RunPlaces(n, shape, stride) /\ first[1] = n
    BY <1>10 DEF RunPlaces
  <2> QED
    BY <1>6, <2>1, FillIs
<1>9. ASSUME NEW i \in 1 .. n
      PROVE  FilledFrom(col, first, shape, stride)[i]
               = Coordinate(d, GlobalCoord(info, d, pos + i - 1))
  <2>1. PICK j \in Nat : j = i - 1
    OBVIOUS
  <2>2. PICK y \in Nat : y = (r + j) \div stride
    OBVIOUS
  <2>3. (pos + j) \div stride = (pos \div stride) + (((pos % stride) + j) \div stride)
    BY <1>11 DEF SumDivides
  <2>4. (pos + i - 1) \div stride = e + y
    BY <1>7, <2>1, <2>2, <2>3
  <2>5. (e + y) % shape = (m + y) % shape
    <3>1. SumDivides(e, y, shape)
      BY <1>7, DivSum
    <3> QED
      BY <1>7, <3>1 DEF SumDivides
  <2>6. FilledFrom(col, first, shape, stride)[i] = col[(m + y) % shape]
    <3>1. r + i - 1 = r + j
      BY <2>1
    <3> QED
      BY <1>10, <2>2, <3>1 DEF FilledFrom
  <2>7. (m + y) % shape \in 0 .. shape - 1
    OBVIOUS
  <2>8. col[(m + y) % shape] = Coordinate(d, start + ((m + y) % shape))
    BY <2>7 DEF col
  <2>9. GlobalCoord(info, d, pos + i - 1) = start + ((e + y) % shape)
    BY <1>1, <2>4 DEF GlobalCoord
  <2> QED
    BY <2>5, <2>6, <2>8, <2>9
<1> QED
  BY <1>2, <1>8, <1>9 DEF f, FilledTruly

(* The chunk being written has sizes and lies in the array, and the columns *)
(* of a row are the coordinates of its cell.                                *)
IsPart(info, d) ==
  /\ info.shape[d] \in Nat /\ info.strides[d] \in Nat /\ info.global_starts[d] \in Nat
  /\ info.global_starts[d] + info.shape[d] <= dataset.shape[d]

InfoSized == phase = "write" => \A d \in AllDims : IsPart(subset_info, d)

PlacedRow(row) ==
  \A d \in query.projected \cap AllDims :
    row.cell[d] \in 0 .. dataset.shape[d] - 1 /\ row.columns[d] = Coordinate(d, row.cell[d])
RowsPlaced == \A i \in 1 .. Len(rows) : PlacedRow(rows[i])

Placing == IsListed(rows) /\ RowsPlaced /\ InfoSized

(* Reading a chunk leaves it the sizes of its subset.                       *)
LEMMA ReadSizes ==
  ASSUME Opening, Bounding, Reading, UNCHANGED box, NEW got \in BOOLEAN, ReadChunk(got)
  PROVE  InfoSized'
<1>1. phase = "scan" /\ Possible /\ subset_info' = Info(Pos) /\ dataset' = dataset
  BY DEF ReadChunk, box
<1>2. Bounded
  BY <1>1 DEF Bounding, Unbound
<1>3. Wellformed /\ IsBoxed /\ chunk_idx \in Nat
  BY <1>2, BoundFacts DEF Reading
<1>4. SubsetShape(Pos) \in [AllDims -> Nat]
  BY <1>1, <1>3, SubsetSized
<1> DEFINE f == SubsetShape(Pos)
<1>5. ProductAfter(f) \in [0 .. Rank -> Nat]
  <2>1. 1 \in Nat /\ \A d \in AllDims : \A x \in Nat : f[d] * x \in Nat
    <3>1. \A a, x \in Nat : a * x \in Nat
      OBVIOUS
    <3> QED
      BY <1>4, <3>1
  <2> QED
    BY <1>3, <2>1, Products DEF Wellformed
<1> HIDE DEF f
<1>6. ASSUME NEW d \in AllDims
      PROVE  IsPart(Info(Pos), d)
  <2>1. d \in 0 .. Rank
    BY <1>3 DEF AllDims, Wellformed
  <2>2. /\ Info(Pos).shape = f /\ Info(Pos).strides[d] = ProductAfter(f)[d]
        /\ Info(Pos).global_starts[d] = SubsetLo(Pos)[d]
    BY DEF Info, f, Strides
  <2>3. /\ bounds_min[d] \in Nat /\ bounds_max[d] \in Int /\ bounds_max[d] <= dataset.shape[d] - 1
        /\ dataset.chunk_shape[d] \in Nat /\ dataset.shape[d] \in Nat /\ Pos[d] \in Nat
    <3>1. dataset.shape[d] \in Nat /\ U64 \in Nat /\ dataset.chunk_shape[d] \in Nat
      BY <1>3, SizeType
    <3>2. Pos \in [AllDims -> Nat]
      BY <1>1, <1>3, PosType DEF Possible, Pos
    <3> QED
      BY <1>3, <3>1, <3>2 DEF IsBoxed, IsBox
  <2>4. Pos[d] * dataset.chunk_shape[d] \in Int /\ (Pos[d] + 1) * dataset.chunk_shape[d] - 1 \in Int
    BY <2>3
  <2>5. /\ SubsetLo(Pos)[d] \in Nat /\ SubsetHi(Pos)[d] \in Int
        /\ SubsetHi(Pos)[d] <= bounds_max[d]
    BY <2>3, <2>4 DEF SubsetLo, SubsetHi, Upper, Lower
  <2>6. f[d] = SubsetHi(Pos)[d] - SubsetLo(Pos)[d] + 1
    BY DEF SubsetShape, f
  <2>7. SubsetLo(Pos)[d] + f[d] <= dataset.shape[d]
    BY <2>3, <2>5, <2>6
  <2> QED
    BY <1>4, <1>5, <2>1, <2>2, <2>5, <2>7 DEF f, IsPart
<1>7. AllDims' = AllDims
  BY <1>1 DEF AllDims, Rank
<1> QED
  BY <1>1, <1>6, <1>7 DEF InfoSized, IsPart

(* A batch's columns are filled with the coordinates of its rows' cells.    *)
LEMMA BatchPlaces ==
  ASSUME Opening, Bounding, Writing, Placing, WriteBatch
  PROVE  /\ IsListed(rows')
         /\ \A i \in 1 .. Len(rows') : PlacedRow(rows'[i])
<1> DEFINE n == Lower(Len(buffer) - cursor, VectorSize - valid_rows)
           dims == query.projected \cap AllDims
           column == [d \in dims |-> PopulateBatch(subset_info, d, cursor, n)]
           batch == [i \in 1 .. n |->
              [cell |-> [d \in AllDims |-> GlobalCoord(subset_info, d, cursor + i - 1)],
               columns |-> [d \in dims |-> column[d][i]],
               value |-> IF Rank + 1 \in query.projected THEN {Value(buffer[cursor + i])}
                         ELSE {}]]
<1>1. phase = "write" /\ ~PopulatePanics(subset_info) /\ rows' = rows \o batch
  BY DEF WriteBatch
<1>2. n \in Nat /\ cursor \in Nat
  <2>1. /\ Len(buffer) \in Nat /\ cursor \in 0 .. Len(buffer) /\ VectorSize \in Nat \ {0}
        /\ valid_rows \in 0 .. VectorSize - 1
    BY ReadAssumption DEF Writing
  <2> QED
    BY <2>1 DEF Lower
<1>6. \A d \in AllDims : dataset.shape[d] \in Nat
  <2>1. Wellformed
    BY <1>1, BoundFacts DEF Bounding, Unbound
  <2> QED
    BY <2>1, SizeType
<1>3. batch = [i \in 1 .. n |-> batch[i]]
  OBVIOUS
<1>4. ASSUME NEW i \in 1 .. n
      PROVE  PlacedRow(batch[i])
  <2>1. ASSUME NEW d \in dims
        PROVE  /\ batch[i].cell[d] \in 0 .. dataset.shape[d] - 1
               /\ batch[i].columns[d] = Coordinate(d, batch[i].cell[d])
    <3>1. /\ subset_info.strides[d] \in Nat \ {0} /\ subset_info.shape[d] \in Nat \ {0}
          /\ subset_info.global_starts[d] \in Nat
          /\ subset_info.global_starts[d] + subset_info.shape[d] <= dataset.shape[d]
      BY <1>1 DEF Placing, InfoSized, IsPart, PopulatePanics
    <3>4. FilledTruly(subset_info, d, cursor, n)
      BY <1>2, <3>1, BatchColumn
    <3>2. PopulateBatch(subset_info, d, cursor, n)[i]
            = Coordinate(d, GlobalCoord(subset_info, d, cursor + i - 1))
      BY <3>4 DEF FilledTruly
    <3>3. /\ batch[i].columns[d] = PopulateBatch(subset_info, d, cursor, n)[i]
          /\ batch[i].cell[d] = GlobalCoord(subset_info, d, cursor + i - 1)
      OBVIOUS
    <3>5. GlobalCoord(subset_info, d, cursor + i - 1) \in 0 .. dataset.shape[d] - 1
      <4>1. PICK from, count \in Nat, width \in Nat \ {0} :
              /\ from = subset_info.global_starts[d] /\ count = dataset.shape[d]
              /\ width = subset_info.shape[d] /\ from + width <= count
        BY <1>6, <3>1
      <4>2. PICK q \in Nat : q = (cursor + i - 1) \div subset_info.strides[d]
        <5>1. cursor + i - 1 \in Nat
          BY <1>2
        <5> QED
          BY <3>1, <5>1
      <4>3. PICK x \in 0 .. width - 1 : x = q % width
        OBVIOUS
      <4>4. from + x \in 0 .. count - 1
        <5>1. from + width <= count
          BY <4>1
        <5> QED
          BY <5>1
      <4> QED
        BY <4>1, <4>2, <4>3, <4>4 DEF GlobalCoord
    <3> QED
      BY <3>2, <3>3, <3>5
  <2> QED
    BY <2>1 DEF PlacedRow
<1> HIDE DEF n, batch
<1>5. IsListed(rows) /\ RowsPlaced
  BY DEF Placing
<1>8. /\ IsListed(rows \o batch) /\ Len(rows \o batch) = Len(rows) + n /\ Len(rows) \in Nat
      /\ \A i \in 1 .. Len(rows) : (rows \o batch)[i] = rows[i]
      /\ \A i \in 1 .. n : (rows \o batch)[Len(rows) + i] = batch[i]
  BY <1>2, <1>3, <1>5, ListedConcat, SMTT(30)
<1>7. ASSUME NEW i \in 1 .. Len(rows')
      PROVE  PlacedRow(rows'[i])
  <2>1. PICK m \in Nat : m = Len(rows)
    BY <1>8
  <2>2. i \in 1 .. m \/ (i - m \in 1 .. n /\ i = m + (i - m))
    BY <1>1, <1>2, <1>8, <2>1
  <2>3. CASE i \in 1 .. m
    BY <1>1, <1>5, <1>8, <2>1, <2>3 DEF RowsPlaced
  <2>4. CASE i - m \in 1 .. n /\ i = m + (i - m)
    <3>1. PICK j \in 1 .. n : i = m + j
      BY <2>4
    <3>2. rows'[i] = batch[j]
      BY <1>1, <1>8, <2>1, <3>1
    <3> QED
      BY <1>4, <3>2
  <2> QED
    BY <2>2, <2>3, <2>4
<1> QED
  BY <1>1, <1>8, <1>7

(* Every step keeps the columns true to the cells.                          *)
LEMMA PlacingStep ==
  ASSUME Opening, Bounding, Reading, Writing, Telling, Placing, [Next]_vars
  PROVE  Placing'
<1>1. request' = request
  BY KeepsBox
<1>2. CASE Open
  <2>1. phase \in {"bind", "open"} /\ phase' # "write" /\ rows' = rows
    BY <1>2 DEF Open, Bind
  <2>2. rows' = <<>>
    <3>1. chunk_idx = 0
      BY <2>1 DEF Bounding, Bounded, Unbound
    <3> QED
      BY <2>1, <3>1 DEF Telling
  <2>3. Len(<<>>) = 0
    OBVIOUS
  <2> QED
    BY <2>1, <2>2, <2>3 DEF Placing, IsListed, RowsPlaced, InfoSized
<1>3. ASSUME dataset' = dataset
      PROVE  Placing'
  <2>1. /\ AllDims' = AllDims /\ query' = query
        /\ \A row : PlacedRow(row)' <=> PlacedRow(row)
    <3>1. AllDims' = AllDims /\ query' = query
      BY <1>1, <1>3 DEF AllDims, Rank, query
    <3>2. \A d, i : Coordinate(d, i)' = Coordinate(d, i)
      BY <1>3 DEF Coordinate
    <3> QED
      BY <1>3, <3>1, <3>2 DEF PlacedRow
  <2>2. ASSUME NEW got \in BOOLEAN, ReadChunk(got)
        PROVE  Placing'
    <3>1. UNCHANGED box /\ rows' = rows
      BY <2>2 DEF ReadChunk
    <3>2. InfoSized'
      BY <2>2, <3>1, ReadSizes
    <3> QED
      BY <2>1, <3>1, <3>2 DEF Placing, IsListed, RowsPlaced
  <2>3. CASE WriteBatch
    <3>1. subset_info' = subset_info /\ phase = "write"
      BY <2>3 DEF WriteBatch, chunk
    <3>2. IsListed(rows') /\ \A i \in 1 .. Len(rows') : PlacedRow(rows'[i])
      BY <2>3, BatchPlaces
    <3>3. InfoSized'
      BY <1>3, <2>1, <3>1 DEF Placing, InfoSized, IsPart
    <3> QED
      BY <2>1, <3>2, <3>3 DEF Placing, RowsPlaced, IsListed
  <2>4. ASSUME UNCHANGED <<subset_info, rows>>, phase' = "write" => phase = "write"
        PROVE  Placing'
    BY <1>3, <2>1, <2>4 DEF Placing, IsListed, RowsPlaced, InfoSized, IsPart
  <2>5. \/ \E got \in BOOLEAN : ReadChunk(got)
        \/ WriteBatch
        \/ UNCHANGED <<subset_info, rows>> /\ (phase' = "write" => phase = "write")
    BY DEF Next, vars, chunk, Open, OpenFails, Bind, ReadRefused, ReadFails, WriteFails,
           EndOfStream, Answered
  <2> QED
    BY <2>2, <2>3, <2>4, <2>5
<1>4. Open \/ dataset' = dataset
  BY KeepsBox DEF box
<1> QED
  BY <1>2, <1>3, <1>4

(* The columns of every row are the coordinates of its cell.                 *)
LEMMA PlacingInvariant == Spec => [](QueryInv /\ Telling /\ Placing)
<1>1. Init => Placing
  <2>1. Len(<<>>) = 0
    OBVIOUS
  <2> QED
    BY <2>1 DEF Init, Placing, IsListed, RowsPlaced, InfoSized
<1>2. QueryInv /\ Telling /\ Placing /\ [Next]_vars => Placing'
  BY PlacingStep DEF QueryInv
<1> QED
  BY <1>1, <1>2, RowsInvariant, PTL DEF Spec

-----------------------------------------------------------------------------
(* The affine of an image.                                                  *)

(* A tag that is read in full gives its values.                             *)
LEMMA TagRead ==
  ASSUME NEW f, f.size \in Nat, NEW tag, NEW v \in Doubles(f, tag), v \in Seq(Int), v # <<>>
  PROVE  ArrayVal(f, tag, 8) = v
<1>1. PICK e : /\ Tagged(f, tag) = {e} /\ e.typ = "DOUBLE" /\ e.values = v
               /\ e.at \in Nat /\ e.at + 8 * Len(v) <= Buffered(f)
  BY DEF Doubles
<1>2. PICK n \in Nat \ {0} : n = Len(v) /\ DOMAIN v = 1 .. n
  OBVIOUS
<1>3. Width(e.typ) = 8
  BY <1>1 DEF Width
<1>4. ~InEntry(e)
  BY <1>1, <1>2, <1>3 DEF InEntry
<1>5. Buffered(f) \in Nat
  BY HeaderAssumption DEF Buffered, Lower
<1> DEFINE K == {k \in DOMAIN e.values : e.at + (k - 1) * Width(e.typ) + 8 <= Buffered(f)}
<1>6. K = 1 .. n
  <2>1. ASSUME NEW k \in 1 .. n
        PROVE  e.at + (k - 1) * 8 + 8 <= Buffered(f)
    BY <1>1, <1>2, <1>5
  <2> QED
    BY <1>1, <1>2, <1>3, <2>1
<1>7. Cardinality(1 .. n) = n
  BY FS_Interval
<1>8. SubSeq(v, 1, n) = v
  BY <1>2
<1>9. ArrayVal(f, tag, 8) = IF InEntry(e) THEN <<>> ELSE SubSeq(e.values, 1, Cardinality(K))
  <2> DEFINE c == CHOOSE x \in Tagged(f, tag) : TRUE
  <2>1. c = e /\ Tagged(f, tag) # {}
    BY <1>1
  <2>2. ArrayVal(f, tag, 8) =
          IF InEntry(c) THEN <<>>
          ELSE SubSeq(c.values, 1, Cardinality({k \in DOMAIN c.values :
                 c.at + (k - 1) * Width(c.typ) + 8 <= Buffered(f)}))
    BY <2>1 DEF ArrayVal
  <2> HIDE DEF c
  <2> QED
    BY <2>1, <2>2
<1>10. ArrayVal(f, tag, 8) = SubSeq(e.values, 1, Cardinality(K))
  BY <1>4, <1>9
<1> HIDE DEF K
<1> QED
  BY <1>1, <1>6, <1>7, <1>8, <1>10

(* A transform takes rows and columns to the centres of an image's pixels,  *)
(* or the image has none.                                                   *)
IsAffine(f, g, t) ==
  /\ f.geo = {g} /\ g.north \in Int /\ g.west \in Int /\ g.dy \in Int /\ g.dx \in Int
  /\ g.dy % 2 = 0 /\ g.dx % 2 = 0
  /\ Len(t.scale) = 2 /\ Len(t.translation) = 2
  /\ t.scale[1] = -g.dy /\ t.translation[1] = g.north + FloorDiv(-g.dy, 2)
  /\ t.scale[2] = g.dx /\ t.translation[2] = g.west + FloorDiv(g.dx, 2)

Located(f, t) == (f.geo = {} /\ t = NoTransform) \/ (\E g \in f.geo : IsAffine(f, g, t))

(* The transform of a surveyed file is its affine.                          *)
LEMMA SurveyedTransform ==
  ASSUME NEW f, Surveyed(f)
  PROVE  Located(f, spatial_transform(parse_cog_metadata(f)))
<1> DEFINE meta == parse_cog_metadata(f)
           t == spatial_transform(meta)
           Centred(scale, corner) ==
             [scale |-> scale,
              translation |-> [i \in 1 .. 2 |-> corner[i] + FloorDiv(scale[i], 2)]]
<1>1. /\ meta.pixel_scale = ArrayVal(f, "ModelPixelScale", 8)
      /\ meta.tiepoint = ArrayVal(f, "ModelTiepoint", 8)
      /\ meta.model_transformation = ArrayVal(f, "ModelTransformation", 8)
  BY DEF parse_cog_metadata
<1> HIDE DEF meta
<1>2. t = IF Len(meta.pixel_scale) >= 2 /\ Len(meta.tiepoint) >= 6
          THEN Centred(<<-meta.pixel_scale[2], meta.pixel_scale[1]>>,
                       <<meta.tiepoint[5], meta.tiepoint[4]>>)
          ELSE IF Len(meta.model_transformation) >= 16
          THEN Centred(<<meta.model_transformation[6], meta.model_transformation[1]>>,
                       <<meta.model_transformation[8], meta.model_transformation[4]>>)
          ELSE NoTransform
  BY DEF spatial_transform
<1> HIDE DEF t
<1>3. \A tag : Tagged(f, tag) = {} => ArrayVal(f, tag, 8) = <<>>
  BY DEF ArrayVal
<1>4. Len(<<>>) = 0
  OBVIOUS
<1>5. ASSUME NEW a \in Int, NEW b \in Int, NEW c \in Int, NEW d \in Int
      PROVE  /\ Len(Centred(<<a, b>>, <<c, d>>).scale) = 2
             /\ Len(Centred(<<a, b>>, <<c, d>>).translation) = 2
             /\ Centred(<<a, b>>, <<c, d>>).scale[1] = a
             /\ Centred(<<a, b>>, <<c, d>>).scale[2] = b
             /\ Centred(<<a, b>>, <<c, d>>).translation[1] = c + FloorDiv(a, 2)
             /\ Centred(<<a, b>>, <<c, d>>).translation[2] = d + FloorDiv(b, 2)
  <2> DEFINE tr == [i \in 1 .. 2 |-> <<c, d>>[i] + FloorDiv(<<a, b>>[i], 2)]
  <2>1. tr[1] = c + FloorDiv(a, 2) /\ tr[2] = d + FloorDiv(b, 2)
    OBVIOUS
  <2>2. tr \in [1 .. 2 -> {tr[1], tr[2]}]
    OBVIOUS
  <2> HIDE DEF tr
  <2>3. Len(tr) = 2
    <3>1. tr \in Seq({tr[1], tr[2]}) /\ DOMAIN tr = 1 .. 2
      BY <2>2, SeqDef
    <3> QED
      BY <3>1
  <2>4. Len(<<a, b>>) = 2 /\ <<a, b>>[1] = a /\ <<a, b>>[2] = b
    OBVIOUS
  <2>5. Centred(<<a, b>>, <<c, d>>).scale = <<a, b>> /\ Centred(<<a, b>>, <<c, d>>).translation = tr
    BY DEF tr
  <2> QED
    BY <2>1, <2>3, <2>4, <2>5
<1> HIDE DEF Centred
<1>6. CASE f.geo = {} /\ Tagged(f, "ModelPixelScale") = {} /\ Tagged(f, "ModelTransformation") = {}
  <2>1. t = NoTransform
    BY <1>1, <1>2, <1>3, <1>4, <1>6
  <2> QED
    BY <1>6, <2>1 DEF Located, t, meta
<1>7. ASSUME NEW g \in f.geo,
             f.geo = {g}, {g.north, g.west, g.dy, g.dx} \subseteq Int, f.size \in Nat,
             g.dy % 2 = 0, g.dx % 2 = 0,
             t = Centred(<<-g.dy, g.dx>>, <<g.north, g.west>>)
      PROVE  Located(f, t)
  <2>1. g.north \in Int /\ g.west \in Int /\ g.dy \in Int /\ g.dx \in Int /\ -g.dy \in Int
    BY <1>7
  <2> QED
    BY <1>5, <1>7, <2>1 DEF Located, IsAffine
<1>8. ASSUME NEW g \in f.geo, f.size \in Nat, {g.north, g.west, g.dy, g.dx} \subseteq Int,
             NEW s \in Doubles(f, "ModelPixelScale"), NEW p \in Doubles(f, "ModelTiepoint"),
             s \in Seq(Int), Len(s) >= 2, s[1] = g.dx, s[2] = g.dy,
             p \in Seq(Int), Len(p) >= 6, p[4] = g.west, p[5] = g.north
      PROVE  t = Centred(<<-g.dy, g.dx>>, <<g.north, g.west>>)
  <2>1. s # <<>> /\ p # <<>>
    BY <1>4, <1>8
  <2>2. meta.pixel_scale = s /\ meta.tiepoint = p
    BY <1>1, <1>8, <2>1, TagRead
  <2> QED
    BY <1>2, <1>8, <2>2
<1>9. ASSUME NEW g \in f.geo, f.size \in Nat, {g.north, g.west, g.dy, g.dx} \subseteq Int,
             Tagged(f, "ModelPixelScale") = {},
             NEW m \in Doubles(f, "ModelTransformation"), m \in Seq(Int), Len(m) = 16,
             m[1] = g.dx, m[4] = g.west, m[6] = -g.dy, m[8] = g.north
      PROVE  t = Centred(<<-g.dy, g.dx>>, <<g.north, g.west>>)
  <2>1. m # <<>> /\ Len(m) >= 16
    <3>1. Len(m) >= 16
      BY <1>9
    <3>2. ~(Len(<<>>) >= 16)
      BY <1>4
    <3> QED
      BY <3>1, <3>2
  <2>2. meta.pixel_scale = <<>> /\ meta.model_transformation = m
    BY <1>1, <1>3, <1>9, <2>1, TagRead
  <2>3. t = Centred(<<m[6], m[1]>>, <<m[8], m[4]>>)
    <3>2. ~(Len(<<>>) >= 2)
      BY <1>4
    <3>1. ~(Len(meta.pixel_scale) >= 2) /\ Len(meta.model_transformation) >= 16
      BY <2>1, <2>2, <3>2
    <3> QED
      BY <1>2, <2>2, <3>1
  <2> QED
    BY <1>9, <2>3
<1> QED
  BY <1>6, <1>7, <1>8, <1>9 DEF Surveyed, t, meta

(* Applied to an index, it gives the pixel's centre.                        *)
LEMMA AxisCentre ==
  ASSUME NEW f, NEW t, Located(f, t), f.geo # {}, NEW i \in Int,
         NEW d \in {1, 2}, NEW name \in IF d = 1 THEN {"lat", "y"} ELSE {"lon", "x"}
  PROVE  apply_transform(t, d, i) = Centre(f, name, i)
<1>1. PICK g : IsAffine(f, g, t)
  BY DEF Located
<1>2. The(f.geo) = g
  BY <1>1 DEF IsAffine, The
<1>3. PICK north, west, dy, dx \in Int :
        /\ north = g.north /\ west = g.west /\ dy = g.dy /\ dx = g.dx
        /\ dy % 2 = 0 /\ dx % 2 = 0
  BY <1>1 DEF IsAffine
<1>4. FloorDiv(-dy, 2) = -(dy \div 2) /\ FloorDiv(dx, 2) = dx \div 2
  BY <1>3 DEF FloorDiv
<1>5. PICK y, x \in Int : y = dy \div 2 /\ x = dx \div 2
  OBVIOUS
<1>6. /\ apply_transform(t, 1, i) = (north - y) + i * (-dy)
      /\ apply_transform(t, 2, i) = (west + x) + i * dx
  <2>1. /\ Len(t.scale) = 2 /\ Len(t.translation) = 2
        /\ t.scale[1] = -dy /\ t.scale[2] = dx
        /\ t.translation[1] = north + -y /\ t.translation[2] = west + x
    BY <1>1, <1>3, <1>4, <1>5 DEF IsAffine
  <2>2. north + -y = north - y
    OBVIOUS
  <2>3. \A e \in {1, 2} : apply_transform(t, e, i) = t.translation[e] + i * t.scale[e]
    BY <2>1 DEF apply_transform
  <2> QED
    BY <2>1, <2>2, <2>3
<1>7. PICK iy, ix \in Int : iy = i * dy /\ ix = i * dx /\ i * (-dy) = -iy
  OBVIOUS
<1>8. CASE d = 1
  <2>1. Centre(f, name, i) = north - i * dy - dy \div 2
    BY <1>2, <1>3, <1>8 DEF Centre
  <2>2. Centre(f, name, i) = north - iy - y
    BY <1>5, <1>7, <2>1
  <2> QED
    BY <1>6, <1>7, <1>8, <2>2
<1>9. CASE d = 2
  <2>1. Centre(f, name, i) = west + i * dx + dx \div 2
    BY <1>2, <1>3, <1>9 DEF Centre
  <2>2. Centre(f, name, i) = west + ix + x
    BY <1>5, <1>7, <2>1
  <2> QED
    BY <1>6, <1>7, <1>9, <2>2
<1> QED
  BY <1>8, <1>9

-----------------------------------------------------------------------------
(* The images of a dataset.                                                 *)

(* Tuples after a first element, or none.                                   *)
LEMMA AfterFirst ==
  ASSUME NEW a, NEW b, NEW c
  PROVE  <<>> \o <<b, c>> = <<b, c>> /\ <<a>> \o <<b, c>> = <<a, b, c>>
<1> DEFINE S == {a, b, c}
<1>0. a \in S /\ b \in S /\ c \in S
  OBVIOUS
<1> HIDE DEF S
<1>1. <<b, c>> \in Seq(S)
  BY <1>0
<1>2. <<a>> \in Seq(S)
  BY <1>0
<1>3. Len(<<b, c>>) = 2 /\ Len(<<a>>) = 1
  OBVIOUS
<1>4. <<>> \o <<b, c>> = <<b, c>>
  BY <1>1, ConcatEmptySeq
<1>8. <<a, b, c>> \in Seq(S) /\ Len(<<a,b,c>>) = 3
  BY <1>0
<1>5. /\ <<a>> \o <<b, c>> \in Seq(S) /\ Len(<<a>> \o <<b, c>>) = 3
      /\ \A i \in 1 .. 3 : (<<a>> \o <<b, c>>)[i] = <<a, b, c>>[i]
  BY <1>1, <1>2, <1>3, ConcatProperties
<1> DEFINE s == <<a>> \o <<b, c>>
           t == <<a, b, c>>
<1>7. s = t
  <2> HIDE DEF s, t
  <2> QED
   BY <1>5, <1>8, SeqEqual DEF s, t
<1> QED
  BY <1>4, <1>7

(* The dimensions of an image are named by its metadata.                    *)
LEMMA NamesAre ==
  ASSUME NEW array, NEW n \in Nat \ {0}, Len(array.shape) = n, array.dimension_names = <<>>,
         Len(array.array_dimensions) = n,
         \A d \in 1 .. n : array.array_dimensions[d] # "", DOMAIN array.array_dimensions = 1 .. n
  PROVE  DimNames(array) = array.array_dimensions
<1>1. Len(<<>>) # n
  <2>1. Len(<<>>) = 0
    OBVIOUS
  <2>2. 0 # n
    OBVIOUS
  <2> QED
    BY <2>1, <2>2, Zenon
<1>2. "" \notin ToSet(array.array_dimensions)
  BY DEF ToSet
<1> QED
  BY <1>1, <1>2 DEF DimNames

(* A transform gives the centres of the pixels it locates, or the indices.   *)
LEMMA PixelCentre ==
  ASSUME NEW f, NEW t, Located(f, t), NEW i \in Int,
         NEW d \in {1, 2}, NEW name \in IF d = 1 THEN {"lat", "y"} ELSE {"lon", "x"}
  PROVE  apply_transform(t, d, i) = Centre(f, name, i)
<1>1. CASE f.geo # {}
  BY <1>1, AxisCentre
<1>2. CASE f.geo = {}
  <2>1. t.scale = <<>> /\ t.translation = <<>>
    BY <1>2 DEF Located, NoTransform
  <2>2. Len(<<>>) = 0 /\ ~(d <= 0)
    OBVIOUS
  <2>3. apply_transform(t, d, i) = 0 + i * 1
    BY <2>1, <2>2 DEF apply_transform
  <2>4. Centre(f, name, i) = i
    BY <1>2 DEF Centre
  <2> QED
    BY <2>3, <2>4
<1> QED
  BY <1>1, <1>2

(* The array of an image, without the sequences it is put together from.     *)
LEMMA CogArrayIs ==
  ASSUME NEW meta
  PROVE  /\ CogArray(meta).shape =
              IF meta.samples_per_pixel > 1
              THEN <<meta.samples_per_pixel, meta.image_length, meta.image_width>>
              ELSE <<meta.image_length, meta.image_width>>
         /\ CogArray(meta).chunk_shape =
              IF meta.samples_per_pixel > 1
              THEN <<meta.samples_per_pixel, meta.tile_length, meta.tile_width>>
              ELSE <<meta.tile_length, meta.tile_width>>
         /\ CogArray(meta).array_dimensions =
              IF meta.samples_per_pixel > 1
              THEN <<"band", cog_dim_names(meta)[1], cog_dim_names(meta)[2]>>
              ELSE <<cog_dim_names(meta)[1], cog_dim_names(meta)[2]>>
         /\ CogArray(meta).dimension_names = <<>>
         /\ CogArray(meta).geozarr = {spatial_transform(meta)}
<1> DEFINE Banded(b) == IF meta.samples_per_pixel > 1 THEN <<b>> ELSE <<>>
           n == cog_dim_names(meta)
<1>1. n = <<n[1], n[2]>>
  BY DEF cog_dim_names
<1>2. /\ CogArray(meta).shape =
           Banded(meta.samples_per_pixel) \o <<meta.image_length, meta.image_width>>
      /\ CogArray(meta).chunk_shape =
           Banded(meta.samples_per_pixel) \o <<meta.tile_length, meta.tile_width>>
      /\ CogArray(meta).array_dimensions = Banded("band") \o n
      /\ CogArray(meta).dimension_names = <<>>
      /\ CogArray(meta).geozarr = {spatial_transform(meta)}
  BY DEF CogArray
<1> HIDE DEF n
<1>3. /\ CogArray(meta).array_dimensions = Banded("band") \o <<n[1], n[2]>>
  BY <1>1, <1>2
<1>4. ASSUME NEW b, NEW p, NEW q
      PROVE  Banded(b) \o <<p, q>> = IF meta.samples_per_pixel > 1 THEN <<b, p, q>> ELSE <<p, q>>
  BY AfterFirst
<1>5. Banded("band") \o <<n[1], n[2]>>
        = IF meta.samples_per_pixel > 1 THEN <<"band", n[1], n[2]>> ELSE <<n[1], n[2]>>
  BY <1>4
<1>6. Banded(meta.samples_per_pixel) \o <<meta.image_length, meta.image_width>>
        = IF meta.samples_per_pixel > 1
          THEN <<meta.samples_per_pixel, meta.image_length, meta.image_width>>
          ELSE <<meta.image_length, meta.image_width>>
  BY <1>4
<1>9. Banded(meta.samples_per_pixel) \o <<meta.tile_length, meta.tile_width>>
        = IF meta.samples_per_pixel > 1
          THEN <<meta.samples_per_pixel, meta.tile_length, meta.tile_width>>
          ELSE <<meta.tile_length, meta.tile_width>>
  BY <1>4
<1> HIDE DEF Banded
<1>7. CogArray(meta).array_dimensions =
        IF meta.samples_per_pixel > 1 THEN <<"band", n[1], n[2]>> ELSE <<n[1], n[2]>>
  BY <1>3, <1>5, Zenon
<1>8. CogArray(meta).shape =
        IF meta.samples_per_pixel > 1
        THEN <<meta.samples_per_pixel, meta.image_length, meta.image_width>>
        ELSE <<meta.image_length, meta.image_width>>
  BY <1>2, <1>6, Zenon
<1>10. CogArray(meta).chunk_shape =
         IF meta.samples_per_pixel > 1
         THEN <<meta.samples_per_pixel, meta.tile_length, meta.tile_width>>
         ELSE <<meta.tile_length, meta.tile_width>>
  BY <1>2, <1>9, Zenon
<1> QED
  BY <1>2, <1>7, <1>8, <1>10, Zenon DEF n

AxisNames(names, first) ==
  names[first] \in {"lat", "y"} /\ names[first + 1] \in {"lon", "x"}

(* An image's dimensions are its rows and columns, perhaps after its bands.  *)
LEMMA CogNames ==
  ASSUME NEW meta
  PROVE  \E n \in {2, 3} :
           /\ Len(CogArray(meta).shape) = n /\ DOMAIN CogArray(meta).shape = 1 .. n
           /\ AxisNames(DimNames(CogArray(meta)), n - 1)
           /\ n = 3 => DimNames(CogArray(meta))[1] = "band"
<1> DEFINE a == CogArray(meta)
           x == cog_dim_names(meta)[1]
           y == cog_dim_names(meta)[2]
<1>1. x \in {"lat", "y"} /\ y \in {"lon", "x"}
  BY DEF cog_dim_names
<1>2. /\ a.shape = IF meta.samples_per_pixel > 1
                   THEN <<meta.samples_per_pixel, meta.image_length, meta.image_width>>
                   ELSE <<meta.image_length, meta.image_width>>
      /\ a.array_dimensions =
           IF meta.samples_per_pixel > 1 THEN <<"band", x, y>> ELSE <<x, y>>
      /\ a.dimension_names = <<>>
  BY CogArrayIs
<1> HIDE DEF a, x, y
<1>3. CASE meta.samples_per_pixel > 1
  <2>1. Len(a.shape) = 3 /\ DOMAIN a.shape = 1 .. 3
    BY <1>2, <1>3
  <2>2. /\ Len(a.array_dimensions) = 3 /\ DOMAIN a.array_dimensions = 1 .. 3
        /\ a.array_dimensions[1] = "band" /\ a.array_dimensions[2] = x /\ a.array_dimensions[3] = y
    BY <1>2, <1>3
  <2>3. \A d \in 1 .. 3 : a.array_dimensions[d] # ""
    <3>1. 1 .. 3 = {1, 2, 3}
      OBVIOUS
    <3> QED
      BY <1>1, <2>2, <3>1
  <2>4. DimNames(a) = a.array_dimensions
    <3>1. 3 \in Nat \ {0} /\ a.dimension_names = <<>>
      BY <1>2
    <3> HIDE DEF a
    <3> QED
      BY <2>1, <2>2, <2>3, <3>1, NamesAre, Zenon
  <2> QED
    BY <1>1, <2>1, <2>2, <2>4 DEF AxisNames, a
<1>4. CASE ~(meta.samples_per_pixel > 1)
  <2>1. Len(a.shape) = 2 /\ DOMAIN a.shape = 1 .. 2
    BY <1>2, <1>4
  <2>2. /\ Len(a.array_dimensions) = 2 /\ DOMAIN a.array_dimensions = 1 .. 2
        /\ a.array_dimensions[1] = x /\ a.array_dimensions[2] = y
    BY <1>2, <1>4
  <2>3. \A d \in 1 .. 2 : a.array_dimensions[d] # ""
    <3>1. 1 .. 2 = {1, 2}
      OBVIOUS
    <3> QED
      BY <1>1, <2>2, <3>1
  <2>4. DimNames(a) = a.array_dimensions
    <3>1. 2 \in Nat \ {0} /\ a.dimension_names = <<>>
      BY <1>2
    <3> HIDE DEF a
    <3> QED
      BY <2>1, <2>2, <2>3, <3>1, NamesAre, Zenon
  <2> QED
    BY <1>1, <2>1, <2>2, <2>4 DEF AxisNames, a
<1> QED
  BY <1>3, <1>4

(* The transform of a file, as its metadata gives it.                        *)
TransformOf(f) == spatial_transform(parse_cog_metadata(f))

(* One asset is chosen of those there are.                                   *)
LEMMA AssetChosen ==
  ASSUME NEW src, NEW asset, IsFiniteSet(StacAssets(src)), \A a, b \in asset : a = b,
         SelectedAssets(src, asset) # {}
  PROVE  \E n \in StacAssets(src) :
           SelectedAssets(src, asset) = {n} /\ The(SelectedAssets(src, asset)) = n
<1> DEFINE A == StacAssets(src)
           C == SelectedAssets(src, asset)
<1>1. C = IF asset = {} /\ Cardinality(A) > 1 THEN {}
          ELSE IF asset = {} THEN A
          ELSE asset \cap A
  BY DEF SelectedAssets
<1>2. IsFiniteSet(A) /\ C # {}
  OBVIOUS
<1> HIDE DEF A, C
<1>3. \E n \in A : C = {n}
  <2>1. CASE asset = {}
    <3>1. C = A /\ ~(Cardinality(A) > 1)
      BY <1>1, <1>2, <2>1
    <3>2. Cardinality(A) \in Nat /\ Cardinality(A) # 0
      BY <1>2, <3>1, FS_CardinalityType, FS_EmptySet
    <3>3. Cardinality(A) = 1
      BY <3>1, <3>2
    <3>4. PICK n : A = {n}
      BY <1>2, <3>3, FS_Singleton
    <3> QED
      BY <3>1, <3>4
  <2>2. CASE asset # {}
    <3>1. C = asset \cap A
      BY <1>1, <2>2
    <3>2. PICK n : n \in asset \cap A
      BY <1>2, <3>1
    <3> QED
      BY <3>1, <3>2
  <2> QED
    BY <2>1, <2>2
<1> QED
  BY <1>3 DEF The, A, C

(* The dataset of an image has its file's transform and no coordinates.      *)
IsImage(ds, f) ==
  \E n \in {2, 3} :
    /\ Len(ds.shape) = n /\ DOMAIN ds.shape = 1 .. n
    /\ AxisNames(ds.dim_names, n - 1)
    /\ \A d \in 1 .. n : ds.coords[d] = <<>>
    /\ ds.scale = TransformOf(f).scale /\ ds.translation = TransformOf(f).translation

(* It has when the array is that file's and nothing beside it is named alike. *)
LEMMA ImageArray ==
  ASSUME NEW src, NEW asset, NEW f, src.kind \in {"cog", "item"},
         ArrayOf(src, The(SelectedAssets(src, asset))) = CogArray(parse_cog_metadata(f)),
         DOMAIN src.siblings \cap {"band", "lat", "lon", "y", "x"} = {}
  PROVE  IsImage(Opened(src, asset), f)
<1> DEFINE array == CogArray(parse_cog_metadata(f))
           ds == Opened(src, asset)
           names == DimNames(array)
<1>1. PICK n \in {2, 3} :
        /\ Len(array.shape) = n /\ DOMAIN array.shape = 1 .. n
        /\ AxisNames(names, n - 1) /\ (n = 3 => names[1] = "band")
  BY CogNames
<1>2. array.geozarr = {TransformOf(f)}
  BY CogArrayIs DEF TransformOf
<1> HIDE DEF array
<1>3. The({TransformOf(f)}) = TransformOf(f)
  BY DEF The
<1>4. /\ ds.shape = array.shape /\ ds.dim_names = names
      /\ ds.coords = [d \in DOMAIN array.shape |-> Coordinates(src, names[d], array.shape[d])]
      /\ ds.scale = (IF array.geozarr = {} THEN NoTransform ELSE The(array.geozarr)).scale
      /\ ds.translation = (IF array.geozarr = {} THEN NoTransform ELSE The(array.geozarr)).translation
  <2>1. ArrayOf(src, The(SelectedAssets(src, asset))) = array
    BY DEF array
  <2> QED
    BY <2>1 DEF Opened
<1>5. ds.scale = TransformOf(f).scale /\ ds.translation = TransformOf(f).translation
  BY <1>2, <1>3, <1>4
<1> HIDE DEF ds, names
<1>6. ASSUME NEW d \in 1 .. n
      PROVE  ds.coords[d] = <<>>
  <2>1. names[d] \in {"band", "lat", "lon", "y", "x"}
    <3>1. d \in {n - 1, n} \/ (n = 3 /\ d = 1)
      OBVIOUS
    <3>2. n = (n - 1) + 1
      OBVIOUS
    <3> QED
      BY <1>1, <3>1, <3>2 DEF AxisNames
  <2>2. names[d] \notin DOMAIN src.siblings
    BY <2>1
  <2>3. OwnCoordinates(src) = <<>> /\ DOMAIN <<>> = {}
    BY DEF OwnCoordinates
  <2>4. Coordinates(src, names[d], array.shape[d]) = <<>>
    BY <2>2, <2>3 DEF Coordinates, Readable
  <2> QED
    BY <1>1, <1>4, <2>4
<1> QED
  BY <1>1, <1>4, <1>5, <1>6 DEF IsImage, ds

(* The array of an image is made of the file it shows.                       *)
LEMMA ImageFile ==
  ASSUME NEW r \in Requests, r.source.kind \in {"cog", "item"}, ~OpenError(r.source, r.asset),
         NEW f, r.source.kind = "cog" => f = r.source.file,
         r.source.kind = "item" => \E n \in SelectedAssets(r.source, r.asset) : f = r.source.files[n]
  PROVE  /\ ArrayOf(r.source, The(SelectedAssets(r.source, r.asset)))
              = CogArray(parse_cog_metadata(f))
         /\ Surveyed(f) /\ Tiled(f)
         /\ DOMAIN r.source.siblings \cap {"band", "lat", "lon", "y", "x"} = {}
<1> DEFINE src == r.source
           asset == r.asset
<1>1. Pictured(r)
  BY ImagesAssumption
<1>2. /\ IsFiniteSet(StacAssets(src)) /\ \A a, b \in asset : a = b
      /\ DOMAIN src.siblings \cap {"band", "lat", "lon", "y", "x"} = {}
      /\ \A g \in Files(src) : Surveyed(g) /\ Tiled(g)
  BY <1>1 DEF Pictured
<1>3. /\ f \in Files(src)
      /\ ArrayOf(src, The(SelectedAssets(src, asset))) = CogArray(parse_cog_metadata(f))
  <2>1. CASE src.kind = "cog"
    BY <2>1 DEF Files, ArrayOf
  <2>2. CASE src.kind = "item"
    <3>1. PICK n \in SelectedAssets(src, asset) : f = src.files[n]
      BY <2>2
    <3>2. PICK m \in StacAssets(src) :
            SelectedAssets(src, asset) = {m} /\ The(SelectedAssets(src, asset)) = m
      BY <1>2, <3>1, AssetChosen
    <3>3. n = m /\ n \in DOMAIN src.files
      BY <2>2, <3>1, <3>2 DEF StacAssets
    <3> QED
      BY <2>2, <3>1, <3>2, <3>3 DEF Files, ArrayOf
  <2> QED
    BY <2>1, <2>2
<1> QED
  BY <1>2, <1>3

(* An image opens as a dataset with the transform of the file it shows.      *)
LEMMA ImageOpened ==
  ASSUME NEW r \in Requests, r.source.kind \in {"cog", "item"}, ~OpenError(r.source, r.asset),
         NEW f, r.source.kind = "cog" => f = r.source.file,
         r.source.kind = "item" => \E n \in SelectedAssets(r.source, r.asset) : f = r.source.files[n]
  PROVE  IsImage(Opened(r.source, r.asset), f) /\ Located(f, TransformOf(f))
BY ImageFile, ImageArray, SurveyedTransform DEF TransformOf

(* The sorted items are the items.                                           *)
LEMMA ItemsSorted ==
  ASSUME NEW src, NEW n \in Nat \ {0}, DOMAIN src.items = 1 .. n,
         \A k \in 1 .. n : src.items[k].time \in Int
  PROVE  /\ DOMAIN SortedItems(src) = 1 .. n
         /\ \A i \in 1 .. n : \E k \in 1 .. n : SortedItems(src)[i] = src.items[k]
<1> DEFINE t == [k \in 1 .. n |-> src.items[k].time]
           Sooner(i, j) == \/ src.items[i].time < src.items[j].time
                           \/ src.items[i].time = src.items[j].time /\ i < j
           Earlier(i) == {j \in DOMAIN src.items : Sooner(j, i)}
           R == {p \in (1 .. n) \X (1 .. n) : Sooner(p[1], p[2])}
           chosen(i) == CHOOSE k \in DOMAIN src.items : Cardinality(Earlier(k)) = i - 1
<1>1. \A k \in 1 .. n : src.items[k].time \in Int /\ k \in Int
  OBVIOUS
<1>2. \A x, y \in 1 .. n : <<x, y>> \in R <=> Sooner(x, y)
  OBVIOUS
<1>3. OrdersStrictly(R, 1 .. n)
  <2>1. \A x \in 1 .. n : ~Sooner(x, x)
    BY <1>1
  <2>2. \A x, y, z \in 1 .. n : Sooner(x, y) /\ Sooner(y, z) => Sooner(x, z)
    BY <1>1
  <2>3. \A x, y \in 1 .. n : x = y \/ Sooner(x, y) \/ Sooner(y, x)
    BY <1>1
  <2> HIDE DEF R, Sooner
  <2> QED
    BY <1>2, <2>1, <2>2, <2>3 DEF OrdersStrictly
<1>4. \A x \in 1 .. n : Before(R, 1 .. n, x) = Earlier(x)
  <2> HIDE DEF R
  <2> QED
    BY <1>2 DEF Before
<1>5. IsFiniteSet(1 .. n) /\ Cardinality(1 .. n) = n
  BY FS_Interval
<1> HIDE DEF R
<1>6. \A i \in 1 .. Cardinality(1 .. n) :
        \E x \in 1 .. n : Cardinality(Before(R, 1 .. n, x)) = i - 1
  BY <1>3, <1>5, PlacesOfOrdered
<1>7. \A i \in 1 .. n : \E x \in 1 .. n : Cardinality(Earlier(x)) = i - 1
  BY <1>4, <1>5, <1>6
<1>8. /\ DOMAIN SortedItems(src) = 1 .. n
      /\ \A i \in 1 .. n : SortedItems(src)[i] = src.items[chosen(i)]
  <2>1. SortedItems(src) = [i \in DOMAIN src.items |-> src.items[chosen(i)]]
    BY DEF SortedItems
  <2> HIDE DEF chosen
  <2> QED
    BY <2>1
<1> HIDE DEF Earlier
<1>9. \A i \in 1 .. n : chosen(i) \in 1 .. n
  BY <1>7
<1> QED
  BY <1>8, <1>9

(* The length of a list of n elements.                                       *)
LEMMA ListLength ==
  ASSUME NEW n \in Nat, NEW f, f = [i \in 1 .. n |-> f[i]]
  PROVE  Len(f) = n /\ DOMAIN f = 1 .. n
<1> DEFINE S == {f[k] : k \in 1 .. n}
<1>1. \A k \in 1 .. n : f[k] \in S
  OBVIOUS
<1> HIDE DEF S
<1>2. f \in [1 .. n -> S]
  BY <1>1
<1>3. f \in Seq(S)
  BY <1>2, SeqDef
<1> QED
  BY <1>2, <1>3

(* The files of a stack agree in their sizes, tiles, axes and transform.     *)
LEMMA StackGrid ==
  ASSUME NEW src, src.kind = "stack", ~ResolveError(src), NEW f \in Files(src), NEW g \in Files(src)
  PROVE  /\ parse_cog_metadata(f).image_length = parse_cog_metadata(g).image_length
         /\ parse_cog_metadata(f).image_width = parse_cog_metadata(g).image_width
         /\ parse_cog_metadata(f).tile_length = parse_cog_metadata(g).tile_length
         /\ parse_cog_metadata(f).tile_width = parse_cog_metadata(g).tile_width
         /\ parse_cog_metadata(f).epsg = parse_cog_metadata(g).epsg
         /\ TransformOf(f) = TransformOf(g)
<1> DEFINE m == parse_cog_metadata(f)
           l == parse_cog_metadata(g)
<1>1. m \in StackMetas(src) /\ l \in StackMetas(src)
  BY DEF Files, StackMetas
<1>2. \A m1, m2 \in StackMetas(src) : GridOf(m1) = GridOf(m2)
  BY DEF ResolveError
<1>3. GridOf(m) = GridOf(l)
  BY <1>1, <1>2
<1>4. \A e : GridOf(e) = <<e.image_width, e.image_length, e.tile_width, e.tile_length,
                           e.epsg, spatial_transform(e), zarr_dtype(e)>>
  BY DEF GridOf
<1> HIDE DEF m, l
<1>5. /\ m.image_length = l.image_length /\ m.image_width = l.image_width
      /\ m.tile_length = l.tile_length /\ m.tile_width = l.tile_width
      /\ m.epsg = l.epsg /\ spatial_transform(m) = spatial_transform(l)
  BY <1>3, <1>4
<1> QED
  BY <1>5 DEF m, l, TransformOf

(* The array of a stack is made of its first item's.                         *)
LEMMA StackArrayIs ==
  ASSUME NEW src, NEW name, NEW f, f = SortedItems(src)[1].files[name]
  PROVE  LET meta == parse_cog_metadata(f)
         IN /\ StackArray(src, name).shape =
                 <<Len(src.items), meta.image_length, meta.image_width>>
            /\ StackArray(src, name).chunk_shape =
                 <<1, CogArray(meta).chunk_shape[1], CogArray(meta).chunk_shape[2]>>
            /\ StackArray(src, name).array_dimensions =
                 <<"time", cog_dim_names(meta)[1], cog_dim_names(meta)[2]>>
            /\ StackArray(src, name).dimension_names = <<>>
<1> DEFINE meta == parse_cog_metadata(f)
           n == cog_dim_names(meta)
           child == CogArray(meta)
           shape == <<Len(src.items), meta.image_length, meta.image_width>>
           chunks == <<1, child.chunk_shape[1], child.chunk_shape[2]>>
           dims == <<"time">> \o n
<1>1. StackArray(src, name) =
        [child EXCEPT !.shape = shape, !.chunk_shape = chunks,
                      !.array_dimensions = dims, !.geozarr = {}]
  BY DEF StackArray
<1>2. /\ child = [shape |-> child.shape, chunk_shape |-> child.chunk_shape,
                   dimension_names |-> child.dimension_names,
                   array_dimensions |-> child.array_dimensions, geozarr |-> child.geozarr,
                   element_bytes |-> child.element_bytes, opens |-> child.opens,
                   fill_value |-> child.fill_value]
      /\ child.dimension_names = <<>>
  <2>1. child.dimension_names = <<>>
    BY CogArrayIs
  <2> QED
    BY <2>1 DEF CogArray
<1>3. n = <<n[1], n[2]>>
  BY DEF cog_dim_names
<1> HIDE DEF n
<1>4. <<"time">> \o <<n[1], n[2]>> = <<"time", n[1], n[2]>>
  BY AfterFirst
<1>5. dims = <<"time", n[1], n[2]>>
  BY <1>3, <1>4
<1> HIDE DEF child, shape, chunks, dims
<1>6. /\ StackArray(src, name).shape = shape
      /\ StackArray(src, name).chunk_shape = chunks
      /\ StackArray(src, name).array_dimensions = dims
      /\ StackArray(src, name).dimension_names = <<>>
  BY <1>1, <1>2
<1> QED
  BY <1>5, <1>6 DEF n, shape, chunks, child

Along(f, axis, n) == [i \in 1 .. n |-> apply_transform(TransformOf(f), axis, i - 1)]

Times(src) == [k \in DOMAIN SortedItems(src) |-> SortedItems(src)[k].time]

(* Beside a stack's array are the times of its items, and the coordinates of *)
(* its rows and columns.                                                     *)
LEMMA StackAxes ==
  ASSUME NEW src, NEW f,
         f = The({SortedItems(src)[1].files[n] : n \in StackAssets(src)}),
         NEW meta, meta = parse_cog_metadata(f), NEW y, NEW x,
         y = cog_dim_names(meta)[1], x = cog_dim_names(meta)[2]
  PROVE  /\ y \in DOMAIN StackCoordinates(src) /\ x \in DOMAIN StackCoordinates(src)
         /\ StackCoordinates(src)[y] = CoordinateArray(Along(f, 1, meta.image_length))
         /\ StackCoordinates(src)[x] = CoordinateArray(Along(f, 2, meta.image_width))
         /\ "time" \in DOMAIN StackCoordinates(src)
         /\ StackCoordinates(src)["time"] = CoordinateArray(Times(src))
<1> DEFINE names == <<"time">> \o cog_dim_names(meta)
           axes == <<Times(src), Along(f, 1, meta.image_length), Along(f, 2, meta.image_width)>>
           Index(n) == The({d \in 1 .. 3 : names[d] = n})
<1>1. StackCoordinates(src) = [n \in ToSet(names) |-> CoordinateArray(axes[Index(n)])]
  BY DEF StackCoordinates, Along, TransformOf, Times
<1>2. names = <<"time", y, x>>
  <2>1. cog_dim_names(meta) = <<y, x>>
    BY DEF cog_dim_names
  <2>2. <<"time">> \o <<y, x>> = <<"time", y, x>>
    BY AfterFirst
  <2> QED
    BY <2>1, <2>2, Zenon
<1>3. y \in {"lat", "y"} /\ x \in {"lon", "x"}
  BY DEF cog_dim_names
<1> HIDE DEF names
<1>4. /\ DOMAIN names = 1 .. 3 /\ 1 .. 3 = {1, 2, 3}
      /\ names[1] = "time" /\ names[2] = y /\ names[3] = x
  BY <1>2
<1>5. y \in ToSet(names) /\ x \in ToSet(names) /\ "time" \in ToSet(names)
  BY <1>4 DEF ToSet
<1>6. Index(y) = 2 /\ Index(x) = 3 /\ Index("time") = 1
  <2>1. /\ {d \in 1 .. 3 : names[d] = y} = {2} /\ {d \in 1 .. 3 : names[d] = x} = {3}
        /\ {d \in 1 .. 3 : names[d] = "time"} = {1}
    BY <1>3, <1>4
  <2>2. The({2}) = 2 /\ The({3}) = 3 /\ The({1}) = 1
    BY DEF The
  <2> QED
    BY <2>1, <2>2
<1>7. /\ axes[2] = Along(f, 1, meta.image_length) /\ axes[3] = Along(f, 2, meta.image_width)
      /\ axes[1] = Times(src)
  OBVIOUS
<1> HIDE DEF Index, axes
<1> QED
  BY <1>1, <1>5, <1>6, <1>7

(* A stack's slices are its items in order of time, a tile of one image a     *)
(* chunk, and its times are theirs.                                           *)
IsSliced(ds, src) ==
  /\ ds.shape[1] = Len(src.items) /\ Len(ds.chunk_shape) = 3 /\ ds.chunk_shape[1] = 1
  /\ \A i \in 1 .. ds.shape[1] :
       /\ \E k \in DOMAIN src.items : SortedItems(src)[i] = src.items[k]
       /\ ds.coords[1][i] = SortedItems(src)[i].time
  /\ 1 \notin ds.lon_0_360_dims /\ ds.coords[1] # <<>>
  /\ \A g \in Files(src) :
       LET meta == parse_cog_metadata(g)
       IN /\ meta.samples_per_pixel = 1
          /\ ds.shape[2] = meta.image_length /\ ds.shape[3] = meta.image_width
          /\ ds.chunk_shape[2] = meta.tile_length /\ ds.chunk_shape[3] = meta.tile_width

(* A stack's files have one transform, and its coordinates are its pixels'.   *)
IsStack(ds, t) ==
  /\ Len(ds.shape) = 3 /\ ds.dim_names[1] = "time" /\ AxisNames(ds.dim_names, 2)
  /\ \A d \in {2, 3} :
       /\ d \notin ds.lon_0_360_dims /\ ds.coords[d] # <<>>
       /\ \A i \in 0 .. ds.shape[d] - 1 : ds.coords[d][i + 1] = apply_transform(t, d - 1, i)

(* A coordinate array of the right length is read.                            *)
LEMMA AxisRead ==
  ASSUME NEW src, NEW name, NEW values, NEW n \in Nat, n < MaxCoordinates, Len(values) = n,
         name \in DOMAIN OwnCoordinates(src), OwnCoordinates(src)[name] = CoordinateArray(values)
  PROVE  Coordinates(src, name, n) = values
<1> DEFINE own == OwnCoordinates(src)
<1>1. /\ own[name].rank = 1 /\ own[name].data_type = "f8" /\ own[name].readable = TRUE
      /\ own[name].values = values
  BY DEF CoordinateArray
<1>2. Readable(own, name, n)
  BY <1>1 DEF Readable
<1> QED
  BY <1>1, <1>2 DEF Coordinates

(* A stack opens as a dataset with the transform of its files.                *)
LEMMA StackOpened ==
  ASSUME NEW r \in Requests, r.source.kind = "stack", ~OpenError(r.source, r.asset)
  PROVE  \E t : /\ IsStack(Opened(r.source, r.asset), t)
                /\ \A f \in Files(r.source) : Located(f, t)
                /\ IsSliced(Opened(r.source, r.asset), r.source)
<1> DEFINE src == r.source
           asset == r.asset
           name == The(SelectedAssets(src, asset))
           some == The({SortedItems(src)[1].files[n] : n \in StackAssets(src)})
           f == SortedItems(src)[1].files[name]
           meta == parse_cog_metadata(f)
           t == TransformOf(f)
           ds == Opened(src, asset)
           y == cog_dim_names(meta)[1]
           x == cog_dim_names(meta)[2]
           array == StackArray(src, name)
<1>1. Pictured(r)
  BY ImagesAssumption
<1>2. /\ IsFiniteSet(StacAssets(src)) /\ \A a, b \in asset : a = b
      /\ \A g \in Files(src) : Surveyed(g)
      /\ Len(src.items) \in Nat \ {0} /\ DOMAIN src.items = 1 .. Len(src.items)
      /\ \A k \in DOMAIN src.items : src.items[k].time \in Int
      /\ Len(src.items) < MaxCoordinates
      /\ \A g \in Files(src) :
           /\ parse_cog_metadata(g).samples_per_pixel = 1
           /\ parse_cog_metadata(g).image_length < MaxCoordinates
           /\ parse_cog_metadata(g).image_width < MaxCoordinates
           /\ parse_cog_metadata(g).epsg = 4326 =>
                \A i \in 0 .. parse_cog_metadata(g).image_width - 1 : Centre(g, "lon", i) <= 180
  BY <1>1 DEF Pictured
<1>3. ~ResolveError(src) /\ StackAssets(src) # {} /\ SelectedAssets(src, asset) # {}
  <2>1. ~ResolveError(src)
    BY DEF OpenError
  <2>2. StackAssets(src) # {}
    BY <2>1 DEF ResolveError
  <2>3. StacAssets(src) = StackAssets(src)
    BY DEF StacAssets
  <2> QED
    BY <2>1, <2>2, <2>3 DEF OpenError
<1>4. name \in StackAssets(src)
  <2>1. PICK m \in StacAssets(src) : name = m
    BY <1>2, <1>3, AssetChosen
  <2> QED
    BY <2>1 DEF StacAssets
<1>28. PICK count \in Nat \ {0} :
         /\ count = Len(src.items) /\ DOMAIN SortedItems(src) = 1 .. count
         /\ \A i \in 1 .. count : \E k \in DOMAIN src.items : SortedItems(src)[i] = src.items[k]
  <2>1. PICK n \in Nat \ {0} : n = Len(src.items)
    BY <1>2
  <2>2. /\ DOMAIN src.items = 1 .. n
        /\ \A k \in 1 .. n : src.items[k].time \in Int
    BY <1>2, <2>1
  <2>3. /\ DOMAIN SortedItems(src) = 1 .. n
        /\ \A i \in 1 .. n : \E k \in 1 .. n : SortedItems(src)[i] = src.items[k]
    BY <2>2, ItemsSorted
  <2> QED
    BY <2>1, <2>2, <2>3
<1>5. PICK k \in DOMAIN src.items : SortedItems(src)[1] = src.items[k]
  <2>1. 1 \in 1 .. count
    OBVIOUS
  <2> QED
    BY <1>28, <2>1
<1>6. f \in Files(src) /\ some \in Files(src)
  <2>1. \A n \in StackAssets(src) : SortedItems(src)[1].files[n] \in Files(src)
    BY <1>5 DEF Files
  <2>2. some \in {SortedItems(src)[1].files[n] : n \in StackAssets(src)}
    BY <1>4 DEF The
  <2> QED
    BY <1>4, <2>1, <2>2
<1>7. /\ parse_cog_metadata(some).image_length = meta.image_length
      /\ parse_cog_metadata(some).image_width = meta.image_width
      /\ parse_cog_metadata(some).epsg = meta.epsg
      /\ TransformOf(some) = t
      /\ \A g \in Files(src) :
           /\ TransformOf(g) = t
           /\ parse_cog_metadata(g).image_length = meta.image_length
           /\ parse_cog_metadata(g).image_width = meta.image_width
           /\ parse_cog_metadata(g).tile_length = meta.tile_length
           /\ parse_cog_metadata(g).tile_width = meta.tile_width
  BY <1>3, <1>6, StackGrid
<1>8. \A g \in Files(src) : Located(g, t)
  BY <1>2, <1>7, SurveyedTransform DEF TransformOf
<1>9. /\ array.shape = <<Len(src.items), meta.image_length, meta.image_width>>
      /\ array.array_dimensions = <<"time", y, x>> /\ array.dimension_names = <<>>
      /\ array.chunk_shape = <<1, CogArray(meta).chunk_shape[1], CogArray(meta).chunk_shape[2]>>
  BY StackArrayIs
<1>29. CogArray(meta).chunk_shape = <<meta.tile_length, meta.tile_width>>
  <2>1. meta.samples_per_pixel = 1
    BY <1>2, <1>6
  <2> DEFINE a == CogArray(meta)
  <2>2. a.chunk_shape = IF meta.samples_per_pixel > 1
                        THEN <<meta.samples_per_pixel, meta.tile_length, meta.tile_width>>
                        ELSE <<meta.tile_length, meta.tile_width>>
    BY CogArrayIs
  <2> HIDE DEF a, meta
  <2>3. ~(meta.samples_per_pixel > 1)
    BY <2>1
  <2> QED
    BY <2>2, <2>3 DEF a
<1>30. array.chunk_shape = <<1, meta.tile_length, meta.tile_width>>
  <2> DEFINE c == CogArray(meta).chunk_shape
  <2>1. array.chunk_shape = <<1, c[1], c[2]>> /\ c = <<meta.tile_length, meta.tile_width>>
    BY <1>9, <1>29
  <2> HIDE DEF c, array, meta
  <2> QED
    BY <2>1
<1>10. /\ ds.shape = array.shape /\ ds.dim_names = DimNames(array)
       /\ ds.chunk_shape = array.chunk_shape
       /\ ds.coords = [d \in DOMAIN array.shape |->
                         Coordinates(src, DimNames(array)[d], array.shape[d])]
       /\ ds.lon_0_360_dims =
            {d \in DOMAIN array.shape : Is0To360(DimNames(array)[d], ds.coords[d])}
  <2>1. ArrayOf(src, name) = array
    BY DEF ArrayOf
  <2> HIDE DEF name, array
  <2> QED
    BY <2>1 DEF Opened, name
<1>11. /\ y \in {"lat", "y"} /\ x \in {"lon", "x"} /\ (x = "lon" => meta.epsg = 4326)
  BY DEF cog_dim_names
<1>27. y # "" /\ x # "" /\ "time" # ""
  <2>1. y \in {"lat", "y"} /\ x \in {"lon", "x"}
    BY <1>11
  <2> QED
    BY <2>1, ZenonT(30)
<1>12. Regular(ds)
  BY RequestsAssumption
<1>13. /\ y = cog_dim_names(parse_cog_metadata(some))[1]
       /\ x = cog_dim_names(parse_cog_metadata(some))[2]
  <2>1. ASSUME NEW a, NEW b, a.epsg = b.epsg
        PROVE  cog_dim_names(a) = cog_dim_names(b)
    BY <2>1 DEF cog_dim_names
  <2>2. cog_dim_names(parse_cog_metadata(some)) = cog_dim_names(meta)
    BY <1>7, <2>1
  <2> QED
    BY <2>2
<1>14. /\ y \in DOMAIN OwnCoordinates(src) /\ x \in DOMAIN OwnCoordinates(src)
       /\ OwnCoordinates(src)[y] = CoordinateArray(Along(some, 1, meta.image_length))
       /\ OwnCoordinates(src)[x] = CoordinateArray(Along(some, 2, meta.image_width))
       /\ "time" \in DOMAIN OwnCoordinates(src)
       /\ OwnCoordinates(src)["time"] = CoordinateArray(Times(src))
  <2>1. OwnCoordinates(src) = StackCoordinates(src)
    BY DEF OwnCoordinates
  <2> DEFINE own == parse_cog_metadata(some)
  <2> HIDE DEF meta, y, x
  <2>2. /\ y = cog_dim_names(own)[1] /\ x = cog_dim_names(own)[2]
        /\ own.image_length = meta.image_length /\ own.image_width = meta.image_width
    BY <1>7, <1>13
  <2>3. own = parse_cog_metadata(some)
    OBVIOUS
  <2> HIDE DEF own
  <2>4. /\ y \in DOMAIN StackCoordinates(src) /\ x \in DOMAIN StackCoordinates(src)
        /\ StackCoordinates(src)[y] = CoordinateArray(Along(some, 1, own.image_length))
        /\ StackCoordinates(src)[x] = CoordinateArray(Along(some, 2, own.image_width))
        /\ "time" \in DOMAIN StackCoordinates(src)
        /\ StackCoordinates(src)["time"] = CoordinateArray(Times(src))
    BY <2>2, <2>3, StackAxes
  <2> QED
    BY <2>1, <2>2, <2>4
<1> HIDE DEF name, some, f, meta, t, ds, y, x, array
<1>15. PICK length, width \in Nat \ {0} :
         /\ array.shape = <<count, length, width>>
         /\ length = meta.image_length /\ width = meta.image_width
  <2>1. ds.shape \in Seq(Nat \ {0})
    BY <1>12 DEF Regular
  <2>2. <<Len(src.items), meta.image_length, meta.image_width>> \in Seq(Nat \ {0})
    BY <1>9, <1>10, <2>1
  <2>3. meta.image_length \in Nat \ {0} /\ meta.image_width \in Nat \ {0}
    BY <2>2
  <2> QED
    BY <1>9, <1>28, <2>3
<1>16. /\ Len(array.shape) = 3 /\ DOMAIN array.shape = 1 .. 3
       /\ array.shape[1] = count /\ array.shape[2] = length /\ array.shape[3] = width
  BY <1>15
<1>17. DimNames(array) = <<"time", y, x>>
  <2>1. /\ Len(array.array_dimensions) = 3 /\ DOMAIN array.array_dimensions = 1 .. 3
        /\ \A d \in 1 .. 3 : array.array_dimensions[d] # ""
    <3>1. 1 .. 3 = {1, 2, 3}
      OBVIOUS
    <3>2. /\ Len(array.array_dimensions) = 3 /\ DOMAIN array.array_dimensions = 1 .. 3
          /\ array.array_dimensions[1] = "time" /\ array.array_dimensions[2] = y
          /\ array.array_dimensions[3] = x
      BY <1>9
    <3>3. \A d \in {1, 2, 3} : array.array_dimensions[d] # ""
      BY <1>27, <3>2, Zenon
    <3>4. \A d \in 1 .. 3 : array.array_dimensions[d] # ""
      BY <3>1, <3>3, Zenon
    <3> QED
      BY <3>2, <3>4, Zenon
  <2>2. 3 \in Nat \ {0}
    OBVIOUS
  <2>3. DimNames(array) = array.array_dimensions
    BY <1>9, <1>16, <2>1, <2>2, NamesAre, Zenon
  <2> QED
    BY <1>9, <2>3
<1>18. ds.dim_names[1] = "time" /\ ds.dim_names[2] = y /\ ds.dim_names[3] = x
  BY <1>10, <1>17
<1>19. length < MaxCoordinates /\ width < MaxCoordinates
  BY <1>2, <1>6, <1>15 DEF meta
<1>20. ASSUME NEW axis, NEW n \in Nat
       PROVE  Len(Along(some, axis, n)) = n /\ DOMAIN Along(some, axis, n) = 1 .. n
  <2> DEFINE a == Along(some, axis, n)
  <2>1. a = [i \in 1 .. n |-> a[i]]
    BY DEF Along
  <2> HIDE DEF a
  <2> QED
    BY <2>1, ListLength DEF a
<1>21. /\ ds.coords[2] = Along(some, 1, length) /\ ds.coords[3] = Along(some, 2, width)
  <2>1. ds.coords[2] = Coordinates(src, y, length) /\ ds.coords[3] = Coordinates(src, x, width)
    BY <1>10, <1>16, <1>17
  <2>2. Coordinates(src, y, length) = Along(some, 1, length)
    BY <1>14, <1>15, <1>19, <1>20, AxisRead
  <2>3. Coordinates(src, x, width) = Along(some, 2, width)
    BY <1>14, <1>15, <1>19, <1>20, AxisRead
  <2> QED
    BY <2>1, <2>2, <2>3
<1>22. /\ \A i \in 0 .. length - 1 : ds.coords[2][i + 1] = apply_transform(t, 1, i)
       /\ \A i \in 0 .. width - 1 : ds.coords[3][i + 1] = apply_transform(t, 2, i)
  <2>1. ASSUME NEW axis, NEW n \in Nat, NEW i \in 0 .. n - 1
        PROVE  Along(some, axis, n)[i + 1] = apply_transform(t, axis, i)
    <3>1. i + 1 \in 1 .. n /\ (i + 1) - 1 = i
      OBVIOUS
    <3> QED
      BY <1>7, <3>1 DEF Along
  <2> QED
    BY <1>21, <2>1
<1>23. ds.coords[2] # <<>> /\ ds.coords[3] # <<>>
  <2>1. Len(ds.coords[2]) >= 1 /\ Len(ds.coords[3]) >= 1
    BY <1>20, <1>21
  <2>2. ~(Len(<<>>) >= 1)
    OBVIOUS
  <2> QED
    BY <2>1, <2>2
<1>24. 2 \notin ds.lon_0_360_dims
  BY <1>10, <1>11, <1>18 DEF Is0To360
<1>25. 3 \notin ds.lon_0_360_dims
  <2>1. CASE x # "lon"
    BY <1>10, <1>11, <1>18, <2>1 DEF Is0To360
  <2>2. CASE x = "lon"
    <3>1. DOMAIN ds.coords[3] = 1 .. width /\ ds.coords[3] \in Seq(Int)
      <4>1. DOMAIN ds.coords[3] = 1 .. width
        BY <1>20, <1>21
      <4>2. 3 \in DOMAIN ds.shape
        BY <1>10, <1>16
      <4> QED
        BY <1>12, <4>1, <4>2 DEF Regular
    <3>2. ASSUME NEW j \in DOMAIN ds.coords[3]
          PROVE  ~(ds.coords[3][j] > 180)
      <4>1. PICK i \in 0 .. width - 1 : j = i + 1
        <5>1. j \in 1 .. width
          BY <3>1
        <5>2. j - 1 \in 0 .. width - 1 /\ j = (j - 1) + 1
          BY <5>1
        <5> QED
          BY <5>2
      <4>2. ds.coords[3][j] = apply_transform(t, 2, i)
        BY <1>22, <4>1
      <4>3. apply_transform(t, 2, i) = Centre(f, "lon", i)
        <5>1. Located(f, t) /\ i \in Int
          BY <1>6, <1>8
        <5> QED
          BY <5>1, PixelCentre
      <4>4. Centre(f, "lon", i) <= 180
        BY <1>2, <1>6, <1>11, <1>15, <2>2 DEF meta
      <4>5. ds.coords[3][j] \in Int
        BY <3>1
      <4> QED
        BY <4>2, <4>3, <4>4, <4>5
    <3> QED
      BY <1>10, <3>2 DEF Is0To360
  <2> QED
    BY <2>1, <2>2
<1>26. IsStack(ds, t)
  BY <1>10, <1>11, <1>16, <1>18, <1>22, <1>23, <1>24, <1>25 DEF IsStack, AxisNames
<1>31. ds.coords[1] = Times(src) /\ Len(Times(src)) = count
  <2> DEFINE times == Times(src)
  <2>1. times = [i \in 1 .. count |-> times[i]]
    BY <1>28 DEF Times
  <2> HIDE DEF times
  <2>2. Len(times) = count
    BY <2>1, ListLength
  <2>3. Coordinates(src, "time", count) = times
    <3>1. count \in Nat /\ count < MaxCoordinates
      BY <1>2, <1>28
    <3>2. OwnCoordinates(src)["time"] = CoordinateArray(times)
      BY <1>14 DEF times
    <3> QED
      BY <1>14, <2>2, <3>1, <3>2, AxisRead
  <2>4. ds.coords[1] = Coordinates(src, "time", count)
    BY <1>10, <1>16, <1>17
  <2> QED
    BY <2>2, <2>3, <2>4 DEF times
<1>32. \A i \in 1 .. count : ds.coords[1][i] = SortedItems(src)[i].time
  BY <1>28, <1>31 DEF Times
<1>33. ds.coords[1] # <<>>
  <2>1. Len(ds.coords[1]) >= 1
    BY <1>31
  <2>2. ~(Len(<<>>) >= 1)
    OBVIOUS
  <2> QED
    BY <2>1, <2>2
<1>34. 1 \notin ds.lon_0_360_dims
  BY <1>10, <1>18 DEF Is0To360
<1>35. /\ Len(ds.chunk_shape) = 3 /\ ds.chunk_shape[1] = 1
       /\ ds.chunk_shape[2] = meta.tile_length /\ ds.chunk_shape[3] = meta.tile_width
  BY <1>10, <1>30
<1>36. \A g \in Files(src) :
         /\ parse_cog_metadata(g).samples_per_pixel = 1
         /\ parse_cog_metadata(g).image_length = length
         /\ parse_cog_metadata(g).image_width = width
         /\ parse_cog_metadata(g).tile_length = meta.tile_length
         /\ parse_cog_metadata(g).tile_width = meta.tile_width
  BY <1>2, <1>7, <1>15
<1>37. IsSliced(ds, src)
  BY <1>10, <1>16, <1>28, <1>32, <1>33, <1>34, <1>35, <1>36 DEF IsSliced
<1> QED
  BY <1>8, <1>26, <1>37 DEF ds

(* The columns of an image of several bands with an affine: its transform,    *)
(* made for rows and columns, is applied to bands and rows.                   *)
BandColumns ==
  /\ source.kind \in {"cog", "item"} /\ Rank = 3 /\ dataset.scale # <<>>
  /\ query.projected \cap AllDims # {}

(* The coordinate of a dimension is its pixel's centre, in any file shown.    *)
LEMMA CoordinateCentre ==
  ASSUME Opening, IsOpened(dataset), source.kind # "zarr", ~BandColumns,
         NEW d \in query.projected \cap AllDims, dataset.dim_names[d] # "time",
         NEW cell, NEW t, cell[d] \in 0 .. dataset.shape[d] - 1, NEW f \in Depicted(cell, t)
  PROVE  Coordinate(d, cell[d]) = Centre(f, dataset.dim_names[d], cell[d])
<1>1. /\ request \in Requests /\ ~OpenError(source, request.asset)
      /\ dataset = Opened(source, request.asset)
      /\ source.kind \in {"cog", "item", "stack"} /\ source = request.source
  BY ImagesAssumption DEF Opening, IsOpened, source
<1>2. PICK i \in Int : i = cell[d]
  OBVIOUS
<1>3. CASE source.kind = "stack"
  <2>1. f \in Files(source)
    <3>1. PICK k \in DOMAIN source.items, n \in SelectedAssets(source, request.asset) :
            f = source.items[k].files[n]
      BY <1>3 DEF Depicted
    <3>2. PICK m \in StacAssets(source) : n = m
      <4>1. Pictured(request)
        BY <1>1, <1>3, ImagesAssumption
      <4>2. IsFiniteSet(StacAssets(source)) /\ \A a, b \in request.asset : a = b
        BY <1>1, <4>1 DEF Pictured
      <4>3. PICK m \in StacAssets(source) : SelectedAssets(source, request.asset) = {m}
        BY <3>1, <4>2, AssetChosen
      <4> QED
        BY <4>3
    <3> QED
      BY <1>3, <3>1, <3>2 DEF Files, StacAssets
  <2>2. PICK tr : IsStack(dataset, tr) /\ \A g \in Files(source) : Located(g, tr)
    BY <1>1, <1>3, StackOpened
  <2>3. d \in {2, 3}
    <3>1. Rank = 3 /\ dataset.dim_names[1] = "time"
      BY <2>2 DEF IsStack, Rank
    <3>2. d \in 1 .. 3 /\ d # 1
      BY <3>1 DEF AllDims
    <3> QED
      BY <3>2
  <2>4. /\ d \notin dataset.lon_0_360_dims /\ dataset.coords[d] # <<>>
        /\ dataset.coords[d][i + 1] = apply_transform(tr, d - 1, i)
    BY <1>2, <2>2, <2>3 DEF IsStack
  <2>5. Coordinate(d, i) = apply_transform(tr, d - 1, i)
    BY <2>4 DEF Coordinate, NormalizeLongitude
  <2>6. /\ d - 1 \in {1, 2}
        /\ dataset.dim_names[d] \in IF d - 1 = 1 THEN {"lat", "y"} ELSE {"lon", "x"}
    BY <2>2, <2>3 DEF IsStack, AxisNames
  <2>7. apply_transform(tr, d - 1, i) = Centre(f, dataset.dim_names[d], i)
    BY <2>1, <2>2, <2>6, PixelCentre
  <2> QED
    BY <1>2, <2>5, <2>7
<1>4. CASE source.kind \in {"cog", "item"}
  <2>1. IsImage(dataset, f) /\ Located(f, TransformOf(f))
    <3>1. /\ source.kind = "cog" => f = source.file
          /\ source.kind = "item" =>
               \E n \in SelectedAssets(source, request.asset) : f = source.files[n]
      BY <1>4 DEF Depicted
    <3> QED
      BY <1>1, <1>4, <3>1, ImageOpened
  <2>2. PICK n \in {2, 3} :
          /\ Rank = n /\ AxisNames(dataset.dim_names, n - 1)
          /\ \A e \in 1 .. n : dataset.coords[e] = <<>>
          /\ dataset.scale = TransformOf(f).scale
          /\ dataset.translation = TransformOf(f).translation
    BY <2>1 DEF IsImage, Rank
  <2>3. d \in 1 .. n /\ dataset.coords[d] = <<>>
    BY <2>2 DEF AllDims
  <2>4. Coordinate(d, i) =
          IF d <= Len(dataset.scale) THEN apply_transform(TransformOf(f), d, i) ELSE i
    BY <2>2, <2>3 DEF Coordinate, apply_transform
  <2>5. CASE dataset.scale = <<>>
    <3>1. Len(<<>>) = 0
      OBVIOUS
    <3>2. ~(d <= Len(dataset.scale))
      BY <2>3, <2>5, <3>1
    <3>3. f.geo = {}
      <4>1. ASSUME NEW g, IsAffine(f, g, TransformOf(f))
            PROVE  FALSE
        <5>1. Len(dataset.scale) = 2
          BY <2>2, <4>1 DEF IsAffine
        <5> QED
          BY <2>5, <3>1, <5>1
      <4> QED
        BY <2>1, <4>1 DEF Located
    <3> QED
      BY <1>2, <2>4, <3>2, <3>3 DEF Centre
  <2>6. CASE dataset.scale # <<>>
    <3>1. n = 2
      BY <1>4, <2>2, <2>6 DEF BandColumns
    <3>2. Len(dataset.scale) = 2
      BY <2>1, <2>2, <2>6 DEF Located, NoTransform, IsAffine
    <3>3. /\ d \in {1, 2}
          /\ dataset.dim_names[d] \in IF d = 1 THEN {"lat", "y"} ELSE {"lon", "x"}
      BY <2>2, <2>3, <3>1 DEF AxisNames
    <3>4. apply_transform(TransformOf(f), d, i) = Centre(f, dataset.dim_names[d], i)
      BY <2>1, <3>3, PixelCentre
    <3> QED
      BY <1>2, <2>4, <3>2, <3>3, <3>4
  <2> QED
    BY <2>5, <2>6
<1> QED
  BY <1>1, <1>3, <1>4

(* Every coordinate column of a row is that of its cell, wherever its batch   *)
(* and its chunk begin, and for an image the centre of the pixel in the file  *)
(* the row has its value from; unless the image has several bands, an affine  *)
(* and a coordinate column, when it is not: the run read_bands shows it.      *)
THEOREM PlacesTrue == Spec => [](~BandColumns => PlaceTrue)
<1>1. QueryInv /\ Telling /\ Placing => (~BandColumns => PlaceTrue)
  <2> SUFFICES ASSUME QueryInv, Telling, Placing, ~BandColumns
               PROVE  PlaceTrue
    OBVIOUS
  <2>1. /\ Opening /\ Bounding /\ IsListed(rows) /\ RowsPlaced
        /\ chunk_idx = 0 => rows = <<>>
    BY DEF QueryInv, Telling, Placing
  <2>2. ASSUME NEW i \in DOMAIN rows, NEW d \in query.projected \cap AllDims
        PROVE  LET cell == rows[i].cell
                   name == dataset.dim_names[d]
               IN IF source.kind = "zarr" \/ name = "time"
                  THEN rows[i].columns[d] = Coordinate(d, cell[d])
                  ELSE \A f \in Depicted(cell, Coordinate(1, cell[1])) :
                         rows[i].columns[d] = Centre(f, name, cell[d])
    <3>1. i \in 1 .. Len(rows)
      BY <2>1 DEF IsListed
    <3>2. /\ rows[i].cell[d] \in 0 .. dataset.shape[d] - 1
          /\ rows[i].columns[d] = Coordinate(d, rows[i].cell[d])
      BY <2>1, <3>1 DEF RowsPlaced, PlacedRow
    <3>3. chunk_idx # 0
      BY <2>1
    <3>4. IsOpened(dataset)
      BY <2>1, <3>3 DEF Bounding, Unbound, Bounded
    <3> QED
      BY <2>1, <3>2, <3>4, CoordinateCentre
  <2> QED
    BY <2>2 DEF PlaceTrue
<1> QED
  BY <1>1, PlacingInvariant, PTL

-----------------------------------------------------------------------------
(* What is read of the directory of a file.                                *)

(* Element i of a list is read if its bytes are.                            *)
ReadsList(f, tag, e, i) ==
  /\ i < Len(TileVals(f, tag)) <=> Len(e.values) = 1 \/ e.at + 4 * (1 + i) <= Buffered(f)
  /\ i < Len(TileVals(f, tag)) => TileVals(f, tag)[i + 1] = e.values[i + 1]
  /\ Len(TileVals(f, tag)) \in Nat

(* The bytes read of a list are those of its first elements.                *)
LEMMA LongsRead ==
  ASSUME NEW f, f.size \in Nat, NEW tag, NEW n \in Nat, NEW e \in Longs(f, tag, n), NEW i \in 0 .. n - 1
  PROVE  ReadsList(f, tag, e, i)
<1>1. /\ Tagged(f, tag) = {e} /\ e.typ = "LONG" /\ e.at \in Nat
      /\ e.values \in Seq(Nat) /\ Len(e.values) = n /\ DOMAIN e.values = 1 .. n
  BY DEF Longs
<1>2. Width(e.typ) = 4 /\ Buffered(f) \in Nat
  BY <1>1, HeaderAssumption DEF Width, Buffered, Lower
<1>3. (CHOOSE x \in Tagged(f, tag) : TRUE) = e /\ \A x \in Tagged(f, tag) : x = e
  BY <1>1
<1>4. CASE n = 1
  <2>1. InEntry(e)
    BY <1>1, <1>2, <1>4 DEF InEntry
  <2>2. TileVals(f, tag) = <<e.values[1]>>
    BY <1>1, <1>3, <1>4, <2>1 DEF TileVals, SingleVal
  <2>3. i = 0 /\ Len(<<e.values[1]>>) = 1 /\ <<e.values[1]>>[1] = e.values[1]
    BY <1>4
  <2> QED
    BY <1>1, <1>4, <2>2, <2>3 DEF ReadsList
<1>5. CASE n # 1
  <2> DEFINE K == {k \in DOMAIN e.values : e.at + (k - 1) * Width(e.typ) + 4 <= Buffered(f)}
  <2>1. ~InEntry(e)
    BY <1>1, <1>2, <1>5 DEF InEntry
  <2>2. TileVals(f, tag) = ArrayVal(f, tag, 4)
    BY <1>1, <1>3, <1>5 DEF TileVals
  <2>3. ArrayVal(f, tag, 4) = SubSeq(e.values, 1, Cardinality(K))
    <3> DEFINE c == CHOOSE x \in Tagged(f, tag) : TRUE
    <3>1. c = e /\ Tagged(f, tag) # {}
      BY <1>1
    <3>2. ArrayVal(f, tag, 4) =
            IF InEntry(c) THEN <<>>
            ELSE SubSeq(c.values, 1, Cardinality({k \in DOMAIN c.values :
                   c.at + (k - 1) * Width(c.typ) + 4 <= Buffered(f)}))
      BY <3>1 DEF ArrayVal
    <3> HIDE DEF c
    <3> QED
      BY <2>1, <3>1, <3>2
  <2>4. \A k \in 1 .. n : k \in K <=> e.at + 4 * k <= Buffered(f)
    BY <1>1, <1>2
  <2>5. K \in SUBSET (1 .. n)
    BY <1>1
  <2> HIDE DEF K
  <2>6. Cardinality(K) \in 0 .. n /\ K = 1 .. Cardinality(K)
    <3>1. \A k \in K : \A j \in 1 .. n : j <= k => j \in K
      BY <1>1, <1>2, <2>4, <2>5
    <3> QED
      BY <2>5, <3>1, InitialSegment
  <2>7. PICK m \in 0 .. n : m = Cardinality(K) /\ K = 1 .. m
    BY <2>6
  <2>8. TileVals(f, tag) = SubSeq(e.values, 1, m)
    BY <2>2, <2>3, <2>7
  <2>9. /\ Len(SubSeq(e.values, 1, m)) = m
        /\ \A k \in 1 .. m : SubSeq(e.values, 1, m)[k] = e.values[k]
    BY <1>1
  <2>10. i + 1 \in 1 .. n /\ (i < m <=> i + 1 \in K)
    <3>1. i + 1 \in 1 .. n /\ (i < m <=> i + 1 \in 1 .. m)
      OBVIOUS
    <3> QED
      BY <2>7, <3>1
  <2>11. i < m <=> e.at + 4 * (1 + i) <= Buffered(f)
    BY <2>4, <2>10
  <2>12. i < m => i + 1 \in 1 .. m
    OBVIOUS
  <2> QED
    BY <1>1, <1>5, <2>8, <2>9, <2>11, <2>12 DEF ReadsList
<1> QED
  BY <1>4, <1>5

-----------------------------------------------------------------------------
(* Where in its chunk a cell is.                                           *)

(* Where in its chunk a cell is, per dimension.                             *)
Offsets(pos, cell) == [d \in AllDims |-> cell[d] - pos[d] * dataset.chunk_shape[d]]

(* Each cell of a subset lies in its chunk and in the array.                *)
LEMMA CellInChunk ==
  ASSUME Wellformed, IsBoxed, IsOrdered, NEW pos, IsChunk(pos), NEW j \in 0 .. SizeOf(pos) - 1,
         NEW d \in AllDims
  PROVE  /\ Offsets(pos, CellAt(pos, j))[d] \in 0 .. dataset.chunk_shape[d] - 1
         /\ CellAt(pos, j)[d] \in 0 .. dataset.shape[d] - 1 /\ pos[d] \in Nat
         /\ CellAt(pos, j)[d] = pos[d] * dataset.chunk_shape[d] + Offsets(pos, CellAt(pos, j))[d]
<1> DEFINE cell == CellAt(pos, j)
<1>1. InBox(cell) /\ ChunkOf(cell) = pos
  BY CellsOfChunk
<1> HIDE DEF cell
<1>2. PICK c \in Nat \ {0}, n \in Nat \ {0} : c = dataset.chunk_shape[d] /\ n = dataset.shape[d]
  BY SizeType
<1>3. PICK i \in 0 .. n - 1 : i = cell[d]
  <2>1. cell[d] \in bounds_min[d] .. bounds_max[d]
    BY <1>1 DEF InBox, Box
  <2>2. bounds_min[d] \in Nat /\ bounds_max[d] \in 0 .. n - 1
    <3>1. U64 \in Nat
      BY SizeType
    <3> QED
      BY <1>2, <3>1 DEF IsBoxed, IsBox
  <2> QED
    BY <2>1, <2>2
<1>4. PICK x \in Nat : x = pos[d] /\ i \div c = x
  <2>1. pos[d] \in Nat
    BY DEF IsChunk
  <2>2. i \div c = pos[d]
    BY <1>1, <1>2, <1>3 DEF ChunkOf
  <2> QED
    BY <2>1, <2>2
<1>5. PICK y \in Nat : y = x * c
  OBVIOUS
<1>6. y <= i /\ i <= y + c - 1
  <2>1. x \in Int /\ i \in Int
    BY <1>2, <1>3
  <2>2. \A q \in Int : q \div c = x <=> x * c <= q /\ q <= x * c + c - 1
    BY <2>1, QuotientIs
  <2> QED
    BY <1>4, <1>5, <2>1, <2>2
<1>7. Offsets(pos, cell)[d] = i - y
  BY <1>2, <1>3, <1>4, <1>5 DEF Offsets
<1>8. i - y \in 0 .. c - 1 /\ i = y + (i - y)
  BY <1>2, <1>3, <1>6
<1> QED
  BY <1>2, <1>3, <1>4, <1>5, <1>7, <1>8 DEF cell

(* An element's place in its chunk is the index its offsets make.           *)
LEMMA ElementPlace ==
  ASSUME Wellformed, NEW pos, NEW j, NEW cell, cell = CellAt(pos, j),
         \A d \in AllDims : Offsets(pos, cell)[d] \in 0 .. dataset.chunk_shape[d] - 1
  PROVE  \E h : /\ IsHorner(h, dataset.chunk_shape, Rank, Offsets(pos, cell))
                /\ InChunk(pos, Info(pos), j) = 1 + h[Rank]
<1> DEFINE cs == dataset.chunk_shape
           c == Offsets(pos, cell)
           step == [d \in 1 .. Rank |-> [x \in Nat |-> x * cs[d] + c[d]]]
           Def(h) == h = [d \in 0 .. Rank |->
                            IF d = 0 THEN 0
                            ELSE h[d - 1] * cs[d] + (GlobalCoord(Info(pos), d, j) - pos[d] * cs[d])]
<1>1. /\ Rank \in Nat /\ AllDims = 1 .. Rank
      /\ \A d \in 1 .. Rank : cs[d] \in Nat \ {0} /\ c[d] \in 0 .. cs[d] - 1
  BY DEF Wellformed, AllDims
<1>2. \A d \in 1 .. Rank : c[d] = GlobalCoord(Info(pos), d, j) - pos[d] * cs[d]
  BY <1>1 DEF Offsets, CellAt
<1>3. InChunk(pos, Info(pos), j) = 1 + (CHOOSE h : Def(h))[Rank]
  BY DEF InChunk
<1> HIDE DEF cs, c
<1>4. /\ step \in [1 .. Rank -> [Nat -> Nat]]
      /\ \A d \in 1 .. Rank : \A x \in Nat : step[d][x] = x * cs[d] + c[d]
  <2>1. \A x, l, e \in Nat : x * l + e \in Nat
    OBVIOUS
  <2>2. \A d \in 1 .. Rank : cs[d] \in Nat /\ c[d] \in Nat
    BY <1>1
  <2> QED
    BY <2>1, <2>2
<1> HIDE DEF step
<1>5. PICK g \in [0 .. Rank -> Nat] : IsRecursive(g, Rank, 0, step)
  BY <1>1, <1>4, FiniteRecursion
<1>6. g[0] = 0 /\ \A d \in 1 .. Rank : g[d] = g[d - 1] * cs[d] + c[d]
  <2>1. g[0] = 0 /\ \A d \in 1 .. Rank : g[d] = step[d][g[d - 1]]
    BY <1>5 DEF IsRecursive
  <2>2. \A d \in 1 .. Rank : g[d - 1] \in Nat
    BY <1>1, <1>5
  <2> QED
    BY <1>4, <2>1, <2>2
<1>7. Def(g)
  <2>1. ASSUME NEW d \in 0 .. Rank
        PROVE  g[d] = IF d = 0 THEN 0
                      ELSE g[d - 1] * cs[d] + (GlobalCoord(Info(pos), d, j) - pos[d] * cs[d])
    <3>1. CASE d = 0
      BY <1>6, <3>1
    <3>2. CASE d # 0
      <4>1. d \in 1 .. Rank
        BY <1>1, <3>2
      <4> QED
        BY <1>2, <1>6, <3>2, <4>1
    <3> QED
      BY <3>1, <3>2
  <2> QED
    BY <2>1
<1> DEFINE h == CHOOSE q : Def(q)
<1>8. Def(h)
  <2> HIDE DEF Def
  <2> QED
    BY <1>7
<1> HIDE DEF h
<1>9. /\ h = [d \in 0 .. Rank |-> h[d]] /\ DOMAIN h = 0 .. Rank
      /\ h[0] = 0 /\ \A d \in 1 .. Rank : h[d] = h[d - 1] * cs[d] + c[d]
  <2>1. /\ h = [d \in 0 .. Rank |-> h[d]] /\ DOMAIN h = 0 .. Rank
        /\ \A d \in 0 .. Rank :
             h[d] = IF d = 0 THEN 0
                    ELSE h[d - 1] * cs[d] + (GlobalCoord(Info(pos), d, j) - pos[d] * cs[d])
    BY <1>8
  <2>2. h[0] = 0
    <3>1. 0 \in 0 .. Rank
      BY <1>1
    <3> QED
      BY <2>1, <3>1
  <2>3. ASSUME NEW d \in 1 .. Rank
        PROVE  h[d] = h[d - 1] * cs[d] + c[d]
    <3>1. d \in 0 .. Rank /\ d # 0
      BY <1>1
    <3> QED
      BY <1>2, <2>1, <3>1
  <2> QED
    BY <2>1, <2>2, <2>3
<1>10. h \in [0 .. Rank -> Nat]
  <2>1. ASSUME NEW d \in 1 .. Rank, h[d - 1] \in Nat
        PROVE  h[d] \in Nat
    <3>1. cs[d] \in Nat /\ c[d] \in Nat
      BY <1>1
    <3>2. \A x, l, e \in Nat : x * l + e \in Nat
      OBVIOUS
    <3> QED
      BY <1>9, <2>1, <3>1, <3>2
  <2>2. \A d \in 1 .. Rank : h[d - 1] \in Nat => h[d] \in Nat
    BY <2>1
  <2>3. h[0] \in Nat /\ Rank \in Nat /\ DOMAIN h = 0 .. Rank /\ h = [d \in 0 .. Rank |-> h[d]]
    BY <1>1, <1>9
  <2> HIDE DEF Def
  <2> QED
    BY <2>2, <2>3, FunctionInduction
<1>11. IsHorner(h, cs, Rank, c)
  BY <1>9, <1>10 DEF IsHorner
<1>12. InChunk(pos, Info(pos), j) = 1 + h[Rank]
  BY <1>3 DEF h
<1> QED
  BY <1>11, <1>12 DEF cs, c

(* Each element of a subset lies in its chunk.                              *)
LEMMA PlaceBound ==
  ASSUME Wellformed, IsBoxed, IsOrdered, NEW pos, IsChunk(pos), NEW j \in 0 .. SizeOf(pos) - 1
  PROVE  /\ Volume(dataset.chunk_shape) \in Nat \ {0}
         /\ InChunk(pos, Info(pos), j) \in 1 .. Volume(dataset.chunk_shape)
<1> DEFINE cs == dataset.chunk_shape
           cell == CellAt(pos, j)
           p == ProductAfter(cs)
           c == Offsets(pos, cell)
<1>1. /\ Rank \in Nat /\ AllDims = 1 .. Rank /\ \A d \in AllDims : cs[d] \in Nat \ {0}
  BY DEF Wellformed, AllDims
<1>2. \A d \in AllDims : c[d] \in 0 .. cs[d] - 1
  BY CellInChunk
<1>3. PICK h : /\ IsHorner(h, cs, Rank, c)
               /\ InChunk(pos, Info(pos), j) = 1 + h[Rank]
  BY <1>2, ElementPlace
<1>4. IsAfter(p, cs, Rank)
  BY <1>1, ProductsAre
<1>5. Volume(cs) = p[0]
  BY DEF Volume
<1> HIDE DEF cs, cell, p, c
<1>6. h[Rank] \in 0 .. p[0] - 1
  BY <1>1, <1>2, <1>3, <1>4, HornerPlace
<1>7. p[0] \in Nat \ {0}
  <2>1. 0 \in 0 .. Rank
    BY <1>1
  <2> QED
    BY <1>4, <2>1 DEF IsAfter
<1>8. PICK n \in Nat \ {0}, i \in Nat : n = p[0] /\ i = h[Rank] /\ i <= n - 1
  BY <1>6, <1>7
<1>9. 1 + i \in 1 .. n
  BY <1>8
<1> QED
  BY <1>3, <1>5, <1>7, <1>8, <1>9 DEF cs

(* A chunk of a plain array holds, where an element is read, its cell, or    *)
(* the fill value if the cell is filled; and no cell is the fill value.     *)
LEMMA ArrayElements ==
  ASSUME Opening, IsOpened(dataset), Wellformed, IsBoxed, IsOrdered, source.kind = "zarr",
         NEW pos, IsChunk(pos), NEW samples, samples = ChunkSamples(source, request.asset, pos)
  PROVE  /\ Len(samples) = Volume(dataset.chunk_shape)
         /\ \A j \in 0 .. SizeOf(pos) - 1 :
              /\ samples[InChunk(pos, Info(pos), j)]
                   = IF CellAt(pos, j) \in source.filled THEN dataset.fill_value ELSE CellAt(pos, j)
              /\ CellAt(pos, j) # dataset.fill_value
<1> DEFINE cs == dataset.chunk_shape
           p == ProductAfter(cs)
<1>1. /\ Rank \in Nat /\ AllDims = 1 .. Rank /\ \A d \in AllDims : cs[d] \in Nat \ {0}
      /\ cs = [d \in AllDims |-> cs[d]] /\ DOMAIN cs = AllDims /\ Len(cs) = Rank
      /\ DOMAIN dataset.shape = AllDims
  <2>1. /\ Rank \in Nat /\ AllDims = 1 .. Rank /\ \A d \in AllDims : cs[d] \in Nat \ {0}
        /\ cs = [d \in AllDims |-> cs[d]] /\ DOMAIN cs = AllDims
        /\ DOMAIN dataset.shape = AllDims
    BY DEF Wellformed, AllDims, IsNumbered
  <2> QED
    BY <2>1, ListLength
<1>2. /\ source.array.chunk_shape = cs /\ source.array.shape = dataset.shape
      /\ source.array.fill_value = dataset.fill_value
  BY DEF IsOpened, Opened, ArrayOf, source
<1> DEFINE At(k) == [d \in AllDims |-> (pos[d] * cs[d]) + (((k - 1) \div p[d]) % cs[d])]
<1>3. samples = [k \in 1 .. p[0] |->
                   IF At(k) \in source.filled THEN dataset.fill_value ELSE At(k)]
  BY <1>1, <1>2 DEF ChunkSamples, ProductAfter
<1>4. IsAfter(p, cs, Rank)
  BY <1>1, ProductsAre
<1>5. Volume(cs) = p[0] /\ p[0] \in Nat
  <2>1. 0 \in 0 .. Rank
    BY <1>1
  <2> QED
    BY <1>4, <2>1 DEF IsAfter, Volume
<1>6. Len(samples) = Volume(cs)
  <2> DEFINE n == p[0]
  <2> HIDE DEF At
  <2>1. samples = [k \in 1 .. n |-> samples[k]] /\ n \in Nat
    BY <1>3, <1>5
  <2> HIDE DEF n
  <2>2. Len(samples) = n
    BY <2>1, ListLength
  <2> QED
    BY <1>5, <2>2 DEF n
<1>7. ASSUME NEW j \in 0 .. SizeOf(pos) - 1
      PROVE  /\ samples[InChunk(pos, Info(pos), j)]
                  = IF CellAt(pos, j) \in source.filled THEN dataset.fill_value ELSE CellAt(pos, j)
             /\ CellAt(pos, j) # dataset.fill_value
  <2> DEFINE cell == CellAt(pos, j)
             c == Offsets(pos, cell)
  <2>1. \A d \in AllDims : /\ c[d] \in 0 .. cs[d] - 1 /\ cell[d] = pos[d] * cs[d] + c[d]
                           /\ cell[d] \in 0 .. dataset.shape[d] - 1
    BY CellInChunk
  <2>2. PICK h : /\ IsHorner(h, cs, Rank, c)
                 /\ InChunk(pos, Info(pos), j) = 1 + h[Rank]
    BY <2>1, ElementPlace
  <2>3. cell = [d \in AllDims |-> cell[d]]
    BY DEF CellAt
  <2> HIDE DEF cell, c, cs, p
  <2>4. h[Rank] \in 0 .. p[0] - 1 /\ DigitsAre(h[Rank], cs, p, Rank, c)
    BY <1>1, <1>4, <2>1, <2>2, HornerPlace
  <2>5. PICK i \in Nat : i = h[Rank] /\ 1 + i \in 1 .. p[0] /\ (1 + i) - 1 = i
    BY <1>5, <2>4
  <2>6. /\ samples[1 + i] = IF At(1 + i) \in source.filled THEN dataset.fill_value ELSE At(1 + i)
        /\ At(1 + i) = [d \in AllDims |-> (pos[d] * cs[d]) + ((i \div p[d]) % cs[d])]
    <3>1. At(1 + i) = [d \in AllDims |-> (pos[d] * cs[d]) + ((i \div p[d]) % cs[d])]
      BY <2>5
    <3> HIDE DEF At
    <3> QED
      BY <1>3, <2>5, <3>1
  <2> HIDE DEF At
  <2>7. \A d \in AllDims : (i \div p[d]) % cs[d] = c[d]
    BY <1>1, <2>4, <2>5 DEF Digit, DigitsAre
  <2>8. At(1 + i) = cell
    <3>1. \A d \in AllDims : (pos[d] * cs[d]) + ((i \div p[d]) % cs[d]) = cell[d]
      BY <2>1, <2>7
    <3> QED
      BY <2>3, <2>6, <3>1
  <2>9. cell \in [DOMAIN source.array.shape -> Nat]
    <3>1. \A d \in AllDims : cell[d] \in Nat
      BY <2>1, SizeType
    <3> QED
      BY <1>1, <1>2, <2>3, <3>1
  <2>10. dataset.fill_value \notin [DOMAIN source.array.shape -> Nat]
    BY <1>2, ImagesAssumption DEF Opening, source
  <2> QED
    BY <2>2, <2>5, <2>6, <2>8, <2>9, <2>10 DEF cell
<1> QED
  BY <1>6, <1>7 DEF cs

-----------------------------------------------------------------------------
(* From a chunk of an image to the pixels of its file.                     *)

(* A row or a column of an image is in one of its tiles.                    *)
LEMMA InSomeTile ==
  ASSUME NEW s \in Nat \ {0}, NEW n \in Nat, NEW y \in Nat, NEW i \in 0 .. s - 1, y * s + i < n
  PROVE  CeilDiv(n, s) \in Nat /\ y \in 0 .. CeilDiv(n, s) - 1
<1>1. /\ CeilDiv(n, s) \in Int
      /\ \A k \in Int : k * s >= n <=> k >= CeilDiv(n, s)
  <2>1. s \in Int \ {0} /\ s > 0 /\ n \in Int
    OBVIOUS
  <2> QED
    BY <2>1, RoundedDivision
<1>2. PICK z \in Nat : z = y * s
  OBVIOUS
<1>3. ~(z >= n)
  BY <1>2
<1>4. y \in Int /\ ~(y >= CeilDiv(n, s))
  BY <1>1, <1>2, <1>3
<1> QED
  BY <1>1, <1>4

(* Tiles are counted row by row.                                            *)
LEMMA RowByRow ==
  ASSUME NEW down \in Nat, NEW across \in Nat, NEW y \in 0 .. down - 1, NEW x \in 0 .. across - 1
  PROVE  y * across + x \in 0 .. down * across - 1
<1>1. across \in Nat \ {0} /\ y \in Int /\ down - 1 \in Int /\ y <= down - 1
  OBVIOUS
<1>2. y * across <= (down - 1) * across
  BY <1>1, TimesOrder
<1>3. (down - 1) * across = down * across - across
  OBVIOUS
<1>4. PICK a, b \in Nat : a = y * across /\ b = down * across
  BY <1>1
<1> QED
  BY <1>2, <1>3, <1>4

(* The offset of tile n of a file is among the bytes read; its byte count is *)
(* not.                                                                     *)
OffsetAt(f, n) ==
  \E e \in Tagged(f, "TileOffsets") : Len(e.values) = 1 \/ e.at + 4 * (1 + n) <= Buffered(f)
NoCountAt(f, n) ==
  \E e \in Tagged(f, "TileByteCounts") : Len(e.values) > 1 /\ e.at + 4 * (n + 1) > Buffered(f)

(* What is read of the directory of a tiled file.                           *)
LEMMA TilesRead ==
  ASSUME NEW f, Tiled(f), NEW meta, meta = parse_cog_metadata(f), NEW y, NEW x, NEW n,
         {CeilDiv(meta.image_length, meta.tile_length),
          CeilDiv(meta.image_width, meta.tile_width)} \subseteq Nat,
         y \in 0 .. CeilDiv(meta.image_length, meta.tile_length) - 1,
         x \in 0 .. CeilDiv(meta.image_width, meta.tile_width) - 1,
         n = y * CeilDiv(meta.image_width, meta.tile_width) + x
  PROVE  /\ n < Len(meta.tile_offsets) <=> OffsetAt(f, n)
         /\ n < Len(meta.tile_offsets) =>
              \/ f.tiles[meta.tile_offsets[n + 1]] = <<>>
              \/ IsTile(f, y, x, f.tiles[meta.tile_offsets[n + 1]])
         /\ n >= Len(meta.tile_byte_counts) => NoCountAt(f, n)
<1> DEFINE down == CeilDiv(meta.image_length, meta.tile_length)
           across == CeilDiv(meta.image_width, meta.tile_width)
           offsets == TileVals(f, "TileOffsets")
           counts == TileVals(f, "TileByteCounts")
           Raw(e, i, j) == f.tiles[e.values[i * across + j + 1]]
<1>1. /\ {f.size, meta.samples_per_pixel} \subseteq Nat \ {0}
      /\ Longs(f, "TileByteCounts", down * across) # {}
      /\ \E e \in Longs(f, "TileOffsets", down * across) :
           \A i \in 0 .. down - 1, j \in 0 .. across - 1 :
             Raw(e, i, j) = <<>> \/ IsTile(f, i, j, Raw(e, i, j))
  BY DEF Tiled
<1>2. meta.tile_offsets = offsets /\ meta.tile_byte_counts = counts
  BY DEF parse_cog_metadata
<1>3. down \in Nat /\ across \in Nat /\ y \in 0 .. down - 1 /\ x \in 0 .. across - 1
      /\ n = y * across + x
  OBVIOUS
<1> HIDE DEF down, across
<1>4. n \in 0 .. down * across - 1 /\ down * across \in Nat
  BY <1>3, RowByRow
<1>5. PICK e \in Longs(f, "TileOffsets", down * across) :
        \A i \in 0 .. down - 1, j \in 0 .. across - 1 :
          Raw(e, i, j) = <<>> \/ IsTile(f, i, j, Raw(e, i, j))
  BY <1>1
<1>6. PICK c \in Longs(f, "TileByteCounts", down * across) : TRUE
  BY <1>1
<1>7. PICK total \in Nat : total = down * across
  BY <1>4
<1>8. n \in 0 .. total - 1 /\ f.size \in Nat
  BY <1>1, <1>4, <1>7
<1>14. e \in Longs(f, "TileOffsets", total) /\ c \in Longs(f, "TileByteCounts", total)
  BY <1>5, <1>6, <1>7
<1>15. ReadsList(f, "TileOffsets", e, n) /\ ReadsList(f, "TileByteCounts", c, n)
  BY <1>7, <1>8, <1>14, LongsRead
<1>9. /\ n < Len(offsets) <=> Len(e.values) = 1 \/ e.at + 4 * (1 + n) <= Buffered(f)
      /\ n < Len(offsets) => offsets[n + 1] = e.values[n + 1]
  BY <1>15 DEF ReadsList
<1>10. /\ n < Len(counts) <=> Len(c.values) = 1 \/ c.at + 4 * (1 + n) <= Buffered(f)
       /\ Len(counts) \in Nat
  BY <1>15 DEF ReadsList
<1> HIDE DEF offsets, counts
<1>11. n < Len(offsets) <=> OffsetAt(f, n)
  <2>1. Tagged(f, "TileOffsets") = {e}
    BY <1>5 DEF Longs
  <2> QED
    BY <1>9, <2>1 DEF OffsetAt
<1>12. n < Len(offsets) => \/ f.tiles[offsets[n + 1]] = <<>>
                           \/ IsTile(f, y, x, f.tiles[offsets[n + 1]])
  BY <1>3, <1>5, <1>9
<1>13. n >= Len(counts) => NoCountAt(f, n)
  <2>1. SUFFICES ASSUME n >= Len(counts)
                 PROVE  NoCountAt(f, n)
    OBVIOUS
  <2>2. ~(n < Len(counts))
    BY <1>8, <1>10, <2>1
  <2>3. /\ Tagged(f, "TileByteCounts") = {c} /\ c.at \in Nat /\ c.values \in Seq(Nat)
        /\ Len(c.values) = total /\ total \in Nat
    BY <1>7, <1>14 DEF Longs
  <2>4. Buffered(f) \in Nat
    BY <1>8, HeaderAssumption DEF Buffered, Lower
  <2>5. Len(c.values) > 1 /\ c.at + 4 * (n + 1) > Buffered(f)
    <3>1. total # 1 /\ ~(c.at + 4 * (1 + n) <= Buffered(f))
      BY <1>10, <2>2, <2>3
    <3>2. PICK at, b \in Nat : at = c.at /\ b = Buffered(f)
      BY <2>3, <2>4
    <3>3. n \in Nat /\ total > 1
      BY <1>7, <1>8, <3>1
    <3>4. at + 4 * (n + 1) > b
      BY <3>1, <3>2, <3>3
    <3> QED
      BY <2>3, <3>2, <3>3, <3>4
  <2> QED
    BY <2>3, <2>5 DEF NoCountAt
<1> QED
  BY <1>2, <1>11, <1>12, <1>13

(* Which pixel each sample of a tile is: of row i, column j and band b, in   *)
(* the order of the file and in that of a chunk.                            *)
InPixels(raw, f, y, x, spp, tl, tw, len, width) ==
  /\ DOMAIN raw = 1 .. spp * (tl * tw) /\ Len(raw) = spp * (tl * tw)
  /\ \A b \in 0 .. spp - 1, i \in 0 .. tl - 1, j \in 0 .. tw - 1 :
       y * tl + i < len /\ x * tw + j < width =>
         raw[(i * tw + j) * spp + b + 1] = f.image[<<b, y * tl + i, x * tw + j>>]
InBands(s, f, y, x, spp, tl, tw, len, width) ==
  /\ Len(s) = spp * (tl * tw)
  /\ \A b \in 0 .. spp - 1, i \in 0 .. tl - 1, j \in 0 .. tw - 1 :
       y * tl + i < len /\ x * tw + j < width =>
         s[1 + (b * (tl * tw) + (i * tw + j))] = f.image[<<b, y * tl + i, x * tw + j>>]

HoldsTile(s, f, y, x, meta) ==
  InBands(s, f, y, x, meta.samples_per_pixel, meta.tile_length, meta.tile_width,
          meta.image_length, meta.image_width)

(* What get returns for a tile is its samples, band after band.              *)
LEMMA TileElements ==
  ASSUME NEW f, NEW meta, meta = parse_cog_metadata(f), NEW y \in Nat, NEW x \in Nat,
         NEW key, NEW raw, raw = RawTile(f, meta, key), IsTile(f, y, x, raw),
         {meta.samples_per_pixel, meta.tile_length, meta.tile_width} \subseteq Nat \ {0}
  PROVE  /\ HoldsTile(TileSamples(f, meta, key), f, y, x, meta)
         /\ Len(raw) % meta.samples_per_pixel = 0
<1>1. PICK spp, tl, tw \in Nat \ {0} :
        spp = meta.samples_per_pixel /\ tl = meta.tile_length /\ tw = meta.tile_width
  OBVIOUS
<1>2. PICK np \in Nat \ {0} : np = tl * tw
  BY <1>1
<1>3. PICK size \in Nat \ {0} : size = spp * np
  BY <1>1, <1>2
<1>4. size = np * spp + 0 /\ 0 \in 0 .. spp - 1
  BY <1>1, <1>2, <1>3
<1>5. size \div spp = np /\ size % spp = 0
  <2>1. np \in Int /\ 0 \in 0 .. spp - 1
    BY <1>1, <1>2
  <2>2. (np * spp + 0) \div spp = np /\ (np * spp + 0) % spp = 0
    BY <2>1, DivUnique
  <2> QED
    BY <1>4, <2>2
<1> DEFINE len == meta.image_length
           width == meta.image_width
<1>6. InPixels(raw, f, y, x, spp, tl, tw, len, width)
  <2> DEFINE m == parse_cog_metadata(f)
  <2>1. InPixels(raw, f, y, x, m.samples_per_pixel, m.tile_length, m.tile_width,
                 m.image_length, m.image_width)
    BY Zenon DEF IsTile, InPixels
  <2> HIDE DEF m
  <2>2. m = meta
    BY DEF m
  <2> QED
    BY <1>1, <2>1, <2>2, Zenon
<1>7. /\ DOMAIN raw = 1 .. size /\ Len(raw) = size
      /\ \A b \in 0 .. spp - 1, i \in 0 .. tl - 1, j \in 0 .. tw - 1 :
           y * tl + i < len /\ x * tw + j < width =>
             raw[(i * tw + j) * spp + b + 1] = f.image[<<b, y * tl + i, x * tw + j>>]
  <2>1. spp * (tl * tw) = size
    BY <1>2, <1>3
  <2> QED
    BY <1>6, <2>1, Zenon DEF InPixels
<1> DEFINE s == TileSamples(f, meta, key)
<1>8. s = [k \in 1 .. size |-> raw[((k - 1) % np) * spp + ((k - 1) \div np) + 1]]
  <2>1. s = [k \in DOMAIN raw |->
               raw[((k - 1) % (Len(raw) \div meta.samples_per_pixel)) * meta.samples_per_pixel
                   + ((k - 1) \div (Len(raw) \div meta.samples_per_pixel)) + 1]]
    BY DEF TileSamples
  <2>2. Len(raw) \div meta.samples_per_pixel = np
    BY <1>1, <1>5, <1>7
  <2>3. s = [k \in DOMAIN raw |->
               raw[((k - 1) % np) * meta.samples_per_pixel + ((k - 1) \div np) + 1]]
    BY <2>1, <2>2, Zenon
  <2> QED
    BY <1>1, <1>7, <2>3, Zenon
<1> HIDE DEF s
<1>9. Len(s) = size
  <2>1. s = [k \in 1 .. size |-> s[k]] /\ size \in Nat
    BY <1>8
  <2> QED
    BY <2>1, ListLength
<1>10. ASSUME NEW b \in 0 .. spp - 1, NEW i \in 0 .. tl - 1, NEW j \in 0 .. tw - 1
       PROVE  s[1 + (b * np + (i * tw + j))] = raw[(i * tw + j) * spp + b + 1]
  <2>1. i * tw + j \in 0 .. tl * tw - 1
    BY RowByRow
  <2>2. PICK q \in 0 .. np - 1 : q = i * tw + j
    BY <1>2, <2>1
  <2>3. b * np + q \in 0 .. spp * np - 1
    BY RowByRow
  <2>4. PICK k \in 0 .. size - 1 : k = b * np + q
    BY <1>3, <2>3
  <2>5. k \div np = b /\ k % np = q
    <3>1. b \in Int
      OBVIOUS
    <3>2. (b * np + q) \div np = b /\ (b * np + q) % np = q
      BY <3>1, DivUnique
    <3> QED
      BY <2>4, <3>2
  <2>6. 1 + k \in 1 .. size /\ (1 + k) - 1 = k
    BY <2>4
  <2>7. s[1 + k] = raw[(k % np) * spp + (k \div np) + 1]
    BY <1>8, <2>6
  <2> QED
    BY <2>2, <2>4, <2>5, <2>7
<1> HIDE DEF len, width
<1>11. ASSUME NEW b \in 0 .. spp - 1, NEW i \in 0 .. tl - 1, NEW j \in 0 .. tw - 1,
              y * tl + i < len, x * tw + j < width
       PROVE  s[1 + (b * (tl * tw) + (i * tw + j))] = f.image[<<b, y * tl + i, x * tw + j>>]
  <2>1. s[1 + (b * np + (i * tw + j))] = raw[(i * tw + j) * spp + b + 1]
    BY <1>10
  <2>2. raw[(i * tw + j) * spp + b + 1] = f.image[<<b, y * tl + i, x * tw + j>>]
    BY <1>7, <1>11, Zenon
  <2> QED
    BY <1>2, <2>1, <2>2, Zenon
<1>12. InBands(s, f, y, x, spp, tl, tw, len, width)
  <2>1. Len(s) = spp * (tl * tw)
    BY <1>2, <1>3, <1>9
  <2> QED
    BY <1>11, <2>1, Zenon DEF InBands
<1>13. HoldsTile(s, f, y, x, meta)
  BY <1>1, <1>12, Zenon DEF HoldsTile, len, width
<1> QED
  BY <1>1, <1>5, <1>7, <1>13 DEF s

(* The last two dimensions are the image's rows and columns, cut into its    *)
(* tiles; a chunk holds all bands of its pixels, or one slice of a stack.    *)
IsFramed(meta) ==
  /\ dataset.shape[Rank - 1] = meta.image_length /\ dataset.shape[Rank] = meta.image_width
  /\ dataset.chunk_shape[Rank - 1] = meta.tile_length
  /\ dataset.chunk_shape[Rank] = meta.tile_width
  /\ \/ Rank = 2 /\ source.kind # "stack" /\ meta.samples_per_pixel = 1
     \/ Rank = 3 /\ source.kind = "stack" /\ meta.samples_per_pixel = 1 /\ dataset.chunk_shape[1] = 1
     \/ /\ Rank = 3 /\ source.kind # "stack" /\ meta.samples_per_pixel > 1
        /\ meta.samples_per_pixel \in Nat
        /\ dataset.shape[1] = meta.samples_per_pixel
        /\ dataset.chunk_shape[1] = meta.samples_per_pixel

(* A chunk of an image is read of the file its rows show, from its tiles.    *)
LEMMA ImageFramed ==
  ASSUME Opening, IsOpened(dataset), source.kind # "zarr", NEW pos,
         source.kind = "stack" => pos[1] \in 0 .. dataset.shape[1] - 1,
         NEW f, f = FileOf(source, request.asset, pos)
  PROVE  /\ Tiled(f) /\ IsFramed(parse_cog_metadata(f))
         /\ \A c : (source.kind = "stack" => c[1] = pos[1]) =>
              f \in Depicted(c, Coordinate(1, c[1]))
<1> DEFINE assets == SelectedAssets(source, request.asset)
           name == The(assets)
           meta == parse_cog_metadata(f)
<1>1. /\ request \in Requests /\ ~OpenError(source, request.asset)
      /\ dataset = Opened(source, request.asset)
      /\ source.kind \in {"cog", "item", "stack"} /\ source = request.source
  BY ImagesAssumption DEF Opening, IsOpened, source
<1>2. Pictured(request)
  BY <1>1, ImagesAssumption
<1>3. ASSUME source.kind \in {"item", "stack"}
      PROVE  name \in assets /\ name \in StacAssets(source)
  <2>1. IsFiniteSet(StacAssets(source)) /\ \A a, b \in request.asset : a = b
    BY <1>1, <1>2 DEF Pictured
  <2>2. StacAssets(source) # {}
    <3>1. ~ResolveError(source)
      BY <1>1 DEF OpenError
    <3>2. CASE source.kind = "stack"
      BY <3>1, <3>2 DEF ResolveError, StacAssets
    <3>3. CASE source.kind = "item"
      BY <3>1, <3>3 DEF ResolveError, StacAssets
    <3> QED
      BY <1>3, <3>2, <3>3
  <2>3. assets # {}
    BY <1>1, <2>2 DEF OpenError
  <2> QED
    BY <2>1, <2>3, AssetChosen
<1>4. CASE source.kind = "stack"
  <2>1. IsSliced(dataset, source) /\ Rank = 3
    <3>1. \E t : IsStack(dataset, t) /\ IsSliced(dataset, source)
      BY <1>1, <1>4, StackOpened
    <3> QED
      BY <3>1 DEF IsStack, Rank
  <2>2. PICK count \in Nat : count = dataset.shape[1]
    BY <1>1, <1>2, <1>4, <2>1 DEF Pictured, IsSliced
  <2>3. PICK i \in 1 .. count : i = pos[1] + 1
    BY <1>4, <2>2
  <2>4. pos[1] + 1 \in 1 .. dataset.shape[1]
    BY <2>2, <2>3
  <2>5. PICK k \in DOMAIN source.items : SortedItems(source)[i] = source.items[k]
    BY <2>1, <2>2, <2>3 DEF IsSliced
  <2>6. f = source.items[k].files[name]
    BY <1>4, <2>3, <2>5 DEF FileOf
  <2>7. f \in Files(source)
    BY <1>3, <1>4, <2>5, <2>6 DEF Files, StacAssets
  <2>8. Tiled(f)
    BY <1>1, <1>2, <2>7 DEF Pictured
  <2>9. IsFramed(meta)
    BY <1>4, <2>1, <2>7 DEF IsFramed, IsSliced
  <2>10. ASSUME NEW c, c[1] = pos[1]
         PROVE  f \in Depicted(c, Coordinate(1, c[1]))
    <3>1. Coordinate(1, c[1]) = dataset.coords[1][c[1] + 1]
      BY <2>1 DEF IsSliced, Coordinate, NormalizeLongitude
    <3>2. dataset.coords[1][i] = source.items[k].time
      BY <2>1, <2>2, <2>5 DEF IsSliced
    <3>3. Coordinate(1, c[1]) = source.items[k].time
      BY <2>3, <2>10, <3>1, <3>2
    <3> QED
      BY <1>3, <1>4, <2>6, <3>3 DEF Depicted
  <2> QED
    BY <1>4, <2>8, <2>9, <2>10
<1>5. CASE source.kind \in {"cog", "item"}
  <2>1. /\ source.kind = "cog" => f = source.file
        /\ source.kind = "item" => f = source.files[name] /\ name \in assets
    BY <1>3, <1>5 DEF FileOf
  <2>2. ArrayOf(source, name) = CogArray(meta) /\ Tiled(f)
    <3>1. /\ request.source.kind = "cog" => f = request.source.file
          /\ request.source.kind = "item" =>
               \E n \in SelectedAssets(request.source, request.asset) : f = request.source.files[n]
      BY <1>1, <2>1
    <3>2. /\ ArrayOf(request.source, The(SelectedAssets(request.source, request.asset)))
               = CogArray(parse_cog_metadata(f))
          /\ Tiled(f)
      BY <1>1, <1>5, <3>1, ImageFile
    <3> QED
      BY <1>1, <3>2
  <2>3. /\ dataset.shape = CogArray(meta).shape /\ dataset.chunk_shape = CogArray(meta).chunk_shape
    <3> DEFINE a == CogArray(meta)
    <3>1. ArrayOf(source, name) = a
      BY <2>2
    <3> HIDE DEF a
    <3> QED
      BY <1>1, <3>1 DEF Opened, a
  <2>4. /\ dataset.shape =
             IF meta.samples_per_pixel > 1
             THEN <<meta.samples_per_pixel, meta.image_length, meta.image_width>>
             ELSE <<meta.image_length, meta.image_width>>
        /\ dataset.chunk_shape =
             IF meta.samples_per_pixel > 1
             THEN <<meta.samples_per_pixel, meta.tile_length, meta.tile_width>>
             ELSE <<meta.tile_length, meta.tile_width>>
    BY <2>3, CogArrayIs
  <2>5. meta.samples_per_pixel \in Nat \ {0}
    BY <2>2 DEF Tiled
  <2> HIDE DEF meta
  <2>6. IsFramed(meta)
    <3>1. CASE meta.samples_per_pixel > 1
      <4>1. /\ dataset.shape = <<meta.samples_per_pixel, meta.image_length, meta.image_width>>
            /\ dataset.chunk_shape = <<meta.samples_per_pixel, meta.tile_length, meta.tile_width>>
        BY <2>4, <3>1
      <4>2. Rank = 3 /\ Rank - 1 = 2
        BY <4>1 DEF Rank
      <4> QED
        BY <1>5, <2>5, <3>1, <4>1, <4>2 DEF IsFramed
    <3>2. CASE ~(meta.samples_per_pixel > 1)
      <4>1. /\ dataset.shape = <<meta.image_length, meta.image_width>>
            /\ dataset.chunk_shape = <<meta.tile_length, meta.tile_width>>
        BY <2>4, <3>2
      <4>2. Rank = 2 /\ Rank - 1 = 1
        BY <4>1 DEF Rank
      <4>3. meta.samples_per_pixel = 1
        BY <2>5, <3>2
      <4> QED
        BY <1>5, <4>1, <4>2, <4>3 DEF IsFramed
    <3> QED
      BY <3>1, <3>2
  <2>7. \A c : f \in Depicted(c, Coordinate(1, c[1]))
    BY <1>5, <2>1 DEF Depicted
  <2> QED
    BY <2>2, <2>6, <2>7 DEF meta
<1> QED
  BY <1>1, <1>4, <1>5

(* The last two elements of a list of two or three.                         *)
LEMMA LastTwo ==
  ASSUME NEW n \in {2, 3}, NEW s, s = [i \in 1 .. n |-> s[i]]
  PROVE  /\ SubSeq(s, n - 1, n) = <<s[n - 1], s[n]>>
         /\ Len(s) = n
         /\ n = 3 => /\ Tail(s) = <<s[2], s[3]>>
                     /\ s = <<s[1], s[2], s[3]>>
<1> DEFINE S == {s[k] : k \in 1 .. n}
<1>1. \A k \in 1 .. n : s[k] \in S
  OBVIOUS
<1> HIDE DEF S
<1>2. s \in [1 .. n -> S] /\ n \in Nat
  BY <1>1
<1>3. s \in Seq(S) /\ Len(s) = n
  BY <1>2, SeqDef, ListLength
<1>4. SubSeq(s, n - 1, n) = <<s[n - 1], s[n]>>
  <2> DEFINE t == SubSeq(s, n - 1, n)
             u == <<s[n - 1], s[n]>>
  <2>1. n - 1 \in 1 .. n /\ n \in 1 .. n
    OBVIOUS
  <2>2. t \in Seq(S) /\ Len(t) = 2 /\ t[1] = s[n - 1] /\ t[2] = s[n]
    BY <1>3, <2>1
  <2>3. u \in Seq(S) /\ Len(u) = 2 /\ u[1] = s[n - 1] /\ u[2] = s[n]
    BY <1>1, <2>1
  <2> HIDE DEF t, u
  <2>4. Len(t) = Len(u) /\ \A i \in 1 .. Len(t) : t[i] = u[i]
    <3>1. 1 .. 2 = {1, 2}
      OBVIOUS
    <3> QED
      BY <2>2, <2>3, <3>1
  <2>5. t = u
    BY <2>2, <2>3, <2>4, SeqEqual
  <2> QED
    BY <2>5 DEF t, u
<1>5. ASSUME n = 3
      PROVE  Tail(s) = <<s[2], s[3]>> /\ s = <<s[1], s[2], s[3]>>
  <2>0. 1 .. 2 = {1, 2} /\ 1 .. 3 = {1, 2, 3}
    OBVIOUS
  <2>1. Tail(s) = <<s[2], s[3]>>
    <3> DEFINE t == Tail(s)
               u == <<s[2], s[3]>>
    <3>1. t \in Seq(S) /\ Len(t) = 2 /\ t[1] = s[2] /\ t[2] = s[3]
      <4>1. s # <<>>
        BY <1>3, <1>5
      <4> QED
        BY <1>3, <1>5, <4>1
    <3>2. u \in Seq(S) /\ Len(u) = 2 /\ u[1] = s[2] /\ u[2] = s[3]
      BY <1>1, <1>5
    <3> HIDE DEF t, u
    <3>3. t = u
      BY <2>0, <3>1, <3>2, SeqEqual
    <3> QED
      BY <3>3 DEF t, u
  <2>2. s = <<s[1], s[2], s[3]>>
    <3> DEFINE u == <<s[1], s[2], s[3]>>
    <3>1. u \in Seq(S) /\ Len(u) = 3 /\ u[1] = s[1] /\ u[2] = s[2] /\ u[3] = s[3]
      BY <1>1, <1>5
    <3> HIDE DEF u
    <3>2. s = u
      BY <1>3, <1>5, <2>0, <3>1, SeqEqual
    <3> QED
      BY <3>2 DEF u
  <2> QED
    BY <2>1, <2>2
<1> QED
  BY <1>3, <1>4, <1>5

(* The missing count of a chunk's tile, for any chunk.                      *)
LengthMissing(pos) ==
  \E f \in Depicted(pos, Coordinate(1, pos[1])) :
    NoCountAt(f, FlatIdx(parse_cog_metadata(f), SubSeq(pos, Rank - 1, Rank)))

(* A chunk's key names a tile: its row and its column.                      *)
LEMMA KeyOfTile ==
  ASSUME Wellformed, IsBoxed, IsOrdered, NEW pos, IsChunk(pos), NEW meta, IsFramed(meta)
  PROVE  /\ TileKey(meta, FileKey(source, pos)) = <<pos[Rank - 1], pos[Rank]>>
         /\ SubSeq(pos, Rank - 1, Rank) = <<pos[Rank - 1], pos[Rank]>>
         /\ meta.samples_per_pixel > 1 => pos[1] = 0
         /\ pos[Rank - 1] \in Nat /\ pos[Rank] \in Nat /\ Rank \in {2, 3} /\ AllDims = 1 .. Rank
<1>1. Rank \in {2, 3} /\ AllDims = 1 .. Rank /\ Rank - 1 \in AllDims /\ Rank \in AllDims /\ 1 \in AllDims
  BY DEF IsFramed, AllDims
<1>2. pos \in [AllDims -> Nat]
  BY DEF IsChunk
<1>3. pos = [d \in 1 .. Rank |-> pos[d]] /\ pos[Rank - 1] \in Nat /\ pos[Rank] \in Nat /\ pos[1] \in Nat
  BY <1>1, <1>2
<1>4. /\ SubSeq(pos, Rank - 1, Rank) = <<pos[Rank - 1], pos[Rank]>>
      /\ Len(pos) = Rank
      /\ Rank = 3 => /\ Tail(pos) = <<pos[2], pos[3]>>
                     /\ pos = <<pos[1], pos[2], pos[3]>>
  BY <1>1, <1>3, LastTwo
<1>5. ASSUME meta.samples_per_pixel > 1
      PROVE  pos[1] = 0 /\ Rank = 3 /\ source.kind # "stack"
  <2>1. /\ Rank = 3 /\ source.kind # "stack" /\ meta.samples_per_pixel \in Nat
        /\ dataset.shape[1] = meta.samples_per_pixel
        /\ dataset.chunk_shape[1] = meta.samples_per_pixel
    BY <1>5 DEF IsFramed
  <2>2. PICK n \in Nat \ {0} : n = meta.samples_per_pixel
    BY <1>5, <2>1
  <2>3. PICK hi \in 0 .. n - 1 : hi = bounds_max[1]
    BY <1>1, <2>1, <2>2 DEF IsBoxed, IsBox
  <2>4. hi \div n = 0
    <3>1. hi = 0 * n + hi /\ 0 \in Int
      BY <2>2
    <3> QED
      BY <3>1, DivUnique
  <2>5. pos[1] <= hi \div n
    BY <1>1, <2>1, <2>2, <2>3 DEF IsChunk, ChunkMax
  <2> QED
    BY <1>3, <2>1, <2>4, <2>5
<1>6. TileKey(meta, FileKey(source, pos)) = <<pos[Rank - 1], pos[Rank]>>
  <2>1. CASE Rank = 2
    <3>1. source.kind # "stack" /\ ~(meta.samples_per_pixel > 1)
      BY <2>1, <1>5 DEF IsFramed
    <3>2. TileKey(meta, FileKey(source, pos)) = pos
      BY <3>1 DEF TileKey, FileKey
    <3>3. pos = SubSeq(pos, 1, 2)
      <4>1. pos \in Seq(Nat)
        BY <1>1, <1>2, <2>1, SeqDef
      <4> QED
        BY <1>4, <2>1, <4>1
    <3> QED
      BY <1>4, <2>1, <3>2, <3>3
  <2>2. CASE Rank = 3 /\ source.kind = "stack"
    <3>1. FileKey(source, pos) = <<pos[2], pos[3]>>
      BY <1>4, <2>2 DEF FileKey
    <3>2. ~(meta.samples_per_pixel > 1)
      BY <1>5, <2>2
    <3> QED
      BY <2>2, <3>1, <3>2 DEF TileKey
  <2>3. CASE Rank = 3 /\ source.kind # "stack"
    <3>1. FileKey(source, pos) = pos
      BY <2>3 DEF FileKey
    <3>2. meta.samples_per_pixel > 1
      BY <2>3 DEF IsFramed
    <3>3. pos[1] = 0 /\ Len(pos) = 3 /\ Tail(pos) = <<pos[2], pos[3]>>
      BY <1>4, <1>5, <2>3, <3>2
    <3>4. TileKey(meta, pos) = Tail(pos)
      BY <3>2, <3>3 DEF TileKey
    <3> QED
      BY <2>3, <3>1, <3>3, <3>4
  <2> QED
    BY <1>1, <2>1, <2>2, <2>3
<1> QED
  BY <1>1, <1>3, <1>4, <1>5, <1>6

(* Where in its tile a cell is, and where in its chunk.                      *)
LEMMA PlaceInTile ==
  ASSUME Wellformed, IsBoxed, IsOrdered, NEW pos, IsChunk(pos), NEW meta, IsFramed(meta),
         NEW j \in 0 .. SizeOf(pos) - 1, NEW cell, cell = CellAt(pos, j)
  PROVE  \E b \in 0 .. meta.samples_per_pixel - 1, i \in 0 .. meta.tile_length - 1,
            k \in 0 .. meta.tile_width - 1 :
           /\ InChunk(pos, Info(pos), j)
                = 1 + (b * (meta.tile_length * meta.tile_width) + (i * meta.tile_width + k))
           /\ cell[Rank - 1] = pos[Rank - 1] * meta.tile_length + i
           /\ cell[Rank] = pos[Rank] * meta.tile_width + k
           /\ cell[Rank - 1] < meta.image_length /\ cell[Rank] < meta.image_width
           /\ b = IF meta.samples_per_pixel > 1 THEN cell[1] ELSE 0
<1> DEFINE cs == dataset.chunk_shape
           c == Offsets(pos, cell)
<1>1. Rank \in {2, 3} /\ AllDims = 1 .. Rank /\ Rank - 1 \in AllDims /\ Rank \in AllDims /\ 1 \in AllDims
  BY DEF IsFramed, AllDims
<1>2. \A d \in AllDims : /\ c[d] \in 0 .. cs[d] - 1 /\ cell[d] \in 0 .. dataset.shape[d] - 1
                         /\ pos[d] \in Nat /\ cell[d] = pos[d] * cs[d] + c[d]
  BY CellInChunk
<1>3. PICK h : /\ IsHorner(h, cs, Rank, c)
               /\ InChunk(pos, Info(pos), j) = 1 + h[Rank]
  BY <1>2, ElementPlace
<1>4. \A d \in AllDims : dataset.shape[d] \in Nat \ {0} /\ cs[d] \in Nat \ {0}
  BY SizeType
<1> HIDE DEF cs, c
<1>5. PICK tl, tw \in Nat \ {0} :
        tl = meta.tile_length /\ tw = meta.tile_width /\ cs[Rank - 1] = tl /\ cs[Rank] = tw
  BY <1>1, <1>4 DEF IsFramed, cs
<1>6. PICK i \in 0 .. tl - 1 : i = c[Rank - 1]
  BY <1>1, <1>2, <1>5
<1>7. PICK k \in 0 .. tw - 1 : k = c[Rank]
  BY <1>1, <1>2, <1>5
<1>8. /\ cell[Rank - 1] = pos[Rank - 1] * tl + i /\ cell[Rank] = pos[Rank] * tw + k
  BY <1>1, <1>2, <1>5, <1>6, <1>7
<1>9. cell[Rank - 1] < meta.image_length /\ cell[Rank] < meta.image_width
  <2>1. /\ cell[Rank - 1] \in 0 .. dataset.shape[Rank - 1] - 1
        /\ cell[Rank] \in 0 .. dataset.shape[Rank] - 1
        /\ dataset.shape[Rank - 1] \in Nat /\ dataset.shape[Rank] \in Nat
    BY <1>1, <1>2, <1>4
  <2>2. \A a \in Nat : \A v \in 0 .. a - 1 : v < a
    OBVIOUS
  <2> QED
    BY <2>1, <2>2 DEF IsFramed
<1>10. /\ h[0] = 0 /\ \A d \in 1 .. Rank : h[d] = h[d - 1] * cs[d] + c[d]
  BY <1>3 DEF IsHorner
<1>11. CASE Rank = 2
  <2>1. meta.samples_per_pixel = 1
    BY <1>11 DEF IsFramed
  <2>2. h[1] = h[0] * cs[1] + c[1] /\ h[2] = h[1] * cs[2] + c[2]
    <3>1. 1 \in 1 .. Rank /\ 2 \in 1 .. Rank /\ 1 - 1 = 0 /\ 2 - 1 = 1
      BY <1>11
    <3> QED
      BY <1>10, <3>1
  <2>3. h[1] = i
    BY <1>5, <1>6, <1>10, <1>11, <2>2
  <2>4. h[2] = i * tw + k
    BY <1>5, <1>7, <1>11, <2>2, <2>3
  <2>5. h[Rank] = 0 * (tl * tw) + (i * tw + k)
    BY <1>11, <2>4
  <2> QED
    BY <1>3, <1>5, <1>8, <1>9, <2>1, <2>5
<1>12. CASE Rank = 3
  <2>1. PICK spp \in Nat \ {0} : spp = meta.samples_per_pixel /\ cs[1] = spp
    BY <1>12 DEF IsFramed, cs
  <2>2. PICK b \in 0 .. spp - 1 : b = c[1]
    BY <1>1, <1>2, <2>1
  <2>3. /\ h[1] = h[0] * cs[1] + c[1] /\ h[2] = h[1] * cs[2] + c[2]
        /\ h[3] = h[2] * cs[3] + c[3]
    <3>1. 1 \in 1 .. Rank /\ 2 \in 1 .. Rank /\ 3 \in 1 .. Rank /\ 1 - 1 = 0 /\ 2 - 1 = 1 /\ 3 - 1 = 2
      BY <1>12
    <3> QED
      BY <1>10, <3>1
  <2>4. h[1] = b
    BY <1>10, <2>1, <2>2, <2>3
  <2>5. h[2] = b * tl + i
    BY <1>5, <1>6, <1>12, <2>3, <2>4
  <2>6. h[3] = (b * tl + i) * tw + k
    BY <1>5, <1>7, <1>12, <2>3, <2>5
  <2>7. (b * tl + i) * tw + k = b * (tl * tw) + (i * tw + k)
    OBVIOUS
  <2>8. b = IF meta.samples_per_pixel > 1 THEN cell[1] ELSE 0
    <3>1. CASE meta.samples_per_pixel > 1
      <4>1. pos[1] = 0
        BY <3>1, KeyOfTile
      <4>2. cell[1] = 0 * spp + b
        BY <1>1, <1>2, <2>1, <2>2, <4>1
      <4> QED
        BY <2>2, <3>1, <4>2
    <3>2. CASE ~(meta.samples_per_pixel > 1)
      BY <2>1, <2>2, <3>2
    <3> QED
      BY <3>1, <3>2
  <2>9. h[Rank] = b * (tl * tw) + (i * tw + k)
    BY <1>12, <2>6, <2>7
  <2> QED
    BY <1>3, <1>5, <1>8, <1>9, <2>1, <2>2, <2>8, <2>9
<1> QED
  BY <1>1, <1>11, <1>12

(* A chunk of an image is as large as a tile of all its bands.               *)
LEMMA TileVolume ==
  ASSUME Wellformed, NEW meta, IsFramed(meta)
  PROVE  /\ Volume(dataset.chunk_shape)
              = meta.samples_per_pixel * (meta.tile_length * meta.tile_width)
         /\ {meta.samples_per_pixel, meta.tile_length, meta.tile_width} \subseteq Nat \ {0}
         /\ {meta.image_length, meta.image_width} \subseteq Nat
<1> DEFINE cs == dataset.chunk_shape
           p == ProductAfter(cs)
<1>1. Rank \in {2, 3} /\ AllDims = 1 .. Rank /\ Rank - 1 \in AllDims /\ Rank \in AllDims /\ 1 \in AllDims
  BY DEF IsFramed, AllDims
<1>2. \A d \in AllDims : dataset.shape[d] \in Nat \ {0} /\ cs[d] \in Nat \ {0}
  BY SizeType
<1>3. IsAfter(p, cs, Rank)
  BY <1>1, <1>2, ProductsAre
<1>4. Volume(cs) = p[0]
  BY DEF Volume
<1> HIDE DEF cs, p
<1>5. /\ p[Rank] = 1 /\ \A d \in 1 .. Rank : p[d - 1] = cs[d] * p[d]
  BY <1>3 DEF IsAfter
<1>6. PICK tl, tw \in Nat \ {0} :
        tl = meta.tile_length /\ tw = meta.tile_width /\ cs[Rank - 1] = tl /\ cs[Rank] = tw
  BY <1>1, <1>2 DEF IsFramed, cs
<1>7. PICK spp \in Nat \ {0} : spp = meta.samples_per_pixel /\ (Rank = 2 => spp = 1) /\ (Rank = 3 => cs[1] = spp)
  BY DEF IsFramed, cs
<1>8. ASSUME Rank = 2
     PROVE  Volume(cs) = meta.samples_per_pixel * (meta.tile_length * meta.tile_width)
  <2>1. p[1] = cs[2] * p[2] /\ p[0] = cs[1] * p[1]
    <3>1. 1 \in 1 .. Rank /\ 2 \in 1 .. Rank /\ 1 - 1 = 0 /\ 2 - 1 = 1
      BY <1>8
    <3> QED
      BY <1>5, <3>1
  <2>2. p[1] = tw
    BY <1>5, <1>6, <1>8, <2>1
  <2>3. p[0] = tl * tw
    BY <1>6, <1>8, <2>1, <2>2
  <2> QED
    BY <1>4, <1>6, <1>7, <1>8, <2>3
<1>9. ASSUME Rank = 3
     PROVE  Volume(cs) = meta.samples_per_pixel * (meta.tile_length * meta.tile_width)
  <2>1. p[2] = cs[3] * p[3] /\ p[1] = cs[2] * p[2] /\ p[0] = cs[1] * p[1]
    <3>1. 1 \in 1 .. Rank /\ 2 \in 1 .. Rank /\ 3 \in 1 .. Rank /\ 1 - 1 = 0 /\ 2 - 1 = 1 /\ 3 - 1 = 2
      BY <1>9
    <3> QED
      BY <1>5, <3>1
  <2>2. p[2] = tw
    BY <1>5, <1>6, <1>9, <2>1
  <2>3. p[1] = tl * tw
    BY <1>6, <1>9, <2>1, <2>2
  <2>4. p[0] = spp * (tl * tw)
    BY <1>7, <1>9, <2>1, <2>3
  <2> QED
    BY <1>4, <1>6, <1>7, <2>4
<1>10. Volume(cs) = meta.samples_per_pixel * (meta.tile_length * meta.tile_width)
  BY <1>1, <1>8, <1>9 DEF cs
<1>11. {meta.image_length, meta.image_width} \subseteq Nat
  BY <1>1, <1>2 DEF IsFramed
<1> QED
  BY <1>6, <1>7, <1>10, <1>11 DEF cs

(* The slice of a stack that a chunk is of is that of its cells.             *)
LEMMA SliceOfChunk ==
  ASSUME Opening, IsOpened(dataset), Wellformed, IsBoxed, IsOrdered, source.kind = "stack",
         NEW pos, IsChunk(pos), NEW j \in 0 .. SizeOf(pos) - 1
  PROVE  CellAt(pos, j)[1] = pos[1] /\ pos[1] \in 0 .. dataset.shape[1] - 1
<1> DEFINE cell == CellAt(pos, j)
           c == Offsets(pos, cell)
<1>1. /\ request \in Requests /\ request.source.kind = "stack" /\ source = request.source
      /\ ~OpenError(request.source, request.asset)
      /\ dataset = Opened(request.source, request.asset)
  BY DEF Opening, IsOpened, source
<1>2. IsSliced(dataset, source) /\ Rank = 3
  <2>1. \E t : IsStack(dataset, t) /\ IsSliced(dataset, source)
    BY <1>1, StackOpened
  <2> QED
    BY <2>1 DEF IsStack, Rank
<1>3. dataset.chunk_shape[1] = 1 /\ 1 \in AllDims
  BY <1>2 DEF IsSliced, AllDims
<1>4. /\ c[1] \in 0 .. dataset.chunk_shape[1] - 1 /\ cell[1] \in 0 .. dataset.shape[1] - 1
      /\ pos[1] \in Nat /\ cell[1] = pos[1] * dataset.chunk_shape[1] + c[1]
  BY <1>3, CellInChunk
<1> HIDE DEF cell, c
<1>5. c[1] = 0
  BY <1>3, <1>4
<1>6. cell[1] = pos[1]
  BY <1>3, <1>4, <1>5
<1> QED
  BY <1>4, <1>6 DEF cell

(* The tile that a chunk's key names.                                        *)
TileIndex(f, pos) == FlatIdx(parse_cog_metadata(f), SubSeq(pos, Rank - 1, Rank))

(* A chunk of an image is a tile of the file that its rows show: there if    *)
(* the tile's offset is read, and holding its pixels if it inflates; it      *)
(* panics if the byte count is not read.                                    *)
LEMMA ImageChunk ==
  ASSUME Opening, IsOpened(dataset), Wellformed, IsBoxed, IsOrdered, source.kind # "zarr",
         NEW pos, IsChunk(pos), NEW f, f = FileOf(source, request.asset, pos),
         NEW meta, meta = parse_cog_metadata(f)
  PROVE  /\ IsFramed(meta)
         /\ \A c : (source.kind = "stack" => c[1] = pos[1]) =>
              f \in Depicted(c, Coordinate(1, c[1]))
         /\ ChunkPresent(source, request.asset, pos) <=> OffsetAt(f, TileIndex(f, pos))
         /\ ChunkPanics(source, request.asset, pos) => NoCountAt(f, TileIndex(f, pos))
         /\ ChunkPresent(source, request.asset, pos) =>
              \/ ChunkCorrupt(source, request.asset, pos)
              \/ HoldsTile(ChunkSamples(source, request.asset, pos), f,
                           pos[Rank - 1], pos[Rank], meta)
<1>1. 0 \in 0 .. SizeOf(pos) - 1
  BY CellsOfChunk
<1>2. source.kind = "stack" => pos[1] \in 0 .. dataset.shape[1] - 1
  BY <1>1, SliceOfChunk
<1>3. /\ Tiled(f) /\ IsFramed(meta)
      /\ \A c : (source.kind = "stack" => c[1] = pos[1]) =>
           f \in Depicted(c, Coordinate(1, c[1]))
  BY <1>2, ImageFramed
<1> DEFINE key == FileKey(source, pos)
<1>4. /\ TileKey(meta, key) = <<pos[Rank - 1], pos[Rank]>>
      /\ SubSeq(pos, Rank - 1, Rank) = <<pos[Rank - 1], pos[Rank]>>
      /\ pos[Rank - 1] \in Nat /\ pos[Rank] \in Nat
  BY <1>3, KeyOfTile
<1>5. PICK y, x \in Nat : y = pos[Rank - 1] /\ x = pos[Rank]
  BY <1>4
<1>6. /\ {meta.samples_per_pixel, meta.tile_length, meta.tile_width} \subseteq Nat \ {0}
      /\ {meta.image_length, meta.image_width} \subseteq Nat
  BY <1>3, TileVolume
<1> DEFINE down == CeilDiv(meta.image_length, meta.tile_length)
           across == CeilDiv(meta.image_width, meta.tile_width)
           n == y * across + x
<1>7. down \in Nat /\ y \in 0 .. down - 1 /\ across \in Nat /\ x \in 0 .. across - 1
  <2>1. PICK b \in 0 .. meta.samples_per_pixel - 1, i \in 0 .. meta.tile_length - 1,
             k \in 0 .. meta.tile_width - 1 :
          /\ CellAt(pos, 0)[Rank - 1] = pos[Rank - 1] * meta.tile_length + i
          /\ CellAt(pos, 0)[Rank] = pos[Rank] * meta.tile_width + k
          /\ CellAt(pos, 0)[Rank - 1] < meta.image_length
          /\ CellAt(pos, 0)[Rank] < meta.image_width
    BY <1>1, <1>3, PlaceInTile
  <2>2. y * meta.tile_length + i < meta.image_length /\ x * meta.tile_width + k < meta.image_width
    BY <1>5, <2>1
  <2>3. down \in Nat /\ y \in 0 .. down - 1
    BY <1>5, <1>6, <2>1, <2>2, InSomeTile
  <2>4. across \in Nat /\ x \in 0 .. across - 1
    BY <1>5, <1>6, <2>1, <2>2, InSomeTile
  <2> QED
    BY <2>3, <2>4
<1>8. TileIndex(f, pos) = n /\ FlatIdx(meta, TileKey(meta, key)) = n /\ Len(TileKey(meta, key)) = 2
  <2> DEFINE yx == <<y, x>>
  <2>1. TileKey(meta, key) = yx /\ SubSeq(pos, Rank - 1, Rank) = yx
    BY <1>4, <1>5
  <2>2. FlatIdx(meta, yx) = n
    <3>1. yx[1] = y /\ yx[2] = x
      OBVIOUS
    <3> HIDE DEF yx
    <3> QED
      BY <3>1 DEF FlatIdx
  <2>3. Len(yx) = 2
    OBVIOUS
  <2> HIDE DEF yx, n
  <2> QED
    BY <2>1, <2>2, <2>3 DEF TileIndex
<1> DEFINE raw == f.tiles[meta.tile_offsets[n + 1]]
<1>9. /\ n < Len(meta.tile_offsets) <=> OffsetAt(f, n)
      /\ n < Len(meta.tile_offsets) => raw = <<>> \/ IsTile(f, y, x, raw)
      /\ n >= Len(meta.tile_byte_counts) => NoCountAt(f, n)
  BY <1>3, <1>5, <1>7, TilesRead
<1>10. raw = RawTile(f, meta, key)
  BY <1>8 DEF RawTile
<1> HIDE DEF n, down, across, raw, key
<1>11. ChunkPresent(source, request.asset, pos) <=> n < Len(meta.tile_offsets)
  BY <1>8 DEF ChunkPresent, HasTile, key
<1>12. ChunkPanics(source, request.asset, pos) <=> n >= Len(meta.tile_byte_counts)
  BY <1>8 DEF ChunkPanics, TilePanics, key
<1>13. ChunkCorrupt(source, request.asset, pos) <=>
         raw = <<>> \/ Len(raw) % meta.samples_per_pixel # 0
  BY <1>10 DEF ChunkCorrupt, TileError, key
<1>14. ChunkSamples(source, request.asset, pos) = TileSamples(f, meta, key)
  BY DEF ChunkSamples, key
<1>15. IsTile(f, y, x, raw) =>
         HoldsTile(TileSamples(f, meta, key), f, y, x, meta)
  BY <1>5, <1>6, <1>10, TileElements
<1>16. n < Len(meta.tile_offsets) => \/ ChunkCorrupt(source, request.asset, pos)
                                     \/ HoldsTile(ChunkSamples(source, request.asset, pos), f, y, x, meta)
  BY <1>9, <1>13, <1>14, <1>15
<1> QED
  BY <1>3, <1>5, <1>8, <1>9, <1>11, <1>12, <1>16

(* An element of a tile is the pixel of its cell.                            *)
LEMMA ImageElements ==
  ASSUME Opening, IsOpened(dataset), Wellformed, IsBoxed, IsOrdered, source.kind # "zarr",
         NEW pos, IsChunk(pos), NEW f, f = FileOf(source, request.asset, pos),
         ChunkPresent(source, request.asset, pos), ~ChunkCorrupt(source, request.asset, pos),
         NEW samples, samples = ChunkSamples(source, request.asset, pos)
  PROVE  /\ Len(samples) = Volume(dataset.chunk_shape)
         /\ \A j \in 0 .. SizeOf(pos) - 1 :
              samples[InChunk(pos, Info(pos), j)] = Pixel(f, CellAt(pos, j))
<1> DEFINE meta == parse_cog_metadata(f)
<1>1. IsFramed(meta) /\ HoldsTile(samples, f, pos[Rank - 1], pos[Rank], meta)
  BY ImageChunk
<1> HIDE DEF meta
<1>2. /\ Volume(dataset.chunk_shape) = meta.samples_per_pixel * (meta.tile_length * meta.tile_width)
      /\ {meta.samples_per_pixel, meta.tile_length, meta.tile_width} \subseteq Nat \ {0}
      /\ {meta.image_length, meta.image_width} \subseteq Nat
  BY <1>1, TileVolume
<1>3. PICK spp, tl, tw \in Nat \ {0} :
        spp = meta.samples_per_pixel /\ tl = meta.tile_length /\ tw = meta.tile_width
  BY <1>2
<1>4. InBands(samples, f, pos[Rank - 1], pos[Rank], spp, tl, tw, meta.image_length, meta.image_width)
  BY <1>1, <1>3, Zenon DEF HoldsTile
<1>5. Len(samples) = Volume(dataset.chunk_shape)
  BY <1>2, <1>3, <1>4, Zenon DEF InBands
<1>6. ASSUME NEW j \in 0 .. SizeOf(pos) - 1
      PROVE  samples[InChunk(pos, Info(pos), j)] = Pixel(f, CellAt(pos, j))
  <2>1. PICK cell : cell = CellAt(pos, j)
    OBVIOUS
  <2>2. PICK b \in 0 .. spp - 1, i \in 0 .. tl - 1, k \in 0 .. tw - 1 :
          /\ InChunk(pos, Info(pos), j) = 1 + (b * (tl * tw) + (i * tw + k))
          /\ cell[Rank - 1] = pos[Rank - 1] * tl + i
          /\ cell[Rank] = pos[Rank] * tw + k
          /\ cell[Rank - 1] < meta.image_length /\ cell[Rank] < meta.image_width
          /\ b = IF spp > 1 THEN cell[1] ELSE 0
    <3>1. \E b \in 0 .. meta.samples_per_pixel - 1, i \in 0 .. meta.tile_length - 1,
             k \in 0 .. meta.tile_width - 1 :
          /\ InChunk(pos, Info(pos), j)
               = 1 + (b * (meta.tile_length * meta.tile_width) + (i * meta.tile_width + k))
          /\ cell[Rank - 1] = pos[Rank - 1] * meta.tile_length + i
          /\ cell[Rank] = pos[Rank] * meta.tile_width + k
          /\ cell[Rank - 1] < meta.image_length /\ cell[Rank] < meta.image_width
          /\ b = IF meta.samples_per_pixel > 1 THEN cell[1] ELSE 0
      BY <1>1, <2>1, PlaceInTile
    <3> QED
      BY <1>3, <3>1, Zenon
  <2>3. samples[InChunk(pos, Info(pos), j)] = f.image[<<b, cell[Rank - 1], cell[Rank]>>]
    <3>1. samples[1 + (b * (tl * tw) + (i * tw + k))]
            = f.image[<<b, pos[Rank - 1] * tl + i, pos[Rank] * tw + k>>]
      <4>1. pos[Rank - 1] * tl + i < meta.image_length /\ pos[Rank] * tw + k < meta.image_width
        BY <2>2
      <4> QED
        BY <1>4, <4>1, Zenon DEF InBands
    <3> QED
      BY <2>2, <3>1, Zenon
  <2>4. Rank \in {2, 3} /\ AllDims = 1 .. Rank
    BY <1>1 DEF IsFramed, AllDims
  <2>5. cell = [d \in 1 .. Rank |-> cell[d]]
    BY <2>1, <2>4 DEF CellAt
  <2>6. /\ SubSeq(cell, Rank - 1, Rank) = <<cell[Rank - 1], cell[Rank]>>
        /\ Rank = 3 => cell = <<cell[1], cell[2], cell[3]>>
    BY <2>4, <2>5, LastTwo
  <2>7. <<0>> \o SubSeq(cell, Rank - 1, Rank) = <<0, cell[Rank - 1], cell[Rank]>>
    BY <2>6, AfterFirst
  <2>8. Pixel(f, cell) = f.image[IF source.kind # "stack" /\ Rank = 3 THEN cell
                                 ELSE <<0>> \o SubSeq(cell, Rank - 1, Rank)]
    BY Zenon DEF Pixel
  <2>9. CASE source.kind # "stack" /\ Rank = 3
    <3>1. spp > 1
      BY <1>1, <1>3, <2>9 DEF IsFramed
    <3>2. b = cell[1] /\ Rank - 1 = 2
      BY <2>2, <2>9, <3>1
    <3>3. cell = <<b, cell[Rank - 1], cell[Rank]>>
      BY <2>6, <2>9, <3>2
    <3>4. Pixel(f, cell) = f.image[cell]
      BY <2>8, <2>9, Zenon
    <3> QED
      BY <2>1, <2>3, <3>3, <3>4, Zenon
  <2>10. CASE ~(source.kind # "stack" /\ Rank = 3)
    <3>1. b = 0
      BY <1>1, <1>3, <2>2, <2>10 DEF IsFramed
    <3>2. Pixel(f, cell) = f.image[<<0>> \o SubSeq(cell, Rank - 1, Rank)]
      BY <2>8, <2>10, Zenon
    <3> QED
      BY <2>1, <2>3, <2>7, <3>1, <3>2, Zenon
  <2> QED
    BY <2>9, <2>10
<1> QED
  BY <1>5, <1>6

(* The fill value of an opened image is the sample it shows as NULL.        *)
LEMMA NullIsFill ==
  ASSUME IsOpened(dataset), source.kind \in {"cog", "item", "stack"}
  PROVE  dataset.fill_value = NullSample
<1> DEFINE name == The(SelectedAssets(source, request.asset))
           Fill(f) == IF Nodata(f) = {} THEN <<0>> ELSE The(Nodata(f))
<1>1. \A f : CogArray(parse_cog_metadata(f)).fill_value = Fill(f)
  BY DEF CogArray, parse_cog_metadata, The
<1>2. dataset.fill_value = ArrayOf(source, name).fill_value
  BY DEF IsOpened, Opened, source
<1>3. CASE source.kind = "cog"
  BY <1>1, <1>2, <1>3 DEF ArrayOf, NullSample
<1>4. CASE source.kind = "item"
  BY <1>1, <1>2, <1>4 DEF ArrayOf, NullSample
<1>5. CASE source.kind = "stack"
  <2>1. ArrayOf(source, name) = StackArray(source, name)
    BY <1>5 DEF ArrayOf
  <2>2. StackArray(source, name).fill_value
          = CogArray(parse_cog_metadata(SortedItems(source)[1].files[name])).fill_value
    BY DEF StackArray, CogArray
  <2> QED
    BY <1>1, <1>2, <1>5, <2>1, <2>2 DEF NullSample
<1> QED
  BY <1>3, <1>4, <1>5

(* The value a row may show for a cell, if the chunks in l were lost.        *)
Shows(cell, v, l) ==
  LET Missing(f) == ChunkOf(cell) \in l \/ ~OffsetRead(f, cell)
                    \/ Pixel(f, cell) = NullSample
  IN IF source.kind = "zarr"
     THEN v = IF ChunkOf(cell) \in source.absent \/ cell \in source.filled THEN Null ELSE cell
     ELSE \E f \in Depicted(cell, Coordinate(1, cell[1])) :
            v = IF Missing(f) THEN Null ELSE Pixel(f, cell)

(* What is read of a chunk is the value of its cells.                        *)
LEMMA ElementShows ==
  ASSUME Opening, IsOpened(dataset), Wellformed, IsBoxed, IsOrdered,
         NEW pos, IsChunk(pos), NEW j \in 0 .. SizeOf(pos) - 1, NEW got \in BOOLEAN,
         got => ~(ChunkPresent(source, request.asset, pos) /\ ChunkCorrupt(source, request.asset, pos)),
         ~got => source.kind # "zarr", NEW l, pos \in l <=> ~got
  PROVE  Shows(CellAt(pos, j),
               Value(Elements(pos, got /\ ChunkPresent(source, request.asset, pos))[j + 1]), l)
<1> DEFINE present == ChunkPresent(source, request.asset, pos)
           samples == ChunkSamples(source, request.asset, pos)
           e == Elements(pos, got /\ present)[j + 1]
<1>1. PICK cell : cell = CellAt(pos, j)
  OBVIOUS
<1>2. ChunkOf(cell) = pos
  BY <1>1, CellsOfChunk
<1>3. e = IF got /\ present THEN samples[InChunk(pos, Info(pos), j)] ELSE dataset.fill_value
  <2>1. SizeOf(pos) \in Nat
    BY CellsOfChunk
  <2>2. j + 1 \in 1 .. SizeOf(pos) /\ (j + 1) - 1 = j
    BY <2>1
  <2>3. Elements(pos, got /\ present)
          = [k \in 1 .. SizeOf(pos) |->
               IF got /\ present THEN samples[InChunk(pos, Info(pos), k - 1)] ELSE dataset.fill_value]
    BY DEF Elements, SizeOf
  <2> QED
    BY <2>2, <2>3
<1>4. CASE source.kind = "zarr"
  <2>1. got /\ (present <=> pos \notin source.absent)
    BY <1>4 DEF ChunkPresent
  <2>2. /\ samples[InChunk(pos, Info(pos), j)]
             = IF cell \in source.filled THEN dataset.fill_value ELSE cell
        /\ cell # dataset.fill_value
    BY <1>1, <1>4, ArrayElements
  <2> HIDE DEF present, samples, e
  <2>3. Value(e) = IF pos \in source.absent \/ cell \in source.filled THEN Null ELSE cell
    BY <1>3, <2>1, <2>2, Zenon DEF Value
  <2> QED
    BY <1>1, <1>2, <1>4, <2>3, Zenon DEF Shows, e, present
<1>5. CASE source.kind # "zarr"
  <2>1. PICK f : f = FileOf(source, request.asset, pos)
    OBVIOUS
  <2>2. /\ \A c : (source.kind = "stack" => c[1] = pos[1]) =>
              f \in Depicted(c, Coordinate(1, c[1]))
        /\ present <=> OffsetAt(f, TileIndex(f, pos))
    BY <1>5, <2>1, ImageChunk
  <2>3. f \in Depicted(cell, Coordinate(1, cell[1]))
    <3>1. source.kind = "stack" => cell[1] = pos[1]
      BY <1>1, SliceOfChunk
    <3> QED
      BY <2>2, <3>1
  <2>4. OffsetRead(f, cell) <=> present
    BY <1>2, <2>2 DEF OffsetRead, OffsetAt, TileIndex
  <2>5. got /\ present => samples[InChunk(pos, Info(pos), j)] = Pixel(f, cell)
    BY <1>1, <1>5, <2>1, ImageElements
  <2> HIDE DEF present, samples, e
  <2>6. dataset.fill_value = NullSample
    <3>1. source.kind \in {"cog", "item", "stack"}
      BY <1>5, ImagesAssumption DEF Opening, source
    <3> QED
      BY <3>1, NullIsFill
  <2>7. Value(e) = IF ChunkOf(cell) \in l \/ ~OffsetRead(f, cell)
                      \/ Pixel(f, cell) = NullSample
                   THEN Null ELSE Pixel(f, cell)
    BY <1>2, <1>3, <2>4, <2>5, <2>6, Zenon DEF Value
  <2> QED
    BY <1>1, <1>5, <2>3, <2>7, Zenon DEF Shows, e, present
<1> QED
  BY <1>4, <1>5

-----------------------------------------------------------------------------
(* No failure.                                                             *)

(* A box in order is read without a failure, but for a tile whose byte count *)
(* is not among the bytes read of its file.                                  *)
LEMMA ReadPossible ==
  ASSUME Opening, Bounded, IsOrdered, Reading, chunk_idx < num_chunks
  PROVE  Possible \/ LengthUnread
<1>1. Wellformed /\ Complete /\ IsBoxed /\ HasBounds /\ IsOpened(dataset)
  BY BoundFacts DEF Bounded
<1>2. IsUpright /\ num_chunks = Volume(DimLen)
  BY <1>1, OrderedUpright, CountIsVolume DEF Bounded, Counted
<1>3. IsChunk(Pos)
  <2>1. chunk_idx \in 0 .. Volume(DimLen) - 1
    BY <1>2 DEF Reading
  <2> QED
    BY <1>1, <1>2, <2>1, ChunksOfBox DEF Pos
<1>4. ~PosPanics
  <2>1. ASSUME NEW d \in AllDims
        PROVE  ~(ChunkMax[d] < ChunkMin[d])
    <3>1. ChunkMin[d] \in Nat /\ ChunkMax[d] \in Nat
      BY <1>1, ExtentType
    <3>2. ChunkMin[d] <= ChunkMax[d]
      BY <1>2 DEF IsUpright
    <3> QED
      BY <3>1, <3>2
  <2> QED
    BY <2>1 DEF PosPanics
<1>5. ~SubsetFails(Pos)
  <2>1. ASSUME NEW d \in AllDims
        PROVE  ~(SubsetHi(Pos)[d] < SubsetLo(Pos)[d])
    <3>1. SubsetLo(Pos)[d] \in Nat /\ SubsetShape(Pos)[d] \in Nat \ {0}
      BY <1>1, <1>3, PartOfBox
    <3>2. /\ bounds_max[d] \in Int /\ dataset.chunk_shape[d] \in Int /\ Pos[d] \in Int
      <4>1. dataset.shape[d] \in Nat /\ dataset.chunk_shape[d] \in Nat
        BY <1>1, SizeType
      <4> QED
        BY <1>1, <1>3, <4>1 DEF IsBoxed, IsBox, IsChunk
    <3>3. (Pos[d] + 1) * dataset.chunk_shape[d] - 1 \in Int
      BY <3>2
    <3>4. SubsetHi(Pos)[d] \in Int
      BY <3>2, <3>3 DEF SubsetHi, Lower
    <3>5. SubsetShape(Pos)[d] = SubsetHi(Pos)[d] - SubsetLo(Pos)[d] + 1
      BY DEF SubsetShape
    <3> QED
      BY <3>1, <3>4, <3>5
  <2> QED
    BY <2>1 DEF SubsetFails
<1>6. ASSUME Present, ChunkPanics(source, request.asset, Pos)
      PROVE  LengthUnread
  <2>1. source.kind # "zarr"
    BY <1>6 DEF ChunkPanics
  <2>2. PICK f : f = FileOf(source, request.asset, Pos)
    OBVIOUS
  <2>3. /\ f \in Depicted(Pos, Coordinate(1, Pos[1]))
        /\ NoCountAt(f, TileIndex(f, Pos))
    BY <1>1, <1>3, <1>6, <2>1, <2>2, ImageChunk
  <2> QED
    BY <1>6, <2>1, <2>3 DEF LengthUnread, NoCountAt, TileIndex
<1>7. ASSUME Present, ~Corrupt
      PROVE  ~DecodeFails(Pos, ChunkSamples(source, request.asset, Pos))
  <2>1. PICK samples : samples = ChunkSamples(source, request.asset, Pos)
    OBVIOUS
  <2>2. Len(samples) = Volume(dataset.chunk_shape)
    <3>1. CASE source.kind = "zarr"
      BY <1>1, <1>3, <2>1, <3>1, ArrayElements
    <3>2. CASE source.kind # "zarr"
      <4>1. PICK f : f = FileOf(source, request.asset, Pos)
        OBVIOUS
      <4> QED
        BY <1>1, <1>3, <1>7, <2>1, <3>2, <4>1, ImageElements DEF Present, Corrupt
    <3> QED
      BY <3>1, <3>2
  <2>3. ASSUME NEW k \in 0 .. Volume(SubsetShape(Pos)) - 1
        PROVE  ~(InChunk(Pos, Info(Pos), k) > Len(samples))
    <3>1. /\ Volume(dataset.chunk_shape) \in Nat \ {0}
          /\ InChunk(Pos, Info(Pos), k) \in 1 .. Volume(dataset.chunk_shape)
      BY <1>1, <1>3, PlaceBound DEF SizeOf
    <3> QED
      BY <2>2, <3>1
  <2> QED
    BY <2>1, <2>2, <2>3 DEF DecodeFails
<1> QED
  BY <1>4, <1>5, <1>6, <1>7 DEF Possible

(* The subset of a chunk of an ordered box has runs to write.                *)
LEMMA WritePossible ==
  ASSUME Opening, Bounding, Reading, Writing, Telling, IsOrdered, phase = "write"
  PROVE  ~PopulatePanics(subset_info)
<1>1. Bounded /\ chunk_idx # 0
  BY DEF Bounding, Unbound, Telling
<1>2. Wellformed /\ IsBoxed
  BY <1>1, BoundFacts
<1>3. num_chunks = Volume(DimLen) /\ chunk_idx \in 1 .. num_chunks /\ ChunkHeld /\ num_chunks \in Nat
  BY <1>1, ChunkFacts
<1>4. IsChunk(GetChunkPos(chunk_idx - 1))
  <2>1. chunk_idx - 1 \in 0 .. Volume(DimLen) - 1
    BY <1>3
  <2> QED
    BY <1>2, <2>1, OrderedUpright, ChunksOfBox
<1>5. PICK pos : pos = GetChunkPos(chunk_idx - 1) /\ IsChunk(pos)
  BY <1>4
<1> DEFINE f == SubsetShape(pos)
<1>6. \A d \in AllDims : f[d] \in Nat \ {0}
  BY <1>2, <1>5, PartOfBox
<1>7. subset_info.shape = f /\ subset_info.strides = Strides(f)
  BY <1>3, <1>5 DEF ChunkHeld, Info
<1> HIDE DEF f
<1>8. Rank \in Nat /\ IsAfter(ProductAfter(f), f, Rank)
  BY <1>2, <1>6, ProductsAre DEF Wellformed
<1>9. ASSUME NEW d \in AllDims
      PROVE  subset_info.shape[d] # 0 /\ subset_info.strides[d] # 0
  <2>1. d \in 0 .. Rank
    BY <1>8 DEF AllDims
  <2>2. Strides(f)[d] = ProductAfter(f)[d]
    BY DEF Strides
  <2>3. ProductAfter(f)[d] # 0
    BY <1>8, <2>1 DEF IsAfter
  <2> QED
    BY <1>6, <1>7, <2>2, <2>3
<1> QED
  BY <1>9 DEF PopulatePanics

(* A query fails only where the properties say it may.                       *)
Failing == phase = "failed" => ~IsOrdered \/ LengthUnread

LEMMA FailingStep ==
  ASSUME Opening, Bounding, Reading, Writing, Telling, Failing, [Next]_vars
  PROVE  Failing'
<1>1. request' = request
  BY KeepsBox
<1>2. ASSUME phase' = "failed"
      PROVE  (~IsOrdered \/ LengthUnread) /\ UNCHANGED box /\ chunk_idx' = chunk_idx
  <2>1. CASE ReadFails
    <3>1. phase = "scan" /\ chunk_idx < num_chunks /\ ~Possible /\ UNCHANGED box /\ chunk_idx' = chunk_idx
      BY <2>1 DEF ReadFails
    <3>2. Bounded
      BY <3>1 DEF Bounding, Unbound
    <3> QED
      BY <3>1, <3>2, ReadPossible
  <2>2. CASE WriteFails
    <3>1. phase = "write" /\ PopulatePanics(subset_info) /\ UNCHANGED box /\ chunk_idx' = chunk_idx
      BY <2>2 DEF WriteFails
    <3> QED
      BY <3>1, WritePossible
  <2>3. CASE phase = "failed" /\ UNCHANGED <<box, chunk_idx>>
    BY <2>3 DEF Failing
  <2>4. \/ ReadFails \/ WriteFails
        \/ phase = "failed" /\ UNCHANGED <<box, chunk_idx>>
    BY <1>2 DEF Next, vars, Open, OpenFails, Bind, ReadChunk, ReadRefused, WriteBatch, EndOfStream,
                Answered
  <2> QED
    BY <2>1, <2>2, <2>3, <2>4
<1>3. ASSUME UNCHANGED box, chunk_idx' = chunk_idx
      PROVE  (IsOrdered' <=> IsOrdered) /\ (LengthUnread' <=> LengthUnread)
  <2>1. dataset' = dataset /\ source' = source
    BY <1>1, <1>3 DEF box, source
  <2>2. Pos' = Pos
    BY <1>1, <1>3, SameBox DEF Pos
  <2>3. Rank' = Rank
    BY <2>1 DEF Rank
  <2>4. \A i : Coordinate(1, i)' = Coordinate(1, i)
    BY <2>1 DEF Coordinate
  <2>5. \A c, t : Depicted(c, t)' = Depicted(c, t)
    BY <1>1, <2>1 DEF Depicted
  <2>6. LengthUnread' <=> LengthUnread
    BY <1>1, <2>1, <2>2, <2>3, <2>4, <2>5 DEF LengthUnread, Present
  <2> QED
    BY <1>1, <1>3, <2>6, SameCells
<1> QED
  BY <1>2, <1>3 DEF Failing

(* A query whose window holds a cell never overflows, never divides by 0,     *)
(* never asks the array library for a subset or a byte range that is not      *)
(* there and gets every tile in full, for any source, any rank and any        *)
(* shapes; but it panics at a tile whose byte count the header read does not  *)
(* reach.                                                                    *)
THEOREM NeverFails == Spec => []MatchingNeverFails
<1>1. Init => Failing
  BY DEF Init, Failing
<1>2. QueryInv /\ Telling /\ Failing /\ [Next]_vars => Failing'
  BY FailingStep DEF QueryInv
<1>3. QueryInv /\ Failing => MatchingNeverFails
  <2> SUFFICES ASSUME QueryInv, Failing, phase = "failed", Answerable
               PROVE  LengthUnread
    BY DEF MatchingNeverFails
  <2>1. Opening /\ Bounded
    BY DEF QueryInv, Bounding, Unbound
  <2>2. IsOrdered
    BY <2>1, AnswerableUpright DEF IsOrdered
  <2> QED
    BY <2>2 DEF Failing
<1> QED
  BY <1>1, <1>2, <1>3, RowsInvariant, PTL DEF Spec

(* A chunk of a box out of order has no elements: a side of it is 0.         *)
LEMMA NothingBuffered ==
  ASSUME Wellformed, IsBoxed, chunk_idx \in Nat, Possible, ~IsOrdered, NEW present
  PROVE  Len(Elements(Pos, present)) = 0
<1> DEFINE f == SubsetShape(Pos)
           p == ProductAfter(f)
<1>1. f \in [AllDims -> Nat] /\ Rank \in Nat
  BY SubsetSized DEF Wellformed
<1>2. PICK d \in AllDims : ~(bounds_min[d] <= bounds_max[d])
  BY DEF IsOrdered
<1>3. f[d] = 0
  <2>1. Pos \in [AllDims -> Nat]
    BY PosType DEF Possible, Pos
  <2>2. /\ bounds_min[d] \in Int /\ bounds_max[d] \in Int /\ dataset.chunk_shape[d] \in Int
        /\ Pos[d] \in Int
    <3>1. dataset.shape[d] \in Nat /\ U64 \in Nat /\ dataset.chunk_shape[d] \in Nat
      BY SizeType
    <3> QED
      BY <2>1, <3>1 DEF IsBoxed, IsBox
  <2>3. Pos[d] * dataset.chunk_shape[d] \in Int /\ (Pos[d] + 1) * dataset.chunk_shape[d] - 1 \in Int
    BY <2>2
  <2>4. /\ SubsetLo(Pos)[d] \in Int /\ SubsetHi(Pos)[d] \in Int
        /\ SubsetLo(Pos)[d] >= bounds_min[d] /\ SubsetHi(Pos)[d] <= bounds_max[d]
    BY <2>2, <2>3 DEF SubsetLo, SubsetHi, Upper, Lower
  <2>5. SubsetHi(Pos)[d] < SubsetLo(Pos)[d]
    BY <1>2, <2>2, <2>4
  <2>6. ~(f[d] < 0) /\ f[d] = SubsetHi(Pos)[d] - SubsetLo(Pos)[d] + 1
    BY <2>5 DEF Possible, SubsetFails, SubsetShape
  <2> QED
    BY <2>4, <2>5, <2>6
<1>4. /\ p \in [0 .. Rank -> Nat]
      /\ \A k \in AllDims : p[k - 1] = f[k] * p[k]
  <2>1. 1 \in Nat /\ \A k \in AllDims : \A x \in Nat : f[k] * x \in Nat
    <3>1. \A a, x \in Nat : a * x \in Nat
      OBVIOUS
    <3> QED
      BY <1>1, <3>1
  <2> QED
    BY <1>1, <2>1, Products
<1> HIDE DEF f, p
<1>5. d \in 1 .. Rank /\ AllDims = 1 .. Rank
  BY <1>2 DEF AllDims
<1> DEFINE A == {n \in 0 .. Rank : n < d => p[n] = 0}
<1>6. Rank \in A
  BY <1>1, <1>5
<1>7. ASSUME NEW n \in 1 .. Rank, n \in A
      PROVE  n - 1 \in A
  <2>1. n - 1 \in 0 .. Rank /\ p[n - 1] = f[n] * p[n] /\ f[n] \in Nat /\ p[n] \in Nat
    BY <1>1, <1>4, <1>5
  <2>2. CASE n = d
    BY <1>3, <2>1, <2>2
  <2>3. CASE n < d
    BY <1>7, <2>1, <2>3
  <2>4. CASE n > d
    BY <1>5, <2>1, <2>4
  <2> QED
    BY <1>5, <2>2, <2>3, <2>4
<1> HIDE DEF A
<1>8. 0 .. Rank \subseteq A
  BY <1>1, <1>6, <1>7, DownwardInduction
<1>9. p[0] = 0
  <2>1. 0 \in 0 .. Rank /\ 0 < d
    BY <1>1, <1>5
  <2> QED
    BY <1>8, <2>1 DEF A
<1> DEFINE e == Elements(Pos, present)
           v == Volume(f)
<1>10. e = [k \in 1 .. v |-> e[k]]
  BY DEF Elements, f
<1>11. v = 0
  BY <1>9 DEF Volume, p
<1> HIDE DEF e, v
<1>12. Len(e) = 0
  <2>1. e = [k \in 1 .. 0 |-> e[k]] /\ 0 \in Nat
    BY <1>10, <1>11
  <2> QED
    BY <2>1, ListLength
<1> QED
  BY <1>12 DEF e

(* Each row of a batch has the cell and the value of an element.             *)
LEMMA BatchValues ==
  ASSUME Writing, IsListed(rows), WriteBatch
  PROVE  /\ IsListed(rows') /\ Len(rows') \in Nat
         /\ \A i \in 1 .. Len(rows') :
              \/ i \in 1 .. Len(rows) /\ rows'[i] = rows[i]
              \/ \E j \in cursor .. Len(buffer) - 1 :
                   /\ rows'[i].cell = [d \in AllDims |-> GlobalCoord(subset_info, d, j)]
                   /\ \A v \in rows'[i].value : v = Value(buffer[j + 1])
<1> DEFINE n == Lower(Len(buffer) - cursor, VectorSize - valid_rows)
           dims == query.projected \cap AllDims
           column == [d \in dims |-> PopulateBatch(subset_info, d, cursor, n)]
           batch == [i \in 1 .. n |->
              [cell |-> [d \in AllDims |-> GlobalCoord(subset_info, d, cursor + i - 1)],
               columns |-> [d \in dims |-> column[d][i]],
               value |-> IF Rank + 1 \in query.projected THEN {Value(buffer[cursor + i])}
                         ELSE {}]]
<1>1. rows' = rows \o batch
  BY DEF WriteBatch
<1>2. n \in Nat /\ cursor \in Nat /\ Len(buffer) \in Nat /\ cursor + n <= Len(buffer)
  <2>1. /\ Len(buffer) \in Nat /\ cursor \in 0 .. Len(buffer) /\ VectorSize \in Nat \ {0}
        /\ valid_rows \in 0 .. VectorSize - 1
    BY ReadAssumption DEF Writing
  <2> QED
    BY <2>1 DEF Lower
<1>3. batch = [i \in 1 .. n |-> batch[i]]
  OBVIOUS
<1>4. \A i \in 1 .. n :
        /\ batch[i].cell = [d \in AllDims |-> GlobalCoord(subset_info, d, cursor + i - 1)]
        /\ \A v \in batch[i].value : v = Value(buffer[cursor + i])
  OBVIOUS
<1> HIDE DEF n, batch
<1>5. /\ IsListed(rows \o batch) /\ Len(rows \o batch) = Len(rows) + n /\ Len(rows) \in Nat
      /\ \A i \in 1 .. Len(rows) : (rows \o batch)[i] = rows[i]
      /\ \A i \in 1 .. n : (rows \o batch)[Len(rows) + i] = batch[i]
  BY <1>2, <1>3, ListedConcat, SMTT(30)
<1>6. ASSUME NEW i \in 1 .. Len(rows')
      PROVE  \/ i \in 1 .. Len(rows) /\ rows'[i] = rows[i]
             \/ \E j \in cursor .. Len(buffer) - 1 :
                  /\ rows'[i].cell = [d \in AllDims |-> GlobalCoord(subset_info, d, j)]
                  /\ \A v \in rows'[i].value : v = Value(buffer[j + 1])
  <2>1. PICK m \in Nat : m = Len(rows)
    BY <1>5
  <2>2. i \in 1 .. m \/ (i - m \in 1 .. n /\ i = m + (i - m))
    BY <1>1, <1>2, <1>5, <2>1
  <2>3. CASE i \in 1 .. m
    BY <1>1, <1>5, <2>1, <2>3
  <2>4. CASE i - m \in 1 .. n /\ i = m + (i - m)
    <3>1. PICK a \in 1 .. n : i = m + a
      BY <2>4
    <3>2. rows'[i] = batch[a]
      BY <1>1, <1>5, <2>1, <3>1
    <3>3. PICK j \in cursor .. Len(buffer) - 1 : j = cursor + a - 1 /\ j + 1 = cursor + a
      <4>1. /\ cursor + a - 1 \in cursor .. Len(buffer) - 1
            /\ (cursor + a - 1) + 1 = cursor + a
        BY <1>2
      <4> QED
        BY <4>1
    <3> QED
      BY <1>4, <3>2, <3>3
  <2> QED
    BY <2>2, <2>3, <2>4
<1>7. IsListed(rows') /\ Len(rows') \in Nat
  <2>1. Len(rows \o batch) \in Nat
    BY <1>2, <1>5
  <2> QED
    BY <1>1, <1>5, <2>1
<1> QED
  BY <1>6, <1>7

-----------------------------------------------------------------------------
(* The values of the rows.                                                  *)

RowsShow == \A i \in 1 .. Len(rows) : \A v \in rows[i].value : Shows(rows[i].cell, v, lost)
BufferShows ==
  phase = "write" =>
    \A j \in 0 .. Size(chunk_idx - 1) - 1 :
      Shows(Cell(chunk_idx - 1, j), Value(buffer[j + 1]), lost)
NothingShown == Len(rows) = 0 /\ (phase = "write" => Len(buffer) = 0)

Valuing ==
  /\ chunk_idx # 0 /\ IsOrdered => RowsShow /\ BufferShows
  /\ chunk_idx # 0 /\ ~IsOrdered => NothingShown

(* What a cell may show is the dataset's, and its chunk's.                   *)
LEMMA SameValues ==
  ASSUME request' = request, dataset' = dataset
  PROVE  /\ \A cell, v, l : Shows(cell, v, l)' <=> Shows(cell, v, l)
         /\ \A e : Value(e)' = Value(e)
<1>1. Rank' = Rank /\ AllDims' = AllDims /\ source' = source
  BY DEF Rank, AllDims, source
<1>2. \A cell : ChunkOf(cell)' = ChunkOf(cell)
  BY <1>1 DEF ChunkOf
<1>3. \A f, cell : Pixel(f, cell)' = Pixel(f, cell)
  BY <1>1 DEF Pixel
<1>4. \A f, cell : OffsetRead(f, cell)' <=> OffsetRead(f, cell)
  BY <1>1, <1>2 DEF OffsetRead
<1>5. \A cell, t : Depicted(cell, t)' = Depicted(cell, t)
  BY <1>1 DEF Depicted
<1>6. \A i : Coordinate(1, i)' = Coordinate(1, i)
  BY DEF Coordinate
<1>7. NullSample' = NullSample
  BY <1>1 DEF NullSample
<1>8. ASSUME NEW cell, NEW v, NEW l
      PROVE  Shows(cell, v, l)' <=> Shows(cell, v, l)
  BY <1>1, <1>2, <1>3, <1>4, <1>5, <1>6, <1>7 DEF Shows
<1>9. \A e : Value(e)' = Value(e)
  BY DEF Value
<1> QED
  BY <1>8, <1>9

(* Whether other chunks were lost is all the same.                           *)
LEMMA ShowsElsewhere ==
  ASSUME NEW cell, NEW v, NEW l, NEW m, ChunkOf(cell) \in l <=> ChunkOf(cell) \in m
  PROVE  Shows(cell, v, l) <=> Shows(cell, v, m)
BY DEF Shows

(* Reading a chunk buffers its cells' values, and the rows keep theirs.      *)
LEMMA ReadShows ==
  ASSUME Opening, Bounding, Reading, Writing, Telling, Valuing, request' = request, UNCHANGED box,
         NEW got \in BOOLEAN, ReadChunk(got)
  PROVE  Valuing'
<1>1. /\ phase = "scan" /\ chunk_idx < num_chunks /\ Possible /\ (got => ~Corrupt)
      /\ ~got => source.kind # "zarr"
      /\ lost' = (IF got THEN lost ELSE lost \cup {Pos})
      /\ buffer' = Elements(Pos, got /\ Present) /\ chunk_idx' = chunk_idx + 1 /\ rows' = rows
      /\ dataset' = dataset
  BY DEF ReadChunk, box
<1>2. num_chunks \in Nat /\ chunk_idx \in 0 .. num_chunks
  BY DEF Reading
<1>3. chunk_idx' # 0 /\ chunk_idx' - 1 = chunk_idx /\ Pos = GetChunkPos(chunk_idx)
  BY <1>1, <1>2 DEF Pos
<1>4. /\ IsOrdered' <=> IsOrdered
      /\ \A k : Size(k)' = Size(k) /\ \A j : Cell(k, j)' = Cell(k, j)
  BY SameCells
<1>5. Wellformed /\ IsBoxed /\ Bounded /\ IsOpened(dataset)
  <2>1. Bounded
    BY <1>1 DEF Bounding, Unbound
  <2> QED
    BY <2>1, BoundFacts DEF Bounded
<1>6. /\ \A cell, v, l : Shows(cell, v, l)' <=> Shows(cell, v, l)
      /\ \A e : Value(e)' = Value(e)
  BY <1>1, SameValues
<1>7. ASSUME IsOrdered
      PROVE  RowsShow' /\ BufferShows'
  <2>1. num_chunks = Volume(DimLen)
    BY <1>5, <1>7, OrderedUpright, CountIsVolume DEF Bounded, Counted
  <2>2. /\ \A k \in 0 .. num_chunks - 1 : IsChunk(GetChunkPos(k))
        /\ \A k, l \in 0 .. num_chunks - 1 : GetChunkPos(k) = GetChunkPos(l) => k = l
    BY <1>5, <1>7, <2>1, OrderedUpright, ChunksOfBox
  <2>3. chunk_idx \in 0 .. num_chunks - 1 /\ IsChunk(Pos)
    <3>1. chunk_idx \in 0 .. num_chunks - 1
      BY <1>1, <1>2
    <3> QED
      BY <1>3, <2>2, <3>1
  <2>4. \A k \in 0 .. chunk_idx - 1 : k \in 0 .. num_chunks - 1 /\ GetChunkPos(k) # Pos
    <3>1. ASSUME NEW k \in 0 .. chunk_idx - 1
          PROVE  k \in 0 .. num_chunks - 1 /\ k # chunk_idx
      BY <1>1, <1>2
    <3> QED
      BY <1>3, <2>2, <2>3, <3>1
  <2>5. Pos \notin lost
    <3>1. ASSUME NEW i \in 1 .. chunk_idx
          PROVE  fetched[i] # Pos
      <4>1. i - 1 \in 0 .. chunk_idx - 1
        BY <1>2
      <4> QED
        BY <2>4, <4>1 DEF Reading
    <3>2. DOMAIN fetched = 1 .. chunk_idx
      BY DEF Reading, IsListed
    <3> QED
      BY <3>1, <3>2 DEF Reading, ToSet
  <2>6. Pos \in lost' <=> ~got
    BY <1>1, <2>5
  <2>7. \A c : c # Pos => (c \in lost <=> c \in lost')
    BY <1>1
  <2>8. ASSUME NEW i \in 1 .. Len(rows), NEW v \in rows[i].value
        PROVE  Shows(rows[i].cell, v, lost')
    <3>1. chunk_idx # 0
      <4>1. Len(<<>>) = 0
        OBVIOUS
      <4> QED
        BY <4>1 DEF Telling
    <3>2. PICK k, j : Told(k, j) /\ rows[i].cell = Cell(k, j) /\ IsPlace(k, j)
      <4>1. RowsTold /\ \A k, j : Told(k, j) => IsPlace(k, j)
        BY <1>7, <3>1, ChunkFacts DEF RowsExact
      <4> QED
        BY <4>1 DEF RowsTold
    <3>3. k \in 0 .. chunk_idx - 1
      BY <3>2 DEF Told
    <3>4. ChunkOf(Cell(k, j)) = GetChunkPos(k)
      <4>1. IsChunk(GetChunkPos(k)) /\ j \in 0 .. SizeOf(GetChunkPos(k)) - 1
        BY <2>2, <2>4, <3>2, <3>3 DEF IsPlace, Size
      <4> QED
        BY <1>5, <1>7, <4>1, CellsOfChunk DEF Cell
    <3>5. Shows(rows[i].cell, v, lost)
      BY <1>7, <3>1 DEF Valuing, RowsShow
    <3>6. ChunkOf(rows[i].cell) \in lost <=> ChunkOf(rows[i].cell) \in lost'
      BY <2>4, <2>7, <3>2, <3>3, <3>4
    <3> QED
      BY <3>5, <3>6, ShowsElsewhere
  <2>9. RowsShow'
    BY <1>1, <1>6, <2>8 DEF RowsShow
  <2>10. ASSUME NEW j \in 0 .. Size(chunk_idx) - 1
         PROVE  Shows(Cell(chunk_idx, j), Value(buffer'[j + 1]), lost')
    <3>1. j \in 0 .. SizeOf(Pos) - 1 /\ Cell(chunk_idx, j) = CellAt(Pos, j)
      BY <1>3 DEF Size, Cell
    <3>2. got => ~(ChunkPresent(source, request.asset, Pos) /\ ChunkCorrupt(source, request.asset, Pos))
      BY <1>1 DEF Corrupt, Present
    <3>3. Shows(CellAt(Pos, j),
                Value(Elements(Pos, got /\ ChunkPresent(source, request.asset, Pos))[j + 1]), lost')
      BY <1>1, <1>5, <1>7, <2>3, <2>6, <3>1, <3>2, ElementShows
    <3> QED
      BY <1>1, <3>1, <3>3 DEF Present
  <2>11. BufferShows'
    BY <1>3, <1>4, <1>6, <2>10 DEF BufferShows
  <2> QED
    BY <2>9, <2>11
<1>8. ASSUME ~IsOrdered
      PROVE  NothingShown'
  <2>1. Len(rows) = 0
    <3>1. Len(<<>>) = 0
      OBVIOUS
    <3> QED
      BY <1>8, <3>1 DEF Telling, Valuing, NothingShown
  <2>2. Len(buffer') = 0
    BY <1>1, <1>2, <1>5, <1>8, NothingBuffered
  <2> QED
    BY <1>1, <2>1, <2>2 DEF NothingShown
<1> QED
  BY <1>4, <1>7, <1>8 DEF Valuing

(* A batch's rows show the values of the buffered chunk's cells.             *)
LEMMA WriteShows ==
  ASSUME Opening, Bounding, Reading, Writing, Telling, Placing, Valuing,
         request' = request, UNCHANGED box, WriteBatch
  PROVE  Valuing'
<1>1. /\ phase = "write" /\ UNCHANGED <<chunk_idx, fetched, lost, buffer, subset_info>>
      /\ dataset' = dataset /\ chunk_idx # 0
  BY DEF WriteBatch, chunk, box, Telling
<1>2. /\ IsOrdered' <=> IsOrdered
      /\ \A k : Size(k)' = Size(k) /\ \A j : Cell(k, j)' = Cell(k, j)
  BY SameCells
<1>3. /\ \A cell, v, l : Shows(cell, v, l)' <=> Shows(cell, v, l)
      /\ \A e : Value(e)' = Value(e)
  BY <1>1, SameValues
<1>4. /\ Len(rows') \in Nat
      /\ \A i \in 1 .. Len(rows') :
           \/ i \in 1 .. Len(rows) /\ rows'[i] = rows[i]
           \/ \E j \in cursor .. Len(buffer) - 1 :
                /\ rows'[i].cell = [d \in AllDims |-> GlobalCoord(subset_info, d, j)]
                /\ \A v \in rows'[i].value : v = Value(buffer[j + 1])
  BY BatchValues DEF Placing
<1>5. cursor \in Nat /\ Len(buffer) \in Nat
  BY DEF Writing
<1>6. ASSUME IsOrdered
      PROVE  RowsShow' /\ BufferShows'
  <2>1. RowsShow /\ BufferShows /\ ChunkHeld
    BY <1>1, <1>6 DEF Valuing, Telling
  <2>2. \A j \in 0 .. Size(chunk_idx - 1) - 1 :
          Shows(Cell(chunk_idx - 1, j), Value(buffer[j + 1]), lost)
    BY <1>1, <2>1 DEF BufferShows
  <2>3. ASSUME NEW i \in 1 .. Len(rows'), NEW v \in rows'[i].value
        PROVE  Shows(rows'[i].cell, v, lost)
    <3>1. CASE i \in 1 .. Len(rows) /\ rows'[i] = rows[i]
      BY <2>1, <2>3, <3>1 DEF RowsShow
    <3>2. ASSUME NEW j \in cursor .. Len(buffer) - 1,
                 rows'[i].cell = [d \in AllDims |-> GlobalCoord(subset_info, d, j)],
                 \A w \in rows'[i].value : w = Value(buffer[j + 1])
          PROVE  Shows(rows'[i].cell, v, lost)
      <4>1. j \in 0 .. Len(buffer) - 1
        BY <1>5
      <4>2. j \in 0 .. Size(chunk_idx - 1) - 1
        BY <2>1, <4>1 DEF ChunkHeld
      <4>3. rows'[i].cell = Cell(chunk_idx - 1, j)
        BY <2>1, <3>2 DEF ChunkHeld, Cell, CellAt
      <4>4. v = Value(buffer[j + 1])
        BY <2>3, <3>2
      <4> QED
        BY <2>2, <4>2, <4>3, <4>4
    <3> QED
      BY <1>4, <3>1, <3>2
  <2>4. RowsShow'
    BY <1>1, <1>3, <2>3 DEF RowsShow
  <2>5. BufferShows'
    BY <1>1, <1>2, <1>3, <2>2 DEF BufferShows
  <2> QED
    BY <2>4, <2>5
<1>7. ASSUME ~IsOrdered
      PROVE  NothingShown'
  <2>1. Len(rows) = 0 /\ Len(buffer) = 0
    BY <1>1, <1>7 DEF Valuing, NothingShown
  <2>2. ~(1 \in 1 .. Len(rows'))
    <3>1. ~(1 \in 1 .. Len(rows)) /\ \A j \in cursor .. Len(buffer) - 1 : FALSE
      BY <1>5, <2>1
    <3> QED
      BY <1>4, <3>1
  <2>3. Len(rows') = 0
    BY <1>4, <2>2
  <2> QED
    BY <1>1, <2>1, <2>3 DEF NothingShown
<1> QED
  BY <1>2, <1>6, <1>7 DEF Valuing

(* Every step keeps the values true to the cells.                            *)
LEMMA ValuingStep ==
  ASSUME Opening, Bounding, Reading, Writing, Telling, Placing, Valuing, [Next]_vars
  PROVE  Valuing'
<1>1. request' = request
  BY KeepsBox
<1>2. CASE Open \/ Bind
  <2>1. phase \in {"bind", "open"} /\ chunk_idx' = chunk_idx
    BY <1>2 DEF Open, Bind
  <2>2. chunk_idx = 0
    BY <2>1 DEF Bounding, Bounded, Unbound
  <2> QED
    BY <2>1, <2>2 DEF Valuing
<1>3. CASE UNCHANGED box
  <2>1. ASSUME NEW got \in BOOLEAN, ReadChunk(got)
        PROVE  Valuing'
    BY <1>1, <1>3, <2>1, ReadShows
  <2>2. CASE WriteBatch
    BY <1>1, <1>3, <2>2, WriteShows
  <2>3. ASSUME UNCHANGED <<chunk_idx, buffer, lost, rows>>, phase' = "write" => phase = "write"
        PROVE  Valuing'
    <3>1. dataset' = dataset
      BY <1>3 DEF box
    <3>2. /\ IsOrdered' <=> IsOrdered
          /\ \A k : Size(k)' = Size(k) /\ \A j : Cell(k, j)' = Cell(k, j)
      BY <1>1, <1>3, SameCells
    <3>3. /\ \A cell, v, l : Shows(cell, v, l)' <=> Shows(cell, v, l)
          /\ \A e : Value(e)' = Value(e)
      BY <1>1, <3>1, SameValues
    <3>4. RowsShow' <=> RowsShow
      BY <2>3, <3>3 DEF RowsShow
    <3>5. BufferShows => BufferShows'
      BY <2>3, <3>2, <3>3 DEF BufferShows
    <3>6. NothingShown => NothingShown'
      BY <2>3 DEF NothingShown
    <3> QED
      BY <2>3, <3>2, <3>4, <3>5, <3>6 DEF Valuing
  <2>4. \/ \E got \in BOOLEAN : ReadChunk(got)
        \/ WriteBatch
        \/ Open \/ Bind
        \/ UNCHANGED <<chunk_idx, buffer, lost, rows>> /\ (phase' = "write" => phase = "write")
    BY DEF Next, vars, chunk, OpenFails, ReadRefused, ReadFails, WriteFails, EndOfStream, Answered
  <2> QED
    BY <1>2, <2>1, <2>2, <2>3, <2>4
<1> QED
  BY <1>2, <1>3, KeepsBox

(* Every value of a row is that of its cell: for an image, of its pixel in    *)
(* the file of the asset and the time slice that the row shows, through its   *)
(* tiles and the order of its bands, and NULL for exactly the cells of a tile *)
(* that was lost or is not reached and those with the one NullSample of the   *)
(* array, which is 0 for a file without nodata and the first item's for every *)
(* slice of a stack; for any rank, any shapes, any window and any vector size. *)
THEOREM ValuesAreTrue == Spec => []ValuesTrue
<1>1. Init => Valuing
  BY DEF Init, Valuing
<1>2. QueryInv /\ Telling /\ Placing /\ Valuing /\ [Next]_vars => Valuing'
  BY ValuingStep DEF QueryInv
<1>3. QueryInv /\ Telling /\ Placing /\ Valuing => ValuesTrue
  <2> SUFFICES ASSUME QueryInv, Telling, Placing, Valuing, NEW i \in DOMAIN rows,
                      NEW v \in rows[i].value
               PROVE  Shows(rows[i].cell, v, lost)
    BY DEF ValuesTrue, Shows
  <2>1. i \in 1 .. Len(rows)
    BY DEF Placing, IsListed
  <2>2. Len(rows) # 0
    BY <2>1
  <2>3. Len(<<>>) = 0
    OBVIOUS
  <2>4. chunk_idx # 0
    BY <2>2, <2>3 DEF Telling
  <2>5. RowsShow
    BY <2>2, <2>4 DEF Valuing, NothingShown
  <2> QED
    BY <2>1, <2>5 DEF RowsShow
<1> QED
  BY <1>1, <1>2, <1>3, PlacingInvariant, PTL DEF Spec

=============================================================================
