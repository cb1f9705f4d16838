------------------------ MODULE ExportPipelineProofs ------------------------
(***************************************************************************)
(* Theorems about the export (ExportPipeline), for every set of exports,   *)
(* every chunk volume, memory limit and channel capacity: the buffers      *)
(* alive stay within the limit, and success is reported only when each of  *)
(* them reached the destination.                                           *)
(***************************************************************************)
EXTENDS ExportPipeline, FiniteInduction, SequenceTheorems

-----------------------------------------------------------------------------
(* Chunk shapes and their volumes.                                         *)

(* The volume of a chunk is a number, and positive if every size is.        *)
LEMMA VolumeType ==
  ASSUME NEW n \in Nat, NEW cs \in [1 .. n -> Nat]
  PROVE  /\ Volume(cs) \in Nat
         /\ (\A d \in 1 .. n : cs[d] # 0) => Volume(cs) # 0
<1> DEFINE Volumes(f) == f = [d \in 0 .. n |-> IF d = 0 THEN 1 ELSE f[d - 1] * cs[d]]
           volume == CHOOSE f : Volumes(f)
<1>1. Len(cs) = n
  BY LenProperties, SeqDef
<1>2. Volume(cs) = volume[n]
  BY <1>1 DEF Volume
<1>3. \E f : Volumes(f)
  <2> DEFINE step == [d \in 1 .. n |-> [v \in Nat |-> v * cs[d]]]
  <2>1. step \in [1 .. n -> [Nat -> Nat]]
    OBVIOUS
  <2>2. \A d \in 1 .. n, v \in Nat : step[d][v] = v * cs[d]
    OBVIOUS
  <2> HIDE DEF step
  <2> DEFINE one == 1
  <2>3. PICK f \in [0 .. n -> Nat] :
          IsRecursive(f, n, one, step)
    <3>1. one \in Nat
      OBVIOUS
    <3> HIDE DEF one
    <3> QED
      BY <2>1, <3>1, FiniteRecursion
  <2>4. \A d \in 1 .. n : f[d] = f[d - 1] * cs[d]
    <3>1. \A d \in 1 .. n : d - 1 \in 0 .. n
      OBVIOUS
    <3> QED
      BY <2>2, <2>3, <3>1 DEF IsRecursive
  <2>5. \A d \in 0 .. n : f[d] = IF d = 0 THEN 1 ELSE f[d - 1] * cs[d]
    BY <2>3, <2>4 DEF IsRecursive
  <2> QED
    BY <2>5
<1>4. Volumes(volume)
  BY <1>3
<1> HIDE DEF volume
<1>5. /\ DOMAIN volume = 0 .. n /\ volume = [d \in 0 .. n |-> volume[d]]
      /\ volume[0] = 1 /\ \A d \in 1 .. n : volume[d] = volume[d - 1] * cs[d]
  BY <1>4
<1> HIDE DEF Volumes
<1>6. volume \in [0 .. n -> Nat]
  <2>1. volume[0] \in Nat
    BY <1>5
  <2>2. ASSUME NEW d \in 1 .. n, volume[d - 1] \in Nat
        PROVE  volume[d] \in Nat
    <3>1. cs[d] \in Nat /\ volume[d] = volume[d - 1] * cs[d]
      BY <1>5
    <3>2. \A v, c \in Nat : v * c \in Nat
      OBVIOUS
    <3> QED
      BY <2>2, <3>1, <3>2
  <2> QED
    BY <1>5, <2>1, <2>2, FunctionInduction
<1>7. ASSUME \A d \in 1 .. n : cs[d] # 0
      PROVE  volume \in [0 .. n -> Nat \ {0}]
  <2>1. volume[0] \in Nat \ {0}
    BY <1>5
  <2>2. ASSUME NEW d \in 1 .. n, volume[d - 1] \in Nat \ {0}
        PROVE  volume[d] \in Nat \ {0}
    <3>1. cs[d] \in Nat \ {0} /\ volume[d] = volume[d - 1] * cs[d]
      BY <1>5, <1>7
    <3>2. \A v, c \in Nat \ {0} : v * c \in Nat \ {0}
      OBVIOUS
    <3> QED
      BY <2>2, <3>1, <3>2
  <2> QED
    BY <1>5, <2>1, <2>2, FunctionInduction
<1> QED
  BY <1>2, <1>6, <1>7

(* Automatic chunks of a shape without a zero have no zero.                 *)
LEMMA AutoChunksType ==
  ASSUME NEW n \in Nat, NEW sh \in [1 .. n -> Nat \ {0}]
  PROVE  AutoChunks(sh) \in [1 .. n -> Nat \ {0}]
<1> DEFINE P == Nat \ {0}
           Volumes(f) == f = [d \in 0 .. n |-> IF d = 0 THEN 1
                                               ELSE f[d - 1] * AutoChunk(f[d - 1], sh[d])]
           volume == CHOOSE f : Volumes(f)
<1>1. Len(sh) = n
  BY LenProperties, SeqDef
<1>2. AutoChunks(sh) = [d \in 1 .. n |-> AutoChunk(volume[d - 1], sh[d])]
  BY <1>1 DEF AutoChunks
<1>3. \A v, dim \in P : AutoChunk(v, dim) \in P /\ v * AutoChunk(v, dim) \in P
  <2>1. ASSUME NEW v \in P, NEW dim \in P
        PROVE  AutoChunk(v, dim) \in P
    BY ExportAssumption DEF AutoChunk, Larger
  <2>2. \A v, c \in P : v * c \in P
    OBVIOUS
  <2> QED
    BY <2>1, <2>2
<1>4. \E f : Volumes(f)
  <2> DEFINE step == [d \in 1 .. n |-> [v \in P |-> v * AutoChunk(v, sh[d])]]
  <2>1. step \in [1 .. n -> [P -> P]]
    BY <1>3
  <2>2. \A d \in 1 .. n, v \in P : step[d][v] = v * AutoChunk(v, sh[d])
    OBVIOUS
  <2> HIDE DEF step
  <2> DEFINE one == 1
  <2>3. PICK f \in [0 .. n -> P] :
          IsRecursive(f, n, one, step)
    <3>1. one \in P
      OBVIOUS
    <3> HIDE DEF one, P
    <3> QED
      BY <2>1, <3>1, FiniteRecursion
  <2>4. \A d \in 1 .. n : f[d] = f[d - 1] * AutoChunk(f[d - 1], sh[d])
    <3>1. \A d \in 1 .. n : d - 1 \in 0 .. n
      OBVIOUS
    <3> HIDE DEF P
    <3> QED
      BY <2>2, <2>3, <3>1 DEF IsRecursive
  <2>5. \A d \in 0 .. n :
          f[d] = IF d = 0 THEN 1 ELSE f[d - 1] * AutoChunk(f[d - 1], sh[d])
    BY <2>3, <2>4 DEF IsRecursive
  <2> QED
    BY <2>5
<1>5. Volumes(volume)
  BY <1>4
<1> HIDE DEF volume
<1>6. /\ DOMAIN volume = 0 .. n /\ volume = [d \in 0 .. n |-> volume[d]]
      /\ volume[0] = 1
      /\ \A d \in 1 .. n : volume[d] = volume[d - 1] * AutoChunk(volume[d - 1], sh[d])
  BY <1>5
<1> HIDE DEF Volumes
<1>7. volume \in [0 .. n -> P]
  <2>1. volume[0] \in P /\ \A d \in 1 .. n : volume[d - 1] \in P => volume[d] \in P
    <3>1. 1 \in P /\ \A d \in 1 .. n : sh[d] \in P
      OBVIOUS
    <3> HIDE DEF P
    <3> QED
      BY <1>3, <1>6, <3>1
  <2> HIDE DEF P
  <2> QED
    BY <1>6, <2>1, FunctionInduction
<1>8. \A d \in 1 .. n : d - 1 \in 0 .. n /\ sh[d] \in P
  OBVIOUS
<1> HIDE DEF P
<1>9. \A d \in 1 .. n : AutoChunk(volume[d - 1], sh[d]) \in P
  BY <1>3, <1>7, <1>8
<1> QED
  BY <1>2, <1>9 DEF P

-----------------------------------------------------------------------------
(* Dimensions of the job, and what its rows and buffers are.               *)

Rank == Len(job.chunks)
Dims == 1 .. Rank
Grids == [Dims -> Int]
Buffers == [0 .. Volume(chunk_shape) - 1 -> job.rows \cup {Fill}]
Sent == [grid : Grids, data : Buffers]

(* What the assumption says of the job that runs.                          *)
LEMMA JobType ==
  ASSUME job \in Jobs
  PROVE  /\ Rank \in Nat /\ IsFiniteSet(job.rows) /\ job.rows # {}
         /\ job.rows \subseteq Grids /\ Written \subseteq job.rows
         /\ job.chunks \in [Dims -> SUBSET Nat]
         /\ \A d \in Dims : \A c, e \in job.chunks[d] : c = e
<1>1. /\ job.chunks \in Seq(SUBSET Nat) /\ \A r \in job.rows : r \in Seq(Int) /\ Len(r) = Rank
      /\ IsFiniteSet(job.rows) /\ job.rows # {}
      /\ \A d \in DOMAIN job.chunks : \A c, e \in job.chunks[d] : c = e
  BY ExportAssumption DEF Rank
<1>2. Rank \in Nat /\ job.chunks \in [Dims -> SUBSET Nat]
  BY <1>1, LenProperties DEF Rank, Dims
<1>3. job.rows \subseteq Grids
  BY <1>1, LenProperties DEF Grids, Dims
<1>4. DOMAIN job.chunks = Dims
  BY <1>2
<1> QED
  BY <1>1, <1>2, <1>3, <1>4 DEF Written

(* The inferred chunk shape has a size per dimension.                      *)
LEMMA ChunkShapeType ==
  ASSUME job \in Jobs
  PROVE  ChunkShape(InferShape(job.rows), job.chunks) \in [Dims -> Nat]
<1> DEFINE sh == InferShape(job.rows)
<1>1. /\ Rank \in Nat /\ IsFiniteSet(job.rows) /\ job.rows # {} /\ job.rows \subseteq Grids
      /\ job.chunks \in [Dims -> SUBSET Nat]
  BY JobType
<1>2. sh \in [Dims -> Nat \ {0}]
  <2>1. Len(CHOOSE r \in job.rows : TRUE) = Rank
    <3>1. (CHOOSE r \in job.rows : TRUE) \in job.rows
      BY <1>1
    <3> QED
      BY <3>1, ExportAssumption DEF Rank
  <2>2. ASSUME NEW d \in Dims
        PROVE  Cardinality({r[d] : r \in job.rows}) \in Nat \ {0}
    <3>1. IsFiniteSet({r[d] : r \in job.rows})
      <4> DEFINE at == [r \in job.rows |-> r[d]]
      <4>1. at \in Surjection(job.rows, {r[d] : r \in job.rows})
        BY DEF Surjection
      <4> HIDE DEF at
      <4> QED
        BY <1>1, <4>1, FS_Surjection
    <3>2. {r[d] : r \in job.rows} # {}
      BY <1>1
    <3> QED
      BY <3>1, <3>2, FS_CardinalityType, FS_EmptySet
  <2> QED
    BY <2>1, <2>2 DEF InferShape, Dims
<1> HIDE DEF sh
<1>3. AutoChunks(sh) \in [Dims -> Nat \ {0}]
  BY <1>1, <1>2, AutoChunksType DEF Dims
<1>4. ASSUME NEW d \in Dims
      PROVE  (IF job.chunks[d] = {} THEN AutoChunks(sh)[d]
              ELSE CHOOSE c \in job.chunks[d] : TRUE) \in Nat
  BY <1>1, <1>3
<1>5. ChunkShape(sh, job.chunks) \in [Dims -> Nat]
  BY <1>2, <1>4 DEF ChunkShape
<1> QED
  BY <1>5 DEF sh

-----------------------------------------------------------------------------
(* The order of rows and of grid positions.                                *)

Ordered(K) == {p \in K \X K : Precedes(p[1], p[2])}

(* Tuples of one length precede one another by their first difference.      *)
LEMMA PrecedesOrders ==
  ASSUME NEW n \in Nat, NEW K \in SUBSET [1 .. n -> Int]
  PROVE  /\ OrdersStrictly(Ordered(K), K)
         /\ \A x, y \in K : <<x, y>> \in Ordered(K) <=> Precedes(x, y)
         /\ \A y \in K : Before(Ordered(K), K, y) = {x \in K : Precedes(x, y)}
<1>1. \A x, y \in K : <<x, y>> \in Ordered(K) <=> Precedes(x, y)
  BY DEF Ordered
<1>2. \A x, y \in K :
        Precedes(x, y) <=> \E d \in 1 .. n : x[d] < y[d] /\ \A e \in 1 .. d - 1 : x[e] = y[e]
  BY DEF Precedes
<1>3. \A x \in K : ~Precedes(x, x)
  BY <1>2
<1>4. ASSUME NEW x \in K, NEW y \in K, NEW z \in K, Precedes(x, y), Precedes(y, z)
      PROVE  Precedes(x, z)
  <2>1. PICK d \in 1 .. n : x[d] < y[d] /\ \A e \in 1 .. d - 1 : x[e] = y[e]
    BY <1>2, <1>4
  <2>2. PICK b \in 1 .. n : y[b] < z[b] /\ \A e \in 1 .. b - 1 : y[e] = z[e]
    BY <1>2, <1>4
  <2>3. CASE d <= b
    <3>1. x[d] < z[d]
      <4>1. d = b \/ d \in 1 .. b - 1
        BY <2>3
      <4>2. x[d] \in Int /\ y[d] \in Int /\ z[d] \in Int
        OBVIOUS
      <4> QED
        BY <2>1, <2>2, <4>1, <4>2
    <3>2. \A e \in 1 .. d - 1 : x[e] = z[e]
      BY <2>1, <2>2, <2>3
    <3> QED
      BY <1>2, <3>1, <3>2
  <2>4. CASE b < d
    <3>1. x[b] < z[b]
      BY <2>1, <2>2, <2>4
    <3>2. \A e \in 1 .. b - 1 : x[e] = z[e]
      BY <2>1, <2>2, <2>4
    <3> QED
      BY <1>2, <3>1, <3>2
  <2> QED
    BY <2>3, <2>4
<1>5. ASSUME NEW x \in K, NEW y \in K, x # y
      PROVE  Precedes(x, y) \/ Precedes(y, x)
  <2> DEFINE T == {d \in 1 .. n : x[d] # y[d]}
  <2>1. T \in SUBSET Nat /\ T # {}
    <3>1. x = [d \in 1 .. n |-> x[d]] /\ y = [d \in 1 .. n |-> y[d]]
      OBVIOUS
    <3>2. \E d \in 1 .. n : x[d] # y[d]
      BY <1>5, <3>1
    <3> QED
      BY <3>2
  <2>2. PICK d \in T : \A e \in T : d <= e
    BY <2>1, LeastNumber
  <2>3. \A e \in 1 .. d - 1 : x[e] = y[e]
    BY <2>2
  <2>4. x[d] < y[d] \/ y[d] < x[d]
    OBVIOUS
  <2> QED
    BY <1>2, <2>3, <2>4
<1>6. OrdersStrictly(Ordered(K), K)
  BY <1>1, <1>3, <1>4, <1>5 DEF OrdersStrictly
<1> QED
  BY <1>1, <1>6 DEF Before

Place(K, x) == Cardinality({q \in K : Precedes(q, x)})

(* The place of a tuple counts those before it, and each place has one.     *)
LEMMA PlacesOfTuples ==
  ASSUME NEW n \in Nat, NEW K \in SUBSET [1 .. n -> Int], IsFiniteSet(K)
  PROVE  /\ Cardinality(K) \in Nat
         /\ \A x \in K : Place(K, x) \in 0 .. Cardinality(K) - 1
         /\ \A x, y \in K : Precedes(x, y) => Place(K, x) < Place(K, y)
         /\ \A i \in 1 .. Cardinality(K) : \E x \in K : Place(K, x) = i - 1
         /\ \A x, y \in K : x = y \/ Precedes(x, y) \/ Precedes(y, x)
<1> DEFINE R == Ordered(K)
<1>1. /\ OrdersStrictly(R, K)
      /\ \A x, y \in K : <<x, y>> \in R <=> Precedes(x, y)
      /\ \A y \in K : Before(R, K, y) = {x \in K : Precedes(x, y)}
  BY PrecedesOrders
<1> HIDE DEF R
<1>2. \A x \in K : Cardinality(Before(R, K, x)) = Place(K, x)
  BY <1>1 DEF Place
<1>3. /\ \A x \in K : Cardinality(Before(R, K, x)) \in 0 .. Cardinality(K) - 1
      /\ \A x, y \in K :
           <<x, y>> \in R => Cardinality(Before(R, K, x)) < Cardinality(Before(R, K, y))
      /\ \A i \in 1 .. Cardinality(K) :
           \E x \in K : Cardinality(Before(R, K, x)) = i - 1
  BY <1>1, PlacesOfOrdered
<1>4. \A x, y \in K : x = y \/ Precedes(x, y) \/ Precedes(y, x)
  BY <1>1 DEF OrdersStrictly
<1> QED
  BY <1>1, <1>2, <1>3, <1>4, FS_CardinalityType

(* The query yields every row, and nothing else.                           *)
LEMMA StreamOrderType ==
  ASSUME NEW n \in Nat, NEW R \in SUBSET [1 .. n -> Int], IsFiniteSet(R)
  PROVE  /\ StreamOrder(R) \in Seq(R)
         /\ \A r \in R : \E i \in DOMAIN StreamOrder(R) : StreamOrder(R)[i] = r
<1> DEFINE N == Cardinality(R)
           at(i) == CHOOSE r \in R : Place(R, r) = i - 1
<1>1. N \in Nat
  BY FS_CardinalityType
<1>2. /\ \A r \in R : Place(R, r) \in 0 .. N - 1
      /\ \A x, y \in R : Precedes(x, y) => Place(R, x) < Place(R, y)
      /\ \A i \in 1 .. N : \E r \in R : Place(R, r) = i - 1
      /\ \A x, y \in R : x = y \/ Precedes(x, y) \/ Precedes(y, x)
  BY PlacesOfTuples
<1>3. StreamOrder(R) = [i \in 1 .. N |-> at(i)]
  BY DEF StreamOrder, Place
<1> HIDE DEF N
<1>4. \A i \in 1 .. N : at(i) \in R /\ Place(R, at(i)) = i - 1
  BY <1>2
<1> HIDE DEF at
<1>5. StreamOrder(R) \in Seq(R)
  BY <1>1, <1>3, <1>4, SeqDef
<1>6. ASSUME NEW r \in R
      PROVE  \E i \in DOMAIN StreamOrder(R) : StreamOrder(R)[i] = r
  <2> DEFINE i == Place(R, r) + 1
  <2>1. i \in 1 .. N /\ i - 1 = Place(R, r)
    BY <1>1, <1>2
  <2> HIDE DEF i
  <2>2. Place(R, at(i)) = Place(R, r) /\ at(i) \in R
    BY <1>4, <2>1
  <2>3. at(i) = r
    BY <1>1, <1>2, <2>2, SMTT(30)
  <2> QED
    BY <1>3, <2>1, <2>3
<1> QED
  BY <1>5, <1>6

(* pop_first finds a buffer while there is one.                            *)
LEMMA FirstKeyType ==
  ASSUME NEW n \in Nat, DOMAIN active_chunks \in SUBSET [1 .. n -> Int],
         IsFiniteSet(DOMAIN active_chunks), DOMAIN active_chunks # {}
  PROVE  /\ FirstKey \in DOMAIN active_chunks
         /\ \A h \in DOMAIN active_chunks \ {FirstKey} : Precedes(FirstKey, h)
<1> DEFINE K == DOMAIN active_chunks
<1>1. Cardinality(K) \in Nat \ {0}
  BY FS_CardinalityType, FS_EmptySet
<1>2. /\ \A r \in K : Place(K, r) \in 0 .. Cardinality(K) - 1
      /\ \A x, y \in K : Precedes(x, y) => Place(K, x) < Place(K, y)
      /\ \A i \in 1 .. Cardinality(K) : \E r \in K : Place(K, r) = i - 1
      /\ \A x, y \in K : x = y \/ Precedes(x, y) \/ Precedes(y, x)
  BY PlacesOfTuples
<1>3. PICK g \in K : Place(K, g) = 0
  <2>1. 1 \in 1 .. Cardinality(K) /\ 1 - 1 = 0
    BY <1>1
  <2> QED
    BY <1>2, <2>1
<1>4. \A h \in K \ {g} : Precedes(g, h)
  BY <1>1, <1>2, <1>3
<1> QED
  BY <1>4 DEF FirstKey

-----------------------------------------------------------------------------
(* The inductive invariant.                                                *)

Typed ==
  /\ job \in Jobs
  /\ phase \in {"infer", "stream", "evict", "flush", "join",
                "success", "refused", "error", "exit"}
  /\ uploader \in {"recv", "store", "done", "dead"}
  /\ stream_ok \in BOOLEAN /\ tx_open \in BOOLEAN
  /\ rows \in Seq(job.rows)
  /\ channel \in Seq(Sent) /\ Len(channel) <= ChannelSize
  /\ IF uploader = "store" THEN uploading \in Sent ELSE uploading = NoBuffer

Chunked ==
  /\ phase # "infer" => chunk_shape \in [Dims -> Nat]
  /\ phase \notin {"infer", "refused", "error", "exit"} => chunk_shape \in [Dims -> Nat \ {0}]

Filling ==
  /\ IsFiniteSet(DOMAIN active_chunks) /\ DOMAIN active_chunks \subseteq Grids
  /\ active_chunks \in [DOMAIN active_chunks -> Buffers]

(* The row at hand may bring one buffer more than the limit holds.         *)
Bounded ==
  /\ phase # "infer" =>
       Cardinality(DOMAIN active_chunks) * ChunkBytes < MaxMemory + ChunkBytes
  /\ phase = "stream" => Cardinality(DOMAIN active_chunks) * ChunkBytes < MaxMemory

Stages ==
  /\ phase \in {"infer", "refused"} =>
       active_chunks = <<>> /\ channel = <<>> /\ uploader = "recv"
  /\ phase \in {"infer", "stream", "evict"} => stream_ok
  /\ phase = "evict" => DOMAIN active_chunks # {}
  /\ ~tx_open => phase \in {"join", "success", "error", "exit"} /\ active_chunks = <<>>
  /\ phase \in {"join", "success"} => active_chunks = <<>>
  /\ uploader = "done" => ~tx_open /\ channel = <<>>
  /\ phase = "success" => uploader = "done" /\ stream_ok
  /\ phase \in {"flush", "join", "success"} /\ stream_ok => rows = <<>>

(* A buffer of the chunk is being filled, queued, or in the uploader's     *)
(* hands, or one was stored.                                               *)
Somewhere(g) ==
  \/ g \in DOMAIN active_chunks
  \/ \E i \in DOMAIN channel : channel[i].grid = g
  \/ uploader = "store" /\ uploading.grid = g
  \/ g \in DOMAIN store /\ store[g] \in Buffers

(* Unless something failed, each value is to come or its chunk somewhere.   *)
Covered ==
  (phase \notin {"infer", "refused", "error"} /\ uploader # "dead" /\ stream_ok) =>
    \A r \in Written :
      (\E i \in DOMAIN rows : rows[i] = r) \/ Somewhere(GridCoord(r, chunk_shape))

Inv == Typed /\ Chunked /\ Filling /\ Bounded /\ Stages /\ Covered

-----------------------------------------------------------------------------
(* Lemmas about the parts of the invariant.                                *)

(* Buffers are what they were while the job and its chunk shape are.        *)
LEMMA SameBuffers ==
  ASSUME UNCHANGED <<job, chunk_shape>>
  PROVE  /\ Dims' = Dims /\ Grids' = Grids /\ Buffers' = Buffers /\ Sent' = Sent
         /\ ChunkBytes' = ChunkBytes /\ Written' = Written
<1>1. job' = job /\ chunk_shape' = chunk_shape
  OBVIOUS
<1>2. Dims' = Dims
  BY <1>1 DEF Dims, Rank
<1>3. Grids' = Grids
  BY <1>2 DEF Grids
<1>4. Buffers' = Buffers /\ ChunkBytes' = ChunkBytes /\ Written' = Written
  BY <1>1 DEF Buffers, ChunkBytes, Written
<1> QED
  BY <1>2, <1>3, <1>4 DEF Sent

(* The bytes of a chunk are a number.                                      *)
LEMMA ChunkBytesType ==
  ASSUME job \in Jobs, chunk_shape \in [Dims -> Nat]
  PROVE  /\ ChunkBytes \in Nat /\ Volume(chunk_shape) \in Nat
         /\ chunk_shape \in [Dims -> Nat \ {0}] => Volume(chunk_shape) # 0
<1>1. Rank \in Nat
  BY JobType
<1>2. /\ Volume(chunk_shape) \in Nat
      /\ (\A d \in 1 .. Rank : chunk_shape[d] # 0) => Volume(chunk_shape) # 0
  BY <1>1, VolumeType DEF Dims
<1>3. ChunkBytes \in Nat
  <2>1. \A v, e \in Nat : v * e \in Nat
    OBVIOUS
  <2> QED
    BY <1>2, <2>1, ExportAssumption DEF ChunkBytes
<1> QED
  BY <1>2, <1>3 DEF Dims

(* One buffer more or less takes the bytes of one.                         *)
LEMMA OneMore ==
  ASSUME NEW a \in Nat, NEW b \in Nat
  PROVE  (a + 1) * b = a * b + b /\ a * b \in Nat
  OBVIOUS

(* The map without buffers is the empty one.                               *)
LEMMA EmptyMap ==
  ASSUME Filling
  PROVE  active_chunks = <<>> <=> DOMAIN active_chunks = {}
<1>1. DOMAIN <<>> = {}
  OBVIOUS
<1>2. ASSUME DOMAIN active_chunks = {}
      PROVE  active_chunks = <<>>
  BY <1>2 DEF Filling
<1> QED
  BY <1>1, <1>2

(* What keeps every chunk somewhere, and rows and their fate, keeps Covered. *)
LEMMA StillCovered ==
  ASSUME Covered, UNCHANGED <<job, chunk_shape, rows>>,
         phase \in {"infer", "refused", "error"} =>
           phase' \in {"infer", "refused", "error"},
         uploader = "dead" => uploader' = "dead", stream_ok' => stream_ok,
         uploader' # "dead" => \A g : Somewhere(g) => Somewhere(g)'
  PROVE  Covered'
<1>1. Written' = Written /\ \A r : GridCoord(r, chunk_shape)' = GridCoord(r, chunk_shape)
  BY SameBuffers DEF GridCoord
<1> QED
  BY <1>1 DEF Covered

(* A buffer is removed from the map: one less takes memory.                *)
LEMMA PopFirst ==
  ASSUME Inv, DOMAIN active_chunks # {}, active_chunks' = WithoutFirst,
         UNCHANGED <<job, chunk_shape>>, phase # "infer"
  PROVE  /\ Filling' /\ FirstKey \in DOMAIN active_chunks
         /\ active_chunks[FirstKey] \in Buffers
         /\ DOMAIN active_chunks' = DOMAIN active_chunks \ {FirstKey}
         /\ Cardinality(DOMAIN active_chunks') * ChunkBytes < MaxMemory
<1>1. /\ IsFiniteSet(DOMAIN active_chunks) /\ DOMAIN active_chunks \subseteq Grids
      /\ active_chunks \in [DOMAIN active_chunks -> Buffers]
      /\ Rank \in Nat
  BY JobType DEF Inv, Typed, Filling
<1>2. FirstKey \in DOMAIN active_chunks
  BY <1>1, FirstKeyType DEF Grids, Dims
<1>3. /\ DOMAIN active_chunks' = DOMAIN active_chunks \ {FirstKey}
      /\ active_chunks' \in [DOMAIN active_chunks' -> Buffers]
  BY <1>1 DEF WithoutFirst
<1>4. /\ IsFiniteSet(DOMAIN active_chunks')
      /\ Cardinality(DOMAIN active_chunks') = Cardinality(DOMAIN active_chunks) - 1
      /\ Cardinality(DOMAIN active_chunks') \in Nat
  BY <1>1, <1>2, <1>3, FS_RemoveElement, FS_CardinalityType
<1>5. Cardinality(DOMAIN active_chunks') * ChunkBytes < MaxMemory
  <2>1. /\ Cardinality(DOMAIN active_chunks') \in Nat /\ ChunkBytes \in Nat
        /\ Cardinality(DOMAIN active_chunks) = Cardinality(DOMAIN active_chunks') + 1
    BY <1>1, <1>4, ChunkBytesType, FS_CardinalityType DEF Inv, Typed, Chunked
  <2>2. (Cardinality(DOMAIN active_chunks') + 1) * ChunkBytes < MaxMemory + ChunkBytes
    BY <2>1 DEF Inv, Bounded
  <2>3. \A a, b \in Nat : (a + 1) * b < MaxMemory + b => a * b < MaxMemory
    BY OneMore, ExportAssumption
  <2> QED
    BY <2>1, <2>2, <2>3
<1>6. Filling'
  BY <1>1, <1>3, <1>4, SameBuffers DEF Filling
<1> QED
  BY <1>1, <1>2, <1>3, <1>5, <1>6

(* A row that is processed gets a buffer of its chunk, unless it is NULL.   *)
LEMMA DispatchType ==
  ASSUME Inv, NEW r \in job.rows, phase = "stream", active_chunks' = Dispatch(r),
         UNCHANGED <<job, chunk_shape>>
  PROVE  /\ Filling'
         /\ DOMAIN active_chunks \subseteq DOMAIN active_chunks'
         /\ Cardinality(DOMAIN active_chunks') <= Cardinality(DOMAIN active_chunks) + 1
         /\ r \in Written => GridCoord(r, chunk_shape) \in DOMAIN active_chunks'
<1> DEFINE g == GridCoord(r, chunk_shape)
           old == IF g \in DOMAIN active_chunks THEN active_chunks[g] ELSE EmptyBuffer
           new == [old EXCEPT ![FlatIdx(r, chunk_shape)] = r]
<1>1. /\ IsFiniteSet(DOMAIN active_chunks) /\ DOMAIN active_chunks \subseteq Grids
      /\ active_chunks \in [DOMAIN active_chunks -> Buffers]
      /\ chunk_shape \in [Dims -> Nat \ {0}] /\ job.rows \subseteq Grids
      /\ Cardinality(DOMAIN active_chunks) \in Nat
  BY JobType, FS_CardinalityType DEF Inv, Typed, Filling, Chunked
<1>2. g \in Grids
  <2>1. r \in [Dims -> Int]
    BY <1>1 DEF Grids
  <2>2. \A d \in Dims : r[d] \div chunk_shape[d] \in Int
    BY <1>1, <2>1
  <2> QED
    BY <2>1, <2>2 DEF GridCoord, Grids
<1> HIDE DEF g
<1>3. new \in Buffers
  <2>1. EmptyBuffer \in Buffers
    BY DEF EmptyBuffer, Buffers
  <2>2. old \in Buffers
    BY <1>1, <2>1
  <2> HIDE DEF old
  <2> QED
    BY <2>2 DEF Buffers
<1>4. active_chunks' = IF r \in job.nulls THEN active_chunks
                       ELSE [h \in DOMAIN active_chunks \cup {g} |->
                               IF h = g THEN new ELSE active_chunks[h]]
  BY DEF Dispatch, g
<1> HIDE DEF new, old
<1>5. CASE r \in job.nulls
  <2>1. Filling'
    BY <1>1, <1>4, <1>5, SameBuffers DEF Filling
  <2> QED
    BY <1>1, <1>4, <1>5, <2>1 DEF Written
<1>6. CASE r \notin job.nulls
  <2>1. /\ DOMAIN active_chunks' = DOMAIN active_chunks \cup {g}
        /\ active_chunks' \in [DOMAIN active_chunks' -> Buffers]
    BY <1>1, <1>3, <1>4, <1>6
  <2>2. /\ IsFiniteSet(DOMAIN active_chunks')
        /\ Cardinality(DOMAIN active_chunks') <= Cardinality(DOMAIN active_chunks) + 1
    <3> DEFINE D == DOMAIN active_chunks
    <3>1. IsFiniteSet(D) /\ Cardinality(D) \in Nat
      BY <1>1
    <3> HIDE DEF D
    <3>2. IsFiniteSet(D \cup {g})
      BY <3>1, FS_AddElement
    <3>3. Cardinality(D \cup {g}) = IF g \in D THEN Cardinality(D) ELSE Cardinality(D) + 1
      BY <3>1, FS_AddElement
    <3>4. Cardinality(D \cup {g}) <= Cardinality(D) + 1
      BY <3>1, <3>3
    <3> QED
      BY <2>1, <3>2, <3>4 DEF D
  <2>3. Filling'
    BY <1>1, <1>2, <2>1, <2>2, SameBuffers DEF Filling
  <2> QED
    BY <2>1, <2>2, <2>3 DEF g
<1> QED
  BY <1>5, <1>6

-----------------------------------------------------------------------------
(* The invariant holds at the start and is kept by every action.           *)

(* An export starts with nothing read, queued or stored.                    *)
LEMMA InitEstablishesInv ==
  ASSUME Init
  PROVE  Inv
<1>1. DOMAIN active_chunks = {} /\ active_chunks = <<>>
  BY DEF Init
<1>2. Filling
  <2>1. active_chunks \in [DOMAIN active_chunks -> Buffers]
    BY <1>1
  <2> QED
    BY <1>1, <2>1, FS_EmptySet DEF Filling
<1>3. Typed
  BY ExportAssumption DEF Init, Typed
<1> QED
  BY <1>1, <1>2, <1>3 DEF Init, Inv, Chunked, Bounded, Stages, Covered

(* Pass 1 gives each dimension a chunk size, and pass 2 yields every row.   *)
LEMMA InferKeepsInv ==
  ASSUME Inv, Infer
  PROVE  Inv'
<1>1. /\ UNCHANGED <<job, active_chunks, stream_ok, tx_open, channel, uploader, uploading>>
      /\ active_chunks = <<>> /\ channel = <<>> /\ uploader = "recv" /\ tx_open
      /\ DOMAIN active_chunks = {} /\ job \in Jobs
  BY EmptyMap DEF Infer, Inv, Typed, Stages
<1>2. /\ Rank \in Nat /\ IsFiniteSet(job.rows) /\ job.rows \subseteq Grids
      /\ Written \subseteq job.rows
  BY <1>1, JobType
<1>3. chunk_shape' \in [Dims -> Nat]
  BY <1>1, ChunkShapeType DEF Infer
<1>4. Dims' = Dims /\ Grids' = Grids /\ Written' = Written
  BY <1>1 DEF Dims, Rank, Grids, Written
<1>5. /\ StreamOrder(job.rows) \in Seq(job.rows)
      /\ \A r \in job.rows :
           \E i \in DOMAIN StreamOrder(job.rows) : StreamOrder(job.rows)[i] = r
  BY <1>2, StreamOrderType DEF Grids, Dims
<1>6. \/ phase' = "refused" /\ rows' = rows
      \/ /\ phase' = "stream" /\ rows' = StreamOrder(job.rows)
         /\ chunk_shape' \in [Dims -> Nat \ {0}]
  <2>1. CASE phase' = "refused" /\ rows' = rows
    BY <2>1
  <2>2. CASE 0 \notin Range(chunk_shape') /\ phase' = "stream" /\ rows' = StreamOrder(job.rows)
    <3>1. \A d \in Dims : chunk_shape'[d] # 0
      BY <1>3, <2>2 DEF Range
    <3>2. chunk_shape' \in [Dims -> Nat \ {0}]
      BY <1>3, <3>1
    <3> QED
      BY <2>2, <3>2
  <2> QED
    BY <2>1, <2>2 DEF Infer
<1>7. Typed'
  <2>1. rows' \in Seq(job'.rows)
    BY <1>1, <1>5, <1>6 DEF Inv, Typed
  <2>2. channel' \in Seq(Sent') /\ Len(channel') <= ChannelSize
    BY <1>1, ExportAssumption
  <2> QED
    BY <1>1, <1>6, <2>1, <2>2 DEF Inv, Typed
<1>8. Chunked'
  BY <1>3, <1>4, <1>6 DEF Chunked
<1>9. Filling'
  BY <1>1, FS_EmptySet DEF Filling
<1>10. Bounded'
  <2>1. ChunkBytes' \in Nat
    <3>1. Volume(chunk_shape') \in Nat
      BY <1>2, <1>3, VolumeType DEF Dims
    <3>2. \A v, e \in Nat : v * e \in Nat
      OBVIOUS
    <3> QED
      BY <3>1, <3>2, ExportAssumption DEF ChunkBytes
  <2>2. Cardinality(DOMAIN active_chunks') = 0
    BY <1>1, FS_EmptySet
  <2>3. \A b \in Nat : 0 * b = 0 /\ 0 < MaxMemory + b /\ 0 < MaxMemory
    BY ExportAssumption
  <2> QED
    BY <2>1, <2>2, <2>3 DEF Bounded
<1>11. Stages'
  BY <1>1, <1>6 DEF Infer, Inv, Stages
<1>12. Covered'
  BY <1>2, <1>4, <1>5, <1>6 DEF Covered
<1> QED
  BY <1>7, <1>8, <1>9, <1>10, <1>11, <1>12 DEF Inv

(* The end of the streaming loop: by the last row, or by an error.         *)
LEMMA EndStreamKeepsInv ==
  ASSUME Inv, LastRow \/ QueryFails \/ RejectRow
  PROVE  Inv'
<1>1. PICK ok \in BOOLEAN : EndStream(ok) /\ phase = "stream" /\ (ok => rows = <<>>)
  BY DEF LastRow, QueryFails, RejectRow
<1>2. /\ UNCHANGED <<job, shape, chunk_shape, rows, active_chunks, tx_open, channel,
                     uploader, uploading, store>>
      /\ phase' = "flush" /\ stream_ok' = ok /\ phase = "stream"
  BY <1>1 DEF EndStream
<1>3. /\ Dims' = Dims /\ Grids' = Grids /\ Buffers' = Buffers /\ Sent' = Sent
      /\ ChunkBytes' = ChunkBytes /\ Written' = Written
  BY <1>2, SameBuffers
<1>4. Typed'
  BY <1>2, <1>3 DEF Inv, Typed
<1>5. Chunked' /\ Filling' /\ Bounded'
  BY <1>2, <1>3 DEF Inv, Chunked, Filling, Bounded
<1>6. Stages'
  BY <1>1, <1>2 DEF Inv, Stages
<1>7. Covered'
  <2>1. \A g : Somewhere(g)' = Somewhere(g)
    BY <1>2, <1>3 DEF Somewhere
  <2>2. stream_ok
    BY <1>2 DEF Inv, Stages
  <2> QED
    BY <1>2, <2>1, <2>2, StillCovered DEF Inv
<1> QED
  BY <1>4, <1>5, <1>6, <1>7 DEF Inv

(* A row is processed: its chunk has a buffer now, and the others keep theirs. *)
LEMMA ProcessRowKeepsInv ==
  ASSUME Inv, ProcessRow
  PROVE  Inv'
<1>1. /\ UNCHANGED <<job, shape, chunk_shape, stream_ok, tx_open, channel, uploader,
                     uploading, store>>
      /\ phase = "stream" /\ rows # <<>> /\ rows' = Tail(rows)
      /\ active_chunks' = Dispatch(Head(rows))
      /\ phase' \in {"stream", "evict"}
      /\ phase' = IF MemoryFull(active_chunks') THEN "evict" ELSE "stream"
  BY DEF ProcessRow
<1>2. /\ Dims' = Dims /\ Grids' = Grids /\ Buffers' = Buffers /\ Sent' = Sent
      /\ ChunkBytes' = ChunkBytes /\ Written' = Written
  BY <1>1, SameBuffers
<1>3. rows \in Seq(job.rows)
  BY DEF Inv, Typed
<1>4. /\ Head(rows) \in job.rows /\ Tail(rows) \in Seq(job.rows)
      /\ \A i \in DOMAIN rows : rows[i] = Head(rows) \/ \E k \in DOMAIN rows' : rows'[k] = rows[i]
  <2>1. Head(rows) = rows[1] /\ Head(rows) \in job.rows /\ Tail(rows) \in Seq(job.rows)
    BY <1>1, <1>3, HeadTailProperties
  <2>2. ASSUME NEW i \in DOMAIN rows, i # 1
        PROVE  i - 1 \in DOMAIN rows' /\ rows'[i - 1] = rows[i]
    <3>1. /\ Len(rows) \in Nat /\ DOMAIN rows = 1 .. Len(rows)
          /\ Len(Tail(rows)) = Len(rows) - 1 /\ DOMAIN Tail(rows) = 1 .. Len(Tail(rows))
      BY <1>1, <1>3, <2>1, HeadTailProperties, LenProperties
    <3>2. i \in 1 .. Len(rows) /\ i - 1 \in 1 .. Len(Tail(rows))
      BY <2>2, <3>1
    <3>3. Tail(rows)[i - 1] = rows[i]
      BY <1>1, <1>3, <3>1, <3>2, HeadTailProperties
    <3> QED
      BY <1>1, <3>1, <3>2, <3>3
  <2> QED
    BY <2>1, <2>2
<1>5. /\ Filling' /\ DOMAIN active_chunks \subseteq DOMAIN active_chunks'
      /\ Cardinality(DOMAIN active_chunks') <= Cardinality(DOMAIN active_chunks) + 1
      /\ Head(rows) \in Written => GridCoord(Head(rows), chunk_shape) \in DOMAIN active_chunks'
  BY <1>1, <1>4, DispatchType
<1>6. Typed'
  BY <1>1, <1>2, <1>4 DEF Inv, Typed
<1>7. Chunked'
  BY <1>1, <1>2 DEF Inv, Chunked
<1>8. Bounded' /\ (phase' = "evict" => DOMAIN active_chunks' # {})
  <2> DEFINE a == Cardinality(DOMAIN active_chunks)
             c == Cardinality(DOMAIN active_chunks')
  <2>1. a \in Nat /\ c \in Nat /\ c <= a + 1
    BY <1>5, FS_CardinalityType DEF Inv, Filling
  <2>2. ChunkBytes \in Nat /\ a * ChunkBytes < MaxMemory
    BY <1>1, ChunkBytesType DEF Inv, Typed, Chunked, Bounded
  <2>3. c * ChunkBytes < MaxMemory + ChunkBytes /\ c * ChunkBytes \in Nat
    <3>1. \A b \in Nat : c * b <= (a + 1) * b /\ c * b \in Nat
      BY <2>1
    <3> HIDE DEF a, c
    <3> QED
      BY <2>1, <2>2, <3>1, OneMore, ExportAssumption
  <2>4. phase' = "evict" <=> ~(c * ChunkBytes < MaxMemory)
    <3>1. MemoryFull(active_chunks') <=> c * ChunkBytes >= MaxMemory
      BY DEF MemoryFull
    <3> HIDE DEF c
    <3> QED
      BY <1>1, <2>3, <3>1, ExportAssumption
  <2>5. c = 0 => c * ChunkBytes < MaxMemory
    BY <2>2, ExportAssumption
  <2>6. phase' = "evict" => DOMAIN active_chunks' # {}
    BY <2>4, <2>5, FS_EmptySet
  <2> QED
    BY <1>1, <1>2, <2>3, <2>4, <2>6 DEF Bounded
<1>9. Stages'
  BY <1>1, <1>8 DEF Inv, Stages
<1>10. Covered'
  <2>1. \A g : Somewhere(g) => Somewhere(g)'
    BY <1>1, <1>2, <1>5 DEF Somewhere
  <2>2. ASSUME NEW r \in Written, uploader # "dead", stream_ok
        PROVE  (\E i \in DOMAIN rows' : rows'[i] = r) \/ Somewhere(GridCoord(r, chunk_shape))'
    <3>1. (\E i \in DOMAIN rows : rows[i] = r) \/ Somewhere(GridCoord(r, chunk_shape))
      BY <1>1, <2>2 DEF Inv, Covered
    <3>2. CASE r = Head(rows)
      BY <1>1, <1>5, <3>2 DEF Somewhere, GridCoord
    <3>3. CASE Somewhere(GridCoord(r, chunk_shape))
      BY <1>1, <2>1, <3>3 DEF GridCoord
    <3>4. CASE r # Head(rows) /\ \E i \in DOMAIN rows : rows[i] = r
      BY <1>4, <3>4
    <3> QED
      BY <3>1, <3>2, <3>3, <3>4
  <2> QED
    BY <1>1, <1>2, <2>2 DEF Covered
<1> QED
  BY <1>5, <1>6, <1>7, <1>8, <1>9, <1>10 DEF Inv

(* Sending the first buffer moves it from the map to the channel.           *)
LEMMA SendFirstMoves ==
  ASSUME Inv, SendFirst, DOMAIN active_chunks # {}, phase # "infer",
         UNCHANGED <<job, chunk_shape, uploader, uploading, store>>
  PROVE  /\ channel' \in Seq(Sent) /\ Len(channel') <= ChannelSize
         /\ \A g : Somewhere(g) => Somewhere(g)'
<1> DEFINE entry == [grid |-> FirstKey, data |-> active_chunks[FirstKey]]
<1>1. /\ FirstKey \in DOMAIN active_chunks /\ active_chunks[FirstKey] \in Buffers
      /\ DOMAIN active_chunks' = DOMAIN active_chunks \ {FirstKey}
  BY PopFirst DEF SendFirst
<1>2. entry \in Sent /\ entry.grid = FirstKey
  BY <1>1 DEF Inv, Filling, Sent
<1>3. channel' = Append(channel, entry) /\ Len(channel) < ChannelSize
  BY DEF SendFirst
<1> HIDE DEF entry
<1>4. channel \in Seq(Sent) /\ Len(channel) \in Nat
  BY LenProperties DEF Inv, Typed
<1>5. /\ channel' \in Seq(Sent) /\ Len(channel') = Len(channel) + 1
      /\ channel'[Len(channel) + 1] = entry
      /\ \A i \in 1 .. Len(channel) : channel'[i] = channel[i]
  BY <1>2, <1>3, <1>4, AppendProperties
<1>6. DOMAIN channel = 1 .. Len(channel) /\ DOMAIN channel' = 1 .. Len(channel')
  BY <1>4, <1>5, LenProperties
<1>7. Len(channel') <= ChannelSize
  BY <1>3, <1>4, <1>5, ExportAssumption
<1>8. ASSUME NEW g, Somewhere(g)
      PROVE  Somewhere(g)'
  <2>1. CASE g \in DOMAIN active_chunks
    <3>1. CASE g = FirstKey
      <4>1. Len(channel) + 1 \in DOMAIN channel' /\ channel'[Len(channel) + 1].grid = g
        BY <1>2, <1>4, <1>5, <1>6, <3>1
      <4> QED
        BY <4>1 DEF Somewhere
    <3> QED
      BY <1>1, <2>1, <3>1 DEF Somewhere
  <2>2. CASE \E i \in DOMAIN channel : channel[i].grid = g
    <3>1. PICK i \in DOMAIN channel : channel[i].grid = g
      BY <2>2
    <3>2. i \in DOMAIN channel' /\ channel'[i].grid = g
      BY <1>4, <1>5, <1>6, <3>1
    <3> QED
      BY <3>2 DEF Somewhere
  <2>3. CASE (uploader = "store" /\ uploading.grid = g) \/ (g \in DOMAIN store /\ store[g] \in Buffers)
    BY <2>3, SameBuffers DEF Somewhere
  <2> QED
    BY <1>8, <2>1, <2>2, <2>3 DEF Somewhere
<1> QED
  BY <1>5, <1>7, <1>8

(* The eviction loop sends the first buffer, or loses it to a dead uploader. *)
LEMMA EvictKeepsInv ==
  ASSUME Inv, Evict \/ EvictFails
  PROVE  Inv'
<1>1. /\ UNCHANGED <<job, shape, chunk_shape, rows, tx_open, uploader, uploading, store>>
      /\ phase = "evict" /\ DOMAIN active_chunks # {} /\ active_chunks' = WithoutFirst
      /\ stream_ok /\ tx_open
  BY DEF Evict, EvictFails, SendFirst, Inv, Stages
<1>2. /\ Dims' = Dims /\ Grids' = Grids /\ Buffers' = Buffers /\ Sent' = Sent
      /\ ChunkBytes' = ChunkBytes /\ Written' = Written
  BY <1>1, SameBuffers
<1>3. /\ Filling' /\ Cardinality(DOMAIN active_chunks') * ChunkBytes < MaxMemory
      /\ ChunkBytes \in Nat /\ Cardinality(DOMAIN active_chunks') \in Nat
  <2>1. Filling' /\ Cardinality(DOMAIN active_chunks') * ChunkBytes < MaxMemory
    BY <1>1, PopFirst
  <2>2. ChunkBytes \in Nat
    BY <1>1, ChunkBytesType DEF Inv, Typed, Chunked
  <2> QED
    BY <2>1, <2>2, FS_CardinalityType DEF Filling
<1>4. /\ phase' \in {"stream", "evict", "flush"}
      /\ phase' = "evict" => DOMAIN active_chunks' # {}
      /\ phase' # "flush" => stream_ok'
      /\ phase' = "flush" => ~stream_ok'
  <2>1. CASE Evict
    <3>1. MemoryFull(active_chunks') <=>
            Cardinality(DOMAIN active_chunks') * ChunkBytes >= MaxMemory
      BY DEF MemoryFull
    <3>2. Cardinality(DOMAIN active_chunks') * ChunkBytes \in Nat
      BY <1>3, OneMore
    <3>3. ~MemoryFull(active_chunks')
      BY <1>3, <3>1, <3>2, ExportAssumption
    <3> QED
      BY <1>1, <2>1, <3>3 DEF Evict
  <2>2. CASE EvictFails
    BY <2>2 DEF EvictFails
  <2> QED
    BY <2>1, <2>2
<1>5. channel' \in Seq(Sent) /\ Len(channel') <= ChannelSize
  <2>1. CASE Evict
    BY <1>1, <2>1, SendFirstMoves DEF Evict
  <2>2. CASE EvictFails
    BY <2>2 DEF EvictFails, Inv, Typed
  <2> QED
    BY <2>1, <2>2
<1>6. Typed'
  <2>1. stream_ok' \in BOOLEAN
    BY <1>4 DEF Evict, EvictFails, Inv, Typed
  <2> QED
    BY <1>1, <1>2, <1>4, <1>5, <2>1 DEF Inv, Typed
<1>7. Chunked'
  BY <1>1, <1>2, <1>4 DEF Inv, Chunked
<1>8. Bounded'
  <2>1. \A b, c \in Nat : c * b < MaxMemory => c * b < MaxMemory + b
    <3>1. \A b, c \in Nat : c * b \in Nat
      OBVIOUS
    <3> QED
      BY <3>1, ExportAssumption
  <2> QED
    BY <1>2, <1>3, <2>1 DEF Bounded
<1>9. Stages'
  BY <1>1, <1>4 DEF Inv, Stages
<1>10. Covered'
  <2>1. CASE Evict
    <3>1. \A g : Somewhere(g) => Somewhere(g)'
      BY <1>1, <2>1, SendFirstMoves DEF Evict
    <3> QED
      BY <1>1, <1>4, <2>1, <3>1, StillCovered DEF Inv, Evict
  <2>2. CASE EvictFails
    BY <2>2 DEF EvictFails, Covered
  <2> QED
    BY <2>1, <2>2
<1> QED
  BY <1>3, <1>6, <1>7, <1>8, <1>9, <1>10 DEF Inv

(* The flush sends what is left; to a dead uploader it sends nothing.       *)
LEMMA FlushKeepsInv ==
  ASSUME Inv, Flush
  PROVE  Inv'
<1>1. /\ UNCHANGED <<job, shape, chunk_shape, rows, tx_open, phase, stream_ok, uploader,
                     uploading, store>>
      /\ phase = "flush" /\ active_chunks # <<>> /\ active_chunks' = WithoutFirst
      /\ SendFirst \/ (uploader = "dead" /\ channel' = channel)
  BY DEF Flush, SendFirst
<1>2. DOMAIN active_chunks # {} /\ tx_open
  BY <1>1, EmptyMap DEF Inv, Typed, Stages
<1>3. /\ Dims' = Dims /\ Grids' = Grids /\ Buffers' = Buffers /\ Sent' = Sent
      /\ ChunkBytes' = ChunkBytes /\ Written' = Written
  BY <1>1, SameBuffers
<1>4. /\ Filling' /\ Cardinality(DOMAIN active_chunks') * ChunkBytes < MaxMemory
      /\ ChunkBytes \in Nat /\ Cardinality(DOMAIN active_chunks') \in Nat
  <2>1. Filling' /\ Cardinality(DOMAIN active_chunks') * ChunkBytes < MaxMemory
    BY <1>1, <1>2, PopFirst
  <2>2. ChunkBytes \in Nat
    BY <1>1, ChunkBytesType DEF Inv, Typed, Chunked
  <2> QED
    BY <2>1, <2>2, FS_CardinalityType DEF Filling
<1>5. channel' \in Seq(Sent) /\ Len(channel') <= ChannelSize
  <2>1. CASE SendFirst
    BY <1>1, <1>2, <2>1, SendFirstMoves
  <2>2. CASE channel' = channel
    BY <2>2 DEF Inv, Typed
  <2> QED
    BY <1>1, <2>1, <2>2
<1>6. Typed'
  BY <1>1, <1>3, <1>5 DEF Inv, Typed
<1>7. Chunked'
  BY <1>1, <1>3 DEF Inv, Chunked
<1>8. Bounded'
  <2>1. \A b, c \in Nat : c * b < MaxMemory => c * b < MaxMemory + b
    <3>1. \A b, c \in Nat : c * b \in Nat
      OBVIOUS
    <3> QED
      BY <3>1, ExportAssumption
  <2> QED
    BY <1>1, <1>3, <1>4, <2>1 DEF Bounded
<1>9. Stages'
  BY <1>1, <1>2 DEF Inv, Stages
<1>10. Covered'
  <2>1. CASE uploader = "dead"
    BY <1>1, <2>1 DEF Covered
  <2>2. CASE SendFirst
    <3>1. \A g : Somewhere(g) => Somewhere(g)'
      BY <1>1, <1>2, <2>2, SendFirstMoves
    <3> QED
      BY <1>1, <3>1, StillCovered DEF Inv
  <2> QED
    BY <1>1, <2>1, <2>2
<1> QED
  BY <1>4, <1>6, <1>7, <1>8, <1>9, <1>10 DEF Inv

(* The sender is dropped, and the task joined, once the map is empty.       *)
LEMMA FinishKeepsInv ==
  ASSUME Inv, Flushed \/ Join
  PROVE  Inv'
<1>1. /\ UNCHANGED <<job, shape, chunk_shape, rows, active_chunks, stream_ok, channel,
                     uploader, uploading, store>>
      /\ phase \in {"flush", "join"} /\ active_chunks = <<>>
      /\ phase' \in {"join", "success", "error"}
      /\ tx_open' \in {FALSE, tx_open}
  BY DEF Flushed, Join, readerState, Inv, Stages
<1>2. /\ Dims' = Dims /\ Grids' = Grids /\ Buffers' = Buffers /\ Sent' = Sent
      /\ ChunkBytes' = ChunkBytes /\ Written' = Written
  BY <1>1, SameBuffers
<1>3. Typed'
  BY <1>1, <1>2 DEF Inv, Typed
<1>4. Chunked'
  BY <1>1, <1>2 DEF Inv, Chunked
<1>5. Filling' /\ Bounded'
  BY <1>1, <1>2 DEF Inv, Filling, Bounded
<1>6. Stages'
  <2>1. CASE Flushed
    BY <1>1, <2>1 DEF Inv, Stages, Flushed
  <2>2. CASE Join
    <3>1. phase' = "success" => uploader = "done" /\ stream_ok
      BY <2>2 DEF Join
    <3>2. phase = "join" /\ phase' \in {"success", "error"} /\ tx_open' = tx_open
      BY <2>2 DEF Join, readerState
    <3> QED
      BY <1>1, <3>1, <3>2 DEF Inv, Stages
  <2> QED
    BY <2>1, <2>2
<1>7. Covered'
  <2>1. \A g : Somewhere(g)' = Somewhere(g)
    BY <1>1, <1>2 DEF Somewhere
  <2> QED
    BY <1>1, <2>1, StillCovered DEF Inv
<1> QED
  BY <1>3, <1>4, <1>5, <1>6, <1>7 DEF Inv

(* The uploader's steps leave the reader's state alone, but for the exit.   *)
LEMMA UploaderLeavesReader ==
  ASSUME Inv, Uploader
  PROVE  /\ UNCHANGED readerState /\ phase' \in {phase, "exit"}
         /\ phase \notin {"infer", "refused"}
         /\ phase' = "exit" => phase = "exit" \/ uploader' = "dead"
         /\ Dims' = Dims /\ Grids' = Grids /\ Buffers' = Buffers /\ Sent' = Sent
         /\ ChunkBytes' = ChunkBytes /\ Written' = Written
         /\ Filling' /\ Bounded' 
<1>1. /\ UNCHANGED readerState /\ phase' \in {phase, "exit"}
      /\ phase' = "exit" => phase = "exit" \/ uploader' = "dead"
  BY DEF Uploader, Recv, StoreChunk, StoreFails, StorePanics, AllReceived
<1>2. phase \notin {"infer", "refused"}
  BY DEF Uploader, Recv, StoreChunk, StoreFails, StorePanics, AllReceived, Inv, Stages
<1>3. /\ Dims' = Dims /\ Grids' = Grids /\ Buffers' = Buffers /\ Sent' = Sent
      /\ ChunkBytes' = ChunkBytes /\ Written' = Written
  BY <1>1, SameBuffers DEF readerState
<1>4. Filling' /\ Bounded'
  BY <1>1, <1>2, <1>3 DEF readerState, Inv, Filling, Bounded
<1> QED
  BY <1>1, <1>2, <1>3, <1>4

(* The uploader takes a buffer, stores it, or ends with the channel.        *)
LEMMA UploaderKeepsInv ==
  ASSUME Inv, Uploader
  PROVE  Inv'
<1>1. /\ UNCHANGED readerState /\ phase' \in {phase, "exit"}
      /\ phase \notin {"infer", "refused"}
      /\ phase' = "exit" => phase = "exit" \/ uploader' = "dead"
      /\ Dims' = Dims /\ Grids' = Grids /\ Buffers' = Buffers /\ Sent' = Sent
      /\ ChunkBytes' = ChunkBytes /\ Written' = Written
      /\ Filling' /\ Bounded'
  BY UploaderLeavesReader
<1>2. UNCHANGED <<job, shape, chunk_shape, rows, active_chunks, stream_ok, tx_open>>
  BY <1>1 DEF readerState
<1>3. channel \in Seq(Sent) /\ Len(channel) <= ChannelSize /\ Len(channel) \in Nat
  BY LenProperties DEF Inv, Typed
<1>4. Chunked'
  BY <1>1, <1>2 DEF Inv, Chunked
<1>5. /\ channel' \in Seq(Sent) /\ Len(channel') <= ChannelSize
      /\ IF uploader' = "store" THEN uploading' \in Sent ELSE uploading' = NoBuffer
      /\ uploader' \in {"recv", "store", "done", "dead"}
      /\ uploader' = "done" => ~tx_open /\ channel' = <<>>
  <2>1. CASE Recv
    <3>1. /\ channel # <<>> /\ channel' = Tail(channel) /\ uploading' = Head(channel)
          /\ uploader' = "store"
      BY <2>1 DEF Recv
    <3>2. /\ Head(channel) \in Sent /\ Tail(channel) \in Seq(Sent)
          /\ Len(Tail(channel)) = Len(channel) - 1
      BY <1>3, <3>1, HeadTailProperties
    <3> QED
      BY <1>3, <3>1, <3>2, ExportAssumption
  <2>2. CASE StorePanics
    BY <1>3, <2>2, ExportAssumption DEF StorePanics
  <2>3. CASE StoreChunk \/ StoreFails \/ AllReceived
    BY <1>3, <2>3 DEF StoreChunk, StoreFails, AllReceived, Inv, Typed
  <2> QED
    BY <2>1, <2>2, <2>3 DEF Uploader
<1>6. Typed'
  BY <1>1, <1>2, <1>5 DEF Inv, Typed
<1>7. Stages'
  <2>1. uploader \in {"recv", "store"}
    BY DEF Uploader, Recv, StoreChunk, StoreFails, StorePanics, AllReceived
  <2> QED
    BY <1>1, <1>2, <1>5, <2>1 DEF Inv, Stages
<1>8. Covered'
  <2>1. CASE Recv
    <3>1. /\ channel # <<>> /\ channel' = Tail(channel) /\ uploading' = Head(channel)
          /\ uploader = "recv" /\ uploader' = "store" /\ UNCHANGED <<phase, store>>
      BY <2>1 DEF Recv
    <3>2. ASSUME NEW i \in DOMAIN channel
          PROVE  uploading' = channel[i] \/ \E k \in DOMAIN channel' : channel'[k] = channel[i]
      <4>1. /\ Head(channel) = channel[1] /\ Len(Tail(channel)) = Len(channel) - 1
            /\ Tail(channel) \in Seq(Sent)
            /\ \A k \in 1 .. Len(Tail(channel)) : Tail(channel)[k] = channel[k + 1]
        BY <1>3, <3>1, HeadTailProperties
      <4>2. DOMAIN channel = 1 .. Len(channel) /\ DOMAIN channel' = 1 .. Len(Tail(channel))
        BY <1>3, <3>1, <4>1, LenProperties
      <4>3. i = 1 \/ (i - 1 \in 1 .. Len(Tail(channel)) /\ i - 1 + 1 = i)
        BY <1>3, <4>1, <4>2
      <4> QED
        BY <3>1, <4>1, <4>2, <4>3
    <3>3. ASSUME NEW g, Somewhere(g)
          PROVE  Somewhere(g)'
      <4>1. CASE \E i \in DOMAIN channel : channel[i].grid = g
        BY <3>1, <3>2, <4>1 DEF Somewhere
      <4>2. CASE g \in DOMAIN active_chunks \/ (g \in DOMAIN store /\ store[g] \in Buffers)
        BY <1>1, <1>2, <3>1, <4>2 DEF Somewhere
      <4> QED
        BY <3>1, <3>3, <4>1, <4>2 DEF Somewhere
    <3> QED
      BY <1>2, <3>1, <3>3, StillCovered DEF Inv
  <2>2. CASE StoreChunk
    <3>1. /\ uploader = "store" /\ uploader' = "recv" /\ UNCHANGED <<phase, channel>>
          /\ uploading.data \in Buffers
          /\ store' = [g \in DOMAIN store \cup {uploading.grid} |->
                         IF g = uploading.grid THEN uploading.data ELSE store[g]]
      BY <2>2 DEF StoreChunk, Inv, Typed, Sent
    <3>2. ASSUME NEW g, Somewhere(g)
          PROVE  Somewhere(g)'
      <4>1. CASE g = uploading.grid \/ (g \in DOMAIN store /\ store[g] \in Buffers)
        <5>1. g \in DOMAIN store' /\ store'[g] \in Buffers
          BY <3>1, <4>1
        <5> QED
          BY <1>1, <5>1 DEF Somewhere
      <4>2. CASE g \in DOMAIN active_chunks \/ \E i \in DOMAIN channel : channel[i].grid = g
        BY <1>2, <3>1, <4>2 DEF Somewhere
      <4> QED
        BY <3>2, <4>1, <4>2 DEF Somewhere
    <3> QED
      BY <1>2, <3>1, <3>2, StillCovered DEF Inv
  <2>3. CASE StoreFails \/ StorePanics
    BY <2>3 DEF StoreFails, StorePanics, Covered
  <2>4. CASE AllReceived
    <3>1. /\ uploader = "recv" /\ uploader' = "done" /\ UNCHANGED <<phase, channel, store>>
      BY <2>4 DEF AllReceived
    <3>2. \A g : Somewhere(g) => Somewhere(g)'
      BY <1>1, <1>2, <3>1 DEF Somewhere
    <3> QED
      BY <1>2, <3>1, <3>2, StillCovered DEF Inv
  <2> QED
    BY <2>1, <2>2, <2>3, <2>4 DEF Uploader
<1> QED
  BY <1>1, <1>4, <1>6, <1>7, <1>8 DEF Inv

(* Every step keeps the invariant.                                         *)
LEMMA NextKeepsInv ==
  ASSUME Inv, [Next]_vars
  PROVE  Inv'
<1>1. CASE UNCHANGED vars
  <2>1. /\ Dims' = Dims /\ Grids' = Grids /\ Buffers' = Buffers /\ Sent' = Sent
        /\ ChunkBytes' = ChunkBytes /\ Written' = Written
    BY <1>1, SameBuffers DEF vars
  <2>2. Typed' /\ Chunked' /\ Filling' /\ Bounded' /\ Stages'
    BY <1>1, <2>1 DEF vars, Inv, Typed, Chunked, Filling, Bounded, Stages
  <2>3. \A g : Somewhere(g)' = Somewhere(g)
    BY <1>1, <2>1 DEF vars, Somewhere
  <2>4. Covered'
    BY <1>1, <2>3, StillCovered DEF vars, Inv
  <2> QED
    BY <2>2, <2>4 DEF Inv
<1>2. CASE Reader
  BY <1>2, InferKeepsInv, EndStreamKeepsInv, ProcessRowKeepsInv, EvictKeepsInv, FlushKeepsInv,
     FinishKeepsInv DEF Reader
<1>3. CASE Uploader
  BY <1>3, UploaderKeepsInv
<1> QED
  BY <1>1, <1>2, <1>3 DEF Next, Stay

(* The invariant holds of every state an export reaches.                   *)
LEMMA ExportInv ==
  Spec => []Inv
<1>1. Init => Inv
  BY InitEstablishesInv
<1>2. Inv /\ [Next]_vars => Inv'
  BY NextKeepsInv
<1> QED
  BY <1>1, <1>2, PTL DEF Spec

-----------------------------------------------------------------------------
(* The theorems.                                                           *)

(* The channel never holds more than its capacity, the uploader has a       *)
(* buffer exactly while it stores one, and every buffer being filled has   *)
(* the size of a chunk and holds rows of the query or the fill value.      *)
THEOREM ExportTyped ==
  Spec => []TypeOK
<1>1. Inv => TypeOK
  <2> SUFFICES ASSUME Inv
               PROVE  TypeOK
    OBVIOUS
  <2>1. uploader = "store" <=> uploading # NoBuffer
    <3>1. \A u \in Sent : u # NoBuffer
      <4>1. \A u \in Sent : DOMAIN u = {"grid", "data"}
        BY DEF Sent
      <4>2. DOMAIN NoBuffer = {} /\ "grid" \in {"grid", "data"}
        BY DEF NoBuffer
      <4> QED
        BY <4>1, <4>2
    <3> QED
      BY <3>1 DEF Inv, Typed
  <2> QED
    BY <2>1 DEF Inv, Typed, Filling, Buffers, TypeOK
<1> QED
  BY <1>1, ExportInv, PTL

(* The buffers alive at any time, in the map, in the channel and with the   *)
(* uploader, take less than the memory limit and the channel's share: the  *)
(* eviction loop of process_row and the bounded channel hold them back.     *)
THEOREM MemoryStaysBounded ==
  Spec => []MemoryBounded
<1>1. Inv => MemoryBounded
  <2> SUFFICES ASSUME Inv, phase # "infer"
               PROVE  MemoryBounded
    BY DEF MemoryBounded
  <2> DEFINE a == Cardinality(DOMAIN active_chunks)
             n == Len(channel)
             u == IF uploading = NoBuffer THEN 0 ELSE 1
             b == ChunkBytes
             s == ChannelSize
             m == MaxMemory
  <2>1. a \in Nat /\ n \in Nat /\ b \in Nat /\ u \in {0, 1} /\ s \in Nat /\ m \in Nat
    BY ChunkBytesType, FS_CardinalityType, LenProperties, ExportAssumption
       DEF Inv, Typed, Chunked, Filling
  <2>2. a * b < m + b /\ n <= s
    BY DEF Inv, Typed, Bounded
  <2> HIDE DEF a, n, u, b, s, m
  <2>3. n * b <= s * b /\ u * b <= b
    <3>1. \A x, y, z \in Nat : x <= y => x * z <= y * z
      OBVIOUS
    <3> QED
      BY <2>1, <2>2, <3>1
  <2>4. (a + n + u) * b = a * b + n * b + u * b /\ (s + 2) * b = s * b + b + b
    BY <2>1
  <2>5. a * b \in Nat /\ n * b \in Nat /\ u * b \in Nat /\ s * b \in Nat
    BY <2>1
  <2>6. (a + n + u) * b < m + (s + 2) * b
    BY <2>1, <2>2, <2>3, <2>4, <2>5
  <2> QED
    BY <2>6 DEF a, n, u, b, s, m, MemoryBounded
<1> QED
  BY <1>1, ExportInv, PTL

(* A buffer of this export is none of an earlier one.                       *)
LEMMA NoBufferIsHeld ==
  ASSUME Inv, phase \notin {"infer", "refused", "error", "exit"}
  PROVE  \A u \in Buffers : u # Held
<1>1. Volume(chunk_shape) \in Nat \ {0}
  BY ChunkBytesType DEF Inv, Typed, Chunked
<1>2. \A u \in Buffers : 0 \in DOMAIN u
  BY <1>1 DEF Buffers
<1>3. 0 \notin DOMAIN Held
  BY DEF Held
<1> QED
  BY <1>2, <1>3

(* On success no buffer is left, and each touched chunk was replaced.       *)
LEMMA SuccessIsComplete ==
  ASSUME Inv
  PROVE  NothingLeftBehind
<1> SUFFICES ASSUME phase = "success"
             PROVE  NothingLeftBehind
  BY DEF NothingLeftBehind
<1>1. /\ active_chunks = <<>> /\ channel = <<>> /\ uploader = "done" /\ stream_ok
      /\ rows = <<>> /\ uploading = NoBuffer
  BY DEF Inv, Typed, Stages
<1>2. \A u \in Buffers : u # Held
  BY NoBufferIsHeld
<1>3. \A r \in Written : GridCoord(r, chunk_shape) \in DOMAIN store
                         /\ store[GridCoord(r, chunk_shape)] \in Buffers
  <2>1. DOMAIN rows = {} /\ DOMAIN active_chunks = {} /\ DOMAIN channel = {}
    BY <1>1
  <2>2. \A r \in Written :
          (\E i \in DOMAIN rows : rows[i] = r) \/ Somewhere(GridCoord(r, chunk_shape))
    BY <1>1 DEF Inv, Covered
  <2> QED
    BY <1>1, <2>1, <2>2 DEF Somewhere
<1> QED
  BY <1>1, <1>2, <1>3 DEF NothingLeftBehind, Touched

(* An export that reports success stored a buffer of every chunk that a     *)
(* value of the query belongs to, over whatever the destination held there, *)
(* and left none behind, although a failure to send is ignored at the end.  *)
THEOREM SuccessLeavesNothing ==
  Spec => []NothingLeftBehind
<1>1. Inv => NothingLeftBehind
  BY SuccessIsComplete
<1> QED
  BY <1>1, ExportInv, PTL

=============================================================================
