---------------------------- MODULE WindowedRead ----------------------------
(***************************************************************************)
(* One read_geo query from its URI and window to its rows.  bind opens the  *)
(* dataset (OpenDataset); ZarrDataset's compute_bounds and scan turn the    *)
(* window into a box of array indices and a number of chunks;              *)
(* ZarrChunkStream::read_chunk reads the part of one chunk that lies in the *)
(* box, from the array's store or from a tile of a GeoTIFF; and             *)
(* write_chunk_unified writes its cells with their coordinate columns, a    *)
(* batch at a time.                                                        *)
(*                                                                         *)
(* ReadGeoScan models the threads that share this work and takes each      *)
(* chunk's rows as given; here one worker does all of it and the rows are   *)
(* computed.  Dimensions count from 1, indices from 0 as in the code.       *)
(***************************************************************************)
EXTENDS OpenDataset

CONSTANTS
  Requests,        (* the queries explored                                 *)
  VectorSize,      (* rows of an output vector: 2048 in the code           *)
  MaxSearchArea,   (* of a window on a STAC API: 1000 in the code          *)
  OverflowChecks,  (* a dev build panics on overflow, a release build wraps *)
  U64              (* modulus of the index arithmetic: 2^64 in the code    *)

(* A request: a source and the asset asked for, a set of at most one; search, *)
(* if its URI is that of a STAC API; and a query: the least and greatest    *)
(* value and the pinned index of dimensions, by name, each a set of at most *)
(* one element, and the columns asked for, the values' after the last       *)
(* dimension's.                                                            *)
ASSUME ReadAssumption ==
  /\ VectorSize \in Nat \ {0}
  /\ MaxSearchArea \in Nat
  /\ OverflowChecks \in BOOLEAN
  /\ U64 \in Nat

AtMostOneIn(T, values) ==
  \A name \in DOMAIN values : /\ values[name] \subseteq T
                              /\ \A v, w \in values[name] : v = w

Sorted(cs) ==
  \/ \A i, j \in DOMAIN cs : i <= j => cs[i] <= cs[j]
  \/ \A i, j \in DOMAIN cs : i <= j => cs[i] >= cs[j]

(* A dataset with the numbers its metadata has; no dimension is empty,     *)
(* coordinates are sorted, and those of a 0..360 axis are on it.           *)
Regular(ds) ==
  /\ ds.shape \in Seq({n \in Nat \ {0} : 2 * n < U64})
  /\ ds.chunk_shape \in Seq(Nat) /\ Len(ds.chunk_shape) = Len(ds.shape)
  /\ ds.scale \in Seq(Int) /\ ds.translation \in Seq(Int)
  /\ \A d \in DOMAIN ds.shape :
       /\ ds.coords[d] \in Seq(Int) /\ Sorted(ds.coords[d])
       /\ d \in ds.lon_0_360_dims => \A i \in DOMAIN ds.coords[d] : ds.coords[d][i] \in 0 .. 359

(* The queries are complete and the sources that can be opened are regular. *)
(* The code relies on both: a window or a pin is a number if it is given,  *)
(* and translate_filter bisects the coordinates.                           *)
ASSUME RequestsAssumption ==
  \A r \in Requests :
    /\ AtMostOneIn(Int, r.query.min) /\ AtMostOneIn(Int, r.query.max)
    /\ AtMostOneIn(Nat, r.query.pin)
    /\ ~OpenError(r.source, r.asset) => Regular(Opened(r.source, r.asset))

(* The values of a tag that occurs once and is read in full.               *)
Doubles(f, tag) ==
  {e.values : e \in {x \in Tagged(f, tag) :
     /\ Tagged(f, tag) = {x} /\ x.typ = "DOUBLE"
     /\ x.at \in Nat /\ x.at + 8 * Len(x.values) <= Buffered(f)}}

(* The bytes read of a georeferenced image hold its affine, as pixel sizes *)
(* and a corner or as a matrix, and those of any other image hold none.    *)
Surveyed(f) ==
  \/ f.geo = {} /\ Tagged(f, "ModelPixelScale") = {} /\ Tagged(f, "ModelTransformation") = {}
  \/ \E g \in f.geo :
       /\ f.geo = {g} /\ {g.north, g.west, g.dy, g.dx} \subseteq Int /\ f.size \in Nat
       /\ g.dy % 2 = 0 /\ g.dx % 2 = 0
       /\ \/ \E s \in Doubles(f, "ModelPixelScale"), t \in Doubles(f, "ModelTiepoint") :
               /\ s \in Seq(Int) /\ Len(s) >= 2 /\ s[1] = g.dx /\ s[2] = g.dy
               /\ t \in Seq(Int) /\ Len(t) >= 6 /\ t[4] = g.west /\ t[5] = g.north
          \/ /\ Tagged(f, "ModelPixelScale") = {}
             /\ \E m \in Doubles(f, "ModelTransformation") :
                  /\ m \in Seq(Int) /\ Len(m) = 16
                  /\ m[1] = g.dx /\ m[4] = g.west /\ m[6] = -g.dy /\ m[8] = g.north

(* A tile of an image: its pixels row by row, a pixel's bands together.     *)
IsTile(f, y, x, samples) ==
  LET meta == parse_cog_metadata(f)
      spp == meta.samples_per_pixel
      size == spp * (meta.tile_length * meta.tile_width)
  IN /\ DOMAIN samples = 1 .. size /\ Len(samples) = size
     /\ \A b \in 0 .. spp - 1, i \in 0 .. meta.tile_length - 1, j \in 0 .. meta.tile_width - 1 :
          LET row == y * meta.tile_length + i
              column == x * meta.tile_width + j
          IN row < meta.image_length /\ column < meta.image_width =>
               samples[(i * meta.tile_width + j) * spp + b + 1] = f.image[<<b, row, column>>]

(* The entry of a tag that occurs once, with n numbers.                    *)
Longs(f, tag, n) ==
  {e \in Tagged(f, tag) :
     /\ Tagged(f, tag) = {e} /\ e.typ = "LONG" /\ e.at \in Nat
     /\ e.values \in Seq(Nat) /\ Len(e.values) = n}

(* The directory that was read lists an offset and a byte count per tile,   *)
(* row by row; at each offset is that tile, or what does not inflate.      *)
Tiled(f) ==
  LET meta == parse_cog_metadata(f)
      down == CeilDiv(meta.image_length, meta.tile_length)
      across == CeilDiv(meta.image_width, meta.tile_width)
  IN /\ {f.size, meta.samples_per_pixel} \subseteq Nat \ {0}
     /\ Longs(f, "TileByteCounts", down * across) # {}
     /\ \E e \in Longs(f, "TileOffsets", down * across) :
          \A y \in 0 .. down - 1, x \in 0 .. across - 1 :
            LET raw == f.tiles[e.values[y * across + x + 1]]
            IN raw = <<>> \/ IsTile(f, y, x, raw)

(* The centre of a row or a column of a georeferenced image; its index if  *)
(* the file has no affine.                                                 *)
Centre(f, name, i) ==
  IF f.geo = {} \/ name = "band" THEN i
  ELSE LET geo == The(f.geo)
       IN IF name \in {"lat", "y"} THEN geo.north - i * geo.dy - geo.dy \div 2
          ELSE geo.west + i * geo.dx + geo.dx \div 2

Files(source) ==
  CASE source.kind = "cog" -> {source.file}
    [] source.kind = "item" -> {source.files[n] : n \in DOMAIN source.files}
    [] source.kind = "stack" ->
         {source.items[k].files[n] : k \in DOMAIN source.items, n \in StackAssets(source)}

(* An image that can be opened is one of surveyed, tiled files; nothing     *)
(* beside it is named like its axes.  A stack is one of files of one band;  *)
(* its axes are short enough to be read back, its longitudes not on 0..360. *)
Pictured(r) ==
  LET src == r.source
  IN /\ IsFiniteSet(StacAssets(src)) /\ \A a, b \in r.asset : a = b
     /\ DOMAIN src.siblings \cap {"band", "lat", "lon", "y", "x"} = {}
     /\ \A f \in Files(src) : Surveyed(f) /\ Tiled(f)
     /\ src.kind = "stack" =>
          /\ Len(src.items) \in Nat \ {0} /\ DOMAIN src.items = 1 .. Len(src.items)
          /\ Len(src.items) < MaxCoordinates
          /\ \A k \in DOMAIN src.items : src.items[k].time \in Int
          /\ \A f \in Files(src) :
               LET meta == parse_cog_metadata(f)
               IN /\ meta.samples_per_pixel = 1
                  /\ meta.image_length < MaxCoordinates /\ meta.image_width < MaxCoordinates
                  /\ meta.epsg = 4326 =>
                       \A i \in 0 .. meta.image_width - 1 : Centre(f, "lon", i) <= 180

(* PlaceTrue and ValuesTrue compare rows with the files, so the files must  *)
(* be true; and the fill value of a plain array is not written like a cell. *)
ASSUME ImagesAssumption ==
  \A r \in Requests :
    LET src == r.source
    IN /\ src.kind \in {"zarr", "cog", "item", "stack"}
       /\ src.kind = "zarr" => src.array.fill_value \notin [DOMAIN src.array.shape -> Nat]
       /\ src.kind # "zarr" /\ ~OpenError(src, r.asset) => Pictured(r)

VARIABLES
  request,      (* the source and the query                                *)
  phase,        (* "bind", "open", "scan", "write", then "done", "refused" *)
                (* with an error, or "failed" by a panic or a read that    *)
                (* cannot be made                                          *)
  dataset,      (* the ZarrDataset                                         *)
  bounds_min, bounds_max,  (* the box, per dimension                       *)
  num_chunks,   (* ZarrChunkStream.num_chunks                              *)
  planned,      (* PlanReadGeoBindData.total_chunks for the same query     *)
  chunk_idx,    (* the next chunk to read                                  *)
  fetched,      (* the grid positions read so far, in order                *)
  lost,         (* those whose tile could not be read                      *)
  buffer,       (* LocalState.current_chunk_buffer, its elements           *)
  subset_info,  (* SubsetInfo of the buffered chunk                        *)
  cursor,       (* LocalState.element_cursor                               *)
  valid_rows,   (* rows in the output vector                               *)
  rows          (* the rows written, each its cell and its columns         *)

chunk == <<fetched, lost, buffer, subset_info>>
box == <<dataset, bounds_min, bounds_max, num_chunks, planned>>
vars == <<request, phase, box, chunk_idx, chunk, cursor, valid_rows, rows>>

source == request.source
query == request.query
Rank == Len(dataset.shape)
AllDims == 1 .. Rank

(* What the query gives for a dimension, by the dimension's name.          *)
Given(values, d) ==
  IF dataset.dim_names[d] \in DOMAIN values THEN values[dataset.dim_names[d]] ELSE {}

ProductAfter(f) == ProductsAfter(f, Rank)

Volume(shape) == ProductAfter(shape)[0]

-----------------------------------------------------------------------------
(* From the window to the box.                                             *)

Ascending(cs) == cs[1] <= cs[Len(cs)]

(* Slice::partition_point over sorted coordinates: how many of them come   *)
(* before v, and how many before or at v; a descending array is counted    *)
(* from its other end.                                                     *)
Below(cs, v) == Cardinality({i \in DOMAIN cs : cs[i] < v})
UpTo(cs, v) == Cardinality({i \in DOMAIN cs : cs[i] <= v})

NoMatches == <<1, 0>>

(* The filters ">=" and "<=" over sorted coordinates, as an index range.   *)
AtLeast(cs, v) ==
  IF Ascending(cs)
  THEN LET idx == Below(cs, v)
       IN IF idx < Len(cs) THEN <<idx, Len(cs) - 1>> ELSE NoMatches
  ELSE LET idx == Len(cs) - Below(cs, v)
       IN IF idx > 0 THEN <<0, idx - 1>> ELSE NoMatches

(* Faulty AtMost: it keeps the first index past the matching prefix.       *)
AtMostInclusive(cs, v) ==
  IF Ascending(cs)
  THEN LET idx == UpTo(cs, v)
       IN IF idx > 0 THEN <<0, idx>> ELSE NoMatches
  ELSE LET idx == Len(cs) - UpTo(cs, v)
       IN IF idx < Len(cs) THEN <<idx, Len(cs) - 1>> ELSE NoMatches

AtMost(cs, v) ==
  IF Ascending(cs)
  THEN LET idx == UpTo(cs, v)
       IN IF idx > 0 THEN <<0, idx - 1>> ELSE NoMatches
  ELSE LET idx == Len(cs) - UpTo(cs, v)
       IN IF idx < Len(cs) THEN <<idx, Len(cs) - 1>> ELSE NoMatches

DenormalizeLongitude(v, is_0_360) == IF is_0_360 /\ v < 0 THEN v + 360 ELSE v
NormalizeLongitude(raw, is_0_360) == IF is_0_360 /\ raw > 180 THEN raw - 360 ELSE raw

(* A range narrowed by one filter on a coordinate array: only the end the  *)
(* filter speaks about moves, whatever the filter's other end says.        *)
NarrowFrom(range, cs, filter, isMin) ==
  IF isMin = Ascending(cs)
  THEN <<Upper(range[1], filter[1]), range[2]>>
  ELSE <<range[1], Lower(range[2], filter[2])>>

CoordBounds(d, whole) ==
  LET cs == dataset.coords[d]
      Value(v) == DenormalizeLongitude(v, d \in dataset.lon_0_360_dims)
      low == IF Given(query.min, d) = {} THEN whole
             ELSE NarrowFrom(whole, cs, AtLeast(cs, Value(The(Given(query.min, d)))), TRUE)
  IN IF Given(query.max, d) = {} THEN low
     ELSE NarrowFrom(low, cs, AtMost(cs, Value(The(Given(query.max, d)))), FALSE)

(* The inverse transform, rounded outwards, converted to i64 (which clamps  *)
(* it) and clamped at index 0.                                             *)
TransformBounds(d, whole) ==
  LET scale == dataset.scale[d]
      offset == apply_transform(dataset, d, 0)
      Outward(v, down) ==
        Lower(U64 \div 2 - 1, Upper(0, IF down THEN FloorDiv(v - offset, scale)
                                       ELSE CeilDiv(v - offset, scale)))
      Low == {Outward(v, scale > 0) : v \in Given(query.min, d)}
      High == {Outward(v, scale < 0) : v \in Given(query.max, d)}
      From == IF scale > 0 THEN Low ELSE High
      To == IF scale > 0 THEN High ELSE Low
  IN <<Max({whole[1]} \cup From), Min({whole[2]} \cup To)>>

HasTransform(d) == d <= Len(dataset.scale) /\ dataset.scale[d] # 0

(* The index range of one dimension.                                       *)
DimBounds(d) ==
  LET whole == <<0, dataset.shape[d] - 1>>
  IN IF Given(query.pin, d) # {}
     THEN LET target == Lower(The(Given(query.pin, d)), whole[2])
          IN <<target, target>>
     ELSE IF dataset.coords[d] # <<>> THEN CoordBounds(d, whole)
     ELSE IF HasTransform(d) THEN TransformBounds(d, whole)
     ELSE whole

-----------------------------------------------------------------------------
(* From the box to chunks.                                                 *)

ChunkMin == [d \in AllDims |-> bounds_min[d] \div dataset.chunk_shape[d]]
ChunkMax == [d \in AllDims |-> bounds_max[d] \div dataset.chunk_shape[d]]

(* Faulty CountChunks: it leaves out the chunk that holds the box's end.   *)
CountChunksExclusive(lo, hi) ==
  Volume([d \in AllDims |->
    Upper(1, hi[d] \div dataset.chunk_shape[d] - lo[d] \div dataset.chunk_shape[d])])

(* ZarrDataset::scan and plan_read_geo count the chunks separately, both   *)
(* with a subtraction that saturates at 0.  The products are taken over    *)
(* the integers: of an array with fewer than 2^64 chunks the plan's, which  *)
(* saturates, and the scan's, which does not, are this number.             *)
CountChunks(lo, hi) ==
  Volume([d \in AllDims |->
    Upper(0, hi[d] \div dataset.chunk_shape[d] - lo[d] \div dataset.chunk_shape[d]) + 1])

PlanChunks(lo, hi) ==
  Volume([d \in AllDims |->
    Upper(0, hi[d] \div dataset.chunk_shape[d] - lo[d] \div dataset.chunk_shape[d]) + 1])

(* Chunks of the box along one dimension, in the width of the code.        *)
DimLen == [d \in AllDims |-> (ChunkMax[d] - ChunkMin[d] + 1) % U64]

(* What is left of a chunk index after the dimensions behind each have      *)
(* divided it.                                                             *)
Quotients(idx) ==
  LET extents == DimLen
      left[d \in 0 .. Rank] == IF d = Rank THEN idx ELSE left[d + 1] \div extents[d + 1]
  IN left

(* Faulty GetChunkPos: positions count from the array's first chunk.       *)
GetChunkPosFromZero(idx) == [d \in AllDims |-> Quotients(idx)[d] % DimLen[d]]

(* GridIterator::get_chunk_pos divides by the extents, the last first.     *)
GetChunkPos(idx) == [d \in AllDims |-> ChunkMin[d] + (Quotients(idx)[d] % DimLen[d])]

(* It panics on an inverted box: by the subtraction, or dividing by 0.     *)
PosPanics ==
  \E d \in AllDims : /\ ChunkMax[d] < ChunkMin[d]
                     /\ OverflowChecks \/ DimLen[d] = 0

(* GridIterator::next: the position after pos, last dimension first.       *)
NextPos(pos) ==
  LET open == {d \in AllDims : pos[d] < ChunkMax[d]}
      i == Max(open)
  IN [d \in AllDims |-> IF d < i THEN pos[d]
                        ELSE IF d = i THEN pos[d] + 1 ELSE ChunkMin[d]]

(* ChunkReader::read_chunk_subset: the part of a chunk inside the box.     *)
SubsetLo(pos) ==
  [d \in AllDims |-> Upper(bounds_min[d], pos[d] * dataset.chunk_shape[d])]
SubsetHi(pos) ==
  [d \in AllDims |-> Lower(bounds_max[d], (pos[d] + 1) * dataset.chunk_shape[d] - 1)]

(* Faulty SubsetShape: the chunk is not cut at the end of the box.         *)
SubsetShapeUncut(pos) ==
  [d \in AllDims |-> Lower(dataset.shape[d], (pos[d] + 1) * dataset.chunk_shape[d]) - SubsetLo(pos)[d]]

SubsetShape(pos) == [d \in AllDims |-> SubsetHi(pos)[d] - SubsetLo(pos)[d] + 1]

Strides(shape) == [d \in AllDims |-> ProductAfter(shape)[d]]

(* A subset that ends before it starts: the subtraction panics, or wraps   *)
(* to a size the array library refuses, unless it wraps to exactly 0.      *)
SubsetFails(pos) ==
  \E d \in AllDims : /\ SubsetHi(pos)[d] < SubsetLo(pos)[d]
                     /\ OverflowChecks \/ SubsetShape(pos)[d] < 0

(* SubsetInfo::global_coord, and the order the array library returns the   *)
(* elements of a subset in: row-major.                                     *)
GlobalCoord(info, d, k) ==
  info.global_starts[d] + ((k \div info.strides[d]) % info.shape[d])

(* The place of element k of a subset in its chunk: the sum of its offsets  *)
(* times the strides of the chunk, multiplied out dimension by dimension.  *)
InChunk(pos, info, k) ==
  LET cs == dataset.chunk_shape
      place[d \in 0 .. Rank] ==
        IF d = 0 THEN 0
        ELSE place[d - 1] * cs[d] + (GlobalCoord(info, d, k) - pos[d] * cs[d])
  IN 1 + place[Rank]

Info(pos) ==
  [global_starts |-> SubsetLo(pos), shape |-> SubsetShape(pos),
   strides |-> Strides(SubsetShape(pos))]

(* A whole chunk must have its size; of a part, the byte ranges must exist. *)
DecodeFails(pos, samples) ==
  IF SubsetShape(pos) = dataset.chunk_shape
  THEN Len(samples) # Volume(dataset.chunk_shape)
  ELSE \E k \in 0 .. Volume(SubsetShape(pos)) - 1 : InChunk(pos, Info(pos), k) > Len(samples)

(* The elements retrieve_chunk_subset_elements returns: of an absent chunk, *)
(* fill values.                                                            *)
Elements(pos, present) ==
  LET samples == ChunkSamples(source, request.asset, pos)
  IN [k \in 1 .. Volume(SubsetShape(pos)) |->
        IF present THEN samples[InChunk(pos, Info(pos), k - 1)] ELSE dataset.fill_value]

-----------------------------------------------------------------------------
(* From a chunk to rows.                                                   *)

(* A cell that holds the fill value is NULL.                               *)
Null == <<>>
Value(element) == IF element = dataset.fill_value THEN Null ELSE element

(* The coordinate a row shows for index i of dimension d.                  *)
Coordinate(d, i) ==
  IF dataset.coords[d] # <<>>
  THEN NormalizeLongitude(dataset.coords[d][i + 1], d \in dataset.lon_0_360_dims)
  ELSE IF d <= Len(dataset.scale) THEN apply_transform(dataset, d, i)
  ELSE i

(* populate_coordinate_batch: the column of n rows from position pos on,   *)
(* filled run by run; a run ends with its stride or with the batch. *)
PopulateBatch(info, d, pos, n) ==
  LET stride == info.strides[d]
      shape == info.shape[d]
      fill[at \in (0 .. n) \X (0 .. shape - 1) \X (0 .. stride - 1)] ==
        LET left == at[1]
            current_mod == at[2]
            step == at[3]
            count == Lower(stride - step, left)
            full == step + count = stride
        IN IF left = 0 THEN <<>>
           ELSE [i \in 1 .. count |-> Coordinate(d, info.global_starts[d] + current_mod)]
                \o fill[<<left - count,
                          IF full THEN (current_mod + 1) % shape ELSE current_mod,
                          IF full THEN 0 ELSE step + count>>]
  IN fill[<<n, (pos \div stride) % shape, pos % stride>>]

(* A zero-sized subset has no first run: the fill divides by 0.            *)
PopulatePanics(info) ==
  \E d \in query.projected \cap AllDims : info.shape[d] = 0 \/ info.strides[d] = 0

-----------------------------------------------------------------------------
NoSubset == [global_starts |-> <<>>, shape |-> <<>>, strides |-> <<>>]
NoDataset == [shape |-> <<>>]

Init ==
  /\ request \in Requests
  /\ phase = "bind"
  /\ dataset = NoDataset
  /\ bounds_min = <<>> /\ bounds_max = <<>>
  /\ num_chunks = 0 /\ planned = 0
  /\ chunk_idx = 0
  /\ fetched = <<>> /\ lost = {}
  /\ buffer = <<>> /\ subset_info = NoSubset
  /\ cursor = 0 /\ valid_rows = 0
  /\ rows = <<>>

(* A STAC API is asked about a bounded window that is not too large.       *)
SearchRefused ==
  LET Ends(name) == {<<lo, hi>> : lo \in query.min[name], hi \in query.max[name]}
  IN request.search /\ ~\E a \in Ends("lat"), b \in Ends("lon") :
       LET area == (b[2] - b[1]) * (a[2] - a[1])
       IN area <= MaxSearchArea /\ -area <= MaxSearchArea

CanOpen == ~SearchRefused /\ ~OpenError(source, request.asset)

(* open_dataset in ReadGeoVTab::bind.                                      *)
Open ==
  /\ phase = "bind" /\ CanOpen
  /\ dataset' = Opened(source, request.asset)
  /\ phase' = "open"
  /\ UNCHANGED <<request, bounds_min, bounds_max, num_chunks, planned, chunk_idx, chunk,
                 cursor, valid_rows, rows>>

OpenFails ==
  /\ phase = "bind" /\ ~CanOpen
  /\ phase' = "refused"
  /\ UNCHANGED <<request, box, chunk_idx, chunk, cursor, valid_rows, rows>>

(* The rest of bind, and plan_read_geo's for the same arguments.           *)
Bind ==
  /\ phase = "open"
  /\ bounds_min' = [d \in AllDims |-> DimBounds(d)[1]]
  /\ bounds_max' = [d \in AllDims |-> DimBounds(d)[2]]
  /\ num_chunks' = CountChunks(bounds_min', bounds_max')
  /\ planned' = PlanChunks(bounds_min', bounds_max')
  /\ phase' = "scan"
  /\ UNCHANGED <<request, dataset, chunk_idx, chunk, cursor, valid_rows, rows>>

Pos == GetChunkPos(chunk_idx)
Present == ChunkPresent(source, request.asset, Pos)
Corrupt == Present /\ ChunkCorrupt(source, request.asset, Pos)

(* read_chunk does not panic, and asks for a subset there can be.          *)
Possible ==
  /\ ~PosPanics /\ ~SubsetFails(Pos)
  /\ ~(Present /\ ChunkPanics(source, request.asset, Pos))
  /\ Present /\ ~Corrupt => ~DecodeFails(Pos, ChunkSamples(source, request.asset, Pos))

(* read_chunk(chunk_idx) succeeds and its elements are buffered.  A tile    *)
(* that cannot be read (~got) is reported as absent.                       *)
ReadChunk(got) ==
  /\ phase = "scan" /\ chunk_idx < num_chunks
  /\ Possible
  /\ got => ~Corrupt
  /\ ~got => source.kind # "zarr" /\ Present
  /\ fetched' = Append(fetched, Pos)
  /\ lost' = IF got THEN lost ELSE lost \cup {Pos}
  /\ buffer' = Elements(Pos, got /\ Present)
  /\ subset_info' = Info(Pos)
  /\ chunk_idx' = chunk_idx + 1
  /\ cursor' = 0
  /\ phase' = "write"
  /\ UNCHANGED <<request, box, valid_rows, rows>>

(* read_chunk returns an error: the store of a plain array fails, or a     *)
(* tile cannot be decoded.                                                 *)
ReadRefused ==
  /\ phase = "scan" /\ chunk_idx < num_chunks
  /\ Possible /\ (source.kind = "zarr" \/ Corrupt)
  /\ phase' = "refused"
  /\ UNCHANGED <<request, box, chunk_idx, chunk, cursor, valid_rows, rows>>

ReadFails ==
  /\ phase = "scan" /\ chunk_idx < num_chunks
  /\ ~Possible
  /\ phase' = "failed"
  /\ UNCHANGED <<request, box, chunk_idx, chunk, cursor, valid_rows, rows>>

(* One turn of write_chunk_unified; a full vector goes to the engine.      *)
WriteBatch ==
  /\ phase = "write" /\ ~PopulatePanics(subset_info)
  /\ LET n == Lower(Len(buffer) - cursor, VectorSize - valid_rows)
         dims == query.projected \cap AllDims
         column == [d \in dims |-> PopulateBatch(subset_info, d, cursor, n)]
     IN /\ rows' = rows \o [i \in 1 .. n |->
              [cell |-> [d \in AllDims |-> GlobalCoord(subset_info, d, cursor + i - 1)],
               columns |-> [d \in dims |-> column[d][i]],
               value |-> IF Rank + 1 \in query.projected THEN {Value(buffer[cursor + i])}
                         ELSE {}]]
        /\ cursor' = cursor + n
        /\ valid_rows' = IF valid_rows + n >= VectorSize THEN 0 ELSE valid_rows + n
        /\ phase' = IF cursor + n >= Len(buffer) THEN "scan" ELSE "write"
  /\ UNCHANGED <<request, box, chunk_idx, chunk>>

WriteFails ==
  /\ phase = "write" /\ PopulatePanics(subset_info)
  /\ phase' = "failed"
  /\ UNCHANGED <<request, box, chunk_idx, chunk, cursor, valid_rows, rows>>

(* read_chunk returns None.                                                *)
EndOfStream ==
  /\ phase = "scan" /\ chunk_idx >= num_chunks
  /\ phase' = "done"
  /\ UNCHANGED <<request, box, chunk_idx, chunk, cursor, valid_rows, rows>>

Answered == phase \in {"done", "refused", "failed"} /\ UNCHANGED vars

Next ==
  \/ Open \/ OpenFails \/ Bind
  \/ \E got \in BOOLEAN : ReadChunk(got)
  \/ ReadRefused \/ ReadFails \/ WriteBatch \/ WriteFails \/ EndOfStream
  \/ Answered

Spec == Init /\ [][Next]_vars

-----------------------------------------------------------------------------
(* Properties                                                              *)

IsOpen == phase # "bind" /\ dataset # NoDataset
IsBound == bounds_min # <<>>

TypeOK ==
  /\ phase \in {"bind", "open", "scan", "write", "done", "refused", "failed"}
  /\ \A d \in AllDims :
       /\ dataset.shape[d] \in Nat \ {0} /\ 2 * dataset.shape[d] < U64
       /\ dataset.chunk_shape[d] \in Nat \ {0}
       /\ Len(dataset.coords[d]) \in {0, dataset.shape[d]}
       /\ IsBound => /\ bounds_min[d] \in 0 .. U64 - 1
                     /\ bounds_max[d] \in 0 .. dataset.shape[d] - 1
  /\ num_chunks \in Nat /\ chunk_idx \in 0 .. num_chunks
  /\ Len(fetched) = chunk_idx /\ lost \subseteq ToSet(fetched)
  /\ phase = "write" => cursor < Len(buffer) \/ Len(buffer) = 0
  /\ valid_rows \in 0 .. VectorSize - 1

(* The indices of a dimension the query asks for.                          *)
Wanted(d) ==
  IF Given(query.pin, d) # {}
  THEN {Lower(p, dataset.shape[d] - 1) : p \in Given(query.pin, d)}
  ELSE IF dataset.coords[d] # <<>> \/ HasTransform(d)
  THEN {i \in 0 .. dataset.shape[d] - 1 :
          /\ \A v \in Given(query.min, d) : Coordinate(d, i) >= v
          /\ \A v \in Given(query.max, d) : Coordinate(d, i) <= v}
  ELSE 0 .. dataset.shape[d] - 1

(* On a 0..360 axis: both ends given, in -180..180 as the rows show them,   *)
(* and on one side of the prime meridian.                                  *)
OneHemisphere(d) ==
  LET ends == Given(query.min, d) \cup Given(query.max, d)
  IN \/ d \notin dataset.lon_0_360_dims \/ ends = {}
     \/ /\ Given(query.min, d) # {} /\ Given(query.max, d) # {}
        /\ ends \subseteq 0 .. 180 \/ ends \subseteq -179 .. -1

Answerable == IsOpen /\ \A d \in AllDims : OneHemisphere(d) /\ Wanted(d) # {}

Box(d) == bounds_min[d] .. bounds_max[d]

(* A window that holds some cell becomes exactly the index range of its    *)
(* cells on a coordinate array, ascending or descending, and a range at    *)
(* most one index wider on each side on a transformed axis.                *)
BoundsExact ==
  (IsBound /\ Answerable) =>
    \A d \in AllDims :
      /\ Wanted(d) \subseteq Box(d)
      /\ dataset.coords[d] # <<>> \/ ~HasTransform(d) => Box(d) = Wanted(d)
      /\ \A i \in Box(d) : \E j \in Wanted(d) : i - j \in -1 .. 1

(* Every cell of the box is returned once: chunks that straddle the box,   *)
(* ragged last chunks and vectors that end inside a chunk lose and repeat  *)
(* none.                                                                   *)
CellsOnce ==
  (phase = "done" /\ Answerable) =>
    /\ \A i, j \in DOMAIN rows : rows[i].cell = rows[j].cell => i = j
    /\ {rows[i].cell : i \in DOMAIN rows} =
         {cell \in [AllDims -> UNION {Box(d) : d \in AllDims}] :
            \A d \in AllDims : cell[d] \in Box(d)}

(* plan_read_geo foretells the chunks the same query fetches; they are     *)
(* distinct and come in the order GridIterator::next enumerates them.      *)
PlanExact ==
  Answerable =>
    /\ phase = "done" => Len(fetched) = planned
    /\ \A i \in 2 .. Len(fetched) : fetched[i] = NextPos(fetched[i - 1])

(* The file that a row of time t comes from.                               *)
Depicted(cell, t) ==
  CASE source.kind = "cog" -> {source.file}
    [] source.kind = "item" -> {source.files[n] : n \in SelectedAssets(source, request.asset)}
    [] source.kind = "stack" ->
         {source.items[k].files[n] :
            k \in {j \in DOMAIN source.items : source.items[j].time = t},
            n \in SelectedAssets(source, request.asset)}

(* A query that matches some cell never overflows, divides by 0, asks the  *)
(* array library for an impossible subset or gets a tile of another size.  *)
(* It does panic at a tile whose offset is among the bytes read of the      *)
(* file, but whose byte count is not.                                      *)
LengthUnread ==
  source.kind # "zarr" /\ Present /\ \E f \in Depicted(Pos, Coordinate(1, Pos[1])) :
    LET n == FlatIdx(parse_cog_metadata(f), SubSeq(Pos, Rank - 1, Rank))
    IN \E e \in Tagged(f, "TileByteCounts") : Len(e.values) > 1 /\ e.at + 4 * (n + 1) > Buffered(f)

MatchingNeverFails == phase = "failed" => ~Answerable \/ LengthUnread

-----------------------------------------------------------------------------
(* What a row shows, compared with the source itself.                      *)

ChunkOf(cell) == [d \in AllDims |-> cell[d] \div dataset.chunk_shape[d]]

(* The pixel of a cell in its file.                                        *)
Pixel(f, cell) ==
  LET yx == SubSeq(cell, Rank - 1, Rank)
  IN f.image[IF source.kind # "stack" /\ Rank = 3 THEN cell ELSE <<0>> \o yx]

(* The tile's offset is among the bytes read of the file.                  *)
OffsetRead(f, cell) ==
  \E e \in Tagged(f, "TileOffsets") :
    \/ Len(e.values) = 1
    \/ e.at + 4 * (1 + FlatIdx(parse_cog_metadata(f), SubSeq(ChunkOf(cell), Rank - 1, Rank)))
         <= Buffered(f)

(* The sample that an image shows as NULL: the nodata value of its file; 0, *)
(* a sample like any other, if the header read holds none; and of a stack   *)
(* what it is for its first item, also in the slices of items whose files   *)
(* have another one.                                                       *)
NullSample ==
  LET name == The(SelectedAssets(source, request.asset))
      f == CASE source.kind = "cog" -> source.file
             [] source.kind = "item" -> source.files[name]
             [] source.kind = "stack" -> SortedItems(source)[1].files[name]
  IN IF Nodata(f) = {} THEN <<0>> ELSE The(Nodata(f))

(* Through tiles, bands, assets and time slices, the value of a row is     *)
(* that of its cell in the file it comes from, in the time slice whose     *)
(* time the row shows.  NULL stands for exactly these cells: of an image,   *)
(* those with the NullSample, which may be a genuine 0 or another item's    *)
(* nodata, those of a tile that could not be read and those of a tile that  *)
(* the header read does not reach; of a plain array, those that hold its    *)
(* fill value and those of an absent chunk.                                *)
ValuesTrue ==
  \A i \in DOMAIN rows : \A v \in rows[i].value :
    LET cell == rows[i].cell
        Missing(f) == ChunkOf(cell) \in lost \/ ~OffsetRead(f, cell)
                      \/ Pixel(f, cell) = NullSample
    IN IF source.kind = "zarr"
       THEN v = IF ChunkOf(cell) \in source.absent \/ cell \in source.filled THEN Null ELSE cell
       ELSE \E f \in Depicted(cell, Coordinate(1, cell[1])) :
              v = IF Missing(f) THEN Null ELSE Pixel(f, cell)

(* A row of an image shows the centre of the pixel it has the value of, in *)
(* every dimension, wherever its batch and its chunk begin; a row of a     *)
(* plain array shows the coordinates of its cell.                          *)
PlaceTrue ==
  \A i \in DOMAIN rows : \A d \in query.projected \cap AllDims :
    LET cell == rows[i].cell
        name == dataset.dim_names[d]
    IN IF source.kind = "zarr" \/ name = "time"
       THEN rows[i].columns[d] = Coordinate(d, cell[d])
       ELSE \A f \in Depicted(cell, Coordinate(1, cell[1])) :
              rows[i].columns[d] = Centre(f, name, cell[d])

-----------------------------------------------------------------------------
(* What the docs say.                                                      *)

(* The chunks that hold a cell of the window.                              *)
Intersecting ==
  {ChunkOf(cell) : cell \in {c \in [AllDims -> UNION {Wanted(d) : d \in AllDims}] :
                               \A d \in AllDims : c[d] \in Wanted(d)}}

(* docs: a chunk that intersects the window is fetched and decoded, and a  *)
(* chunk outside it is never enumerated.                                   *)
IntersectingFetched ==
  phase \in {"done", "failed"} => ToSet(fetched) = Intersecting

=============================================================================
