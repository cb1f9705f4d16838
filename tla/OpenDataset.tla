----------------------------- MODULE OpenDataset -----------------------------
(***************************************************************************)
(* ZarrDataset::open_with_asset: the array a source holds, its dimension    *)
(* names, coordinates and transform, and the bytes the array library gets   *)
(* for a chunk of it.  A source is one of                                   *)
(*   "zarr"   an array, with the coordinate arrays stored in it (own) and   *)
(*            beside it (siblings), the chunks that are absent, and the      *)
(*            cells that are filled: they hold the array's fill value        *)
(*   "cog"    a GeoTIFF file, and the siblings of its directory             *)
(*   "item"   a STAC item: a file per asset                                 *)
(*   "stack"  a collection of them: items with a time and a file per asset  *)
(* How the last two are found and fetched is StacSearch.  An array opens    *)
(* unless the array library refuses its metadata; its element_bytes are 0  *)
(* if it holds strings.                                                    *)
(***************************************************************************)
EXTENDS CogFile, SequencesExt

CONSTANTS
  MaxChunkBytes,   (* 256 MiB in the code                                  *)
  MaxStrings,      (* in a chunk of strings: 1000000 in the code           *)
  MaxCoordinates   (* a coordinate array is shorter: 1000000 in the code   *)

ASSUME OpenAssumption == {MaxChunkBytes, MaxStrings, MaxCoordinates} \subseteq Nat

(* Any value of a set that has one or is empty.                            *)
The(S) == CHOOSE v \in S : TRUE

-----------------------------------------------------------------------------
(* A collection as one array per asset: build_time_stack.                  *)

(* sorted_features_by_datetime: the k-th item has k - 1 items before it.   *)
SortedItems(source) ==
  LET Before(i, j) == \/ source.items[i].time < source.items[j].time
                      \/ source.items[i].time = source.items[j].time /\ i < j
  IN [k \in DOMAIN source.items |->
        source.items[CHOOSE i \in DOMAIN source.items :
          Cardinality({j \in DOMAIN source.items : Before(j, i)}) = k - 1]]

StackAssets(source) == DOMAIN SortedItems(source)[1].files

StackMetas(source) ==
  {parse_cog_metadata(source.items[k].files[name]) :
     k \in DOMAIN source.items, name \in StackAssets(source)}

(* What validate_grid_uniform compares.                                    *)
GridOf(meta) ==
  <<meta.image_width, meta.image_length, meta.tile_width, meta.tile_length,
    meta.epsg, spatial_transform(meta), zarr_dtype(meta)>>

apply_transform(transform, d, i) ==
  (IF d <= Len(transform.translation) THEN transform.translation[d] ELSE 0)
  + i * (IF d <= Len(transform.scale) THEN transform.scale[d] ELSE 1)

(* VirtualStacTimeStack::new: an array over the first item's, one time a   *)
(* chunk, and the coordinate arrays beside it.                             *)
StackArray(source, name) ==
  LET meta == parse_cog_metadata(SortedItems(source)[1].files[name])
      child == CogArray(meta)
  IN [child EXCEPT
        !.shape = <<Len(source.items), meta.image_length, meta.image_width>>,
        !.chunk_shape = <<1, child.chunk_shape[1], child.chunk_shape[2]>>,
        !.array_dimensions = <<"time">> \o cog_dim_names(meta),
        !.geozarr = {}]

CoordinateArray(values) ==
  [rank |-> 1, data_type |-> "f8", readable |-> TRUE, values |-> values]

StackCoordinates(source) ==
  LET items == SortedItems(source)
      meta == parse_cog_metadata(The({items[1].files[n] : n \in StackAssets(source)}))
      names == <<"time">> \o cog_dim_names(meta)
      Axis(d, n) == [i \in 1 .. n |-> apply_transform(spatial_transform(meta), d, i - 1)]
      axes == <<[k \in DOMAIN items |-> items[k].time],
                Axis(1, meta.image_length), Axis(2, meta.image_width)>>
  IN [n \in ToSet(names) |-> CoordinateArray(axes[The({d \in 1 .. 3 : names[d] = n})])]

-----------------------------------------------------------------------------
(* The store of a source.                                                  *)

StacAssets(source) ==
  CASE source.kind = "item" -> DOMAIN source.files
    [] source.kind = "stack" -> StackAssets(source)
    [] OTHER -> {}

(* resolve_sync_store: every header must parse and be decodable, and the   *)
(* grids of a stack agree; a source without a COG is refused.              *)
ResolveError(source) ==
  LET Bad(f) == ParseError(f) \/ DtypeError(parse_cog_metadata(f))
  IN CASE source.kind = "zarr" -> FALSE
       [] source.kind = "cog" -> Bad(source.file)
       [] source.kind = "item" ->
            DOMAIN source.files = {} \/ \E n \in DOMAIN source.files : Bad(source.files[n])
       [] source.kind = "stack" ->
            \/ StackAssets(source) = {}
            \/ \E k \in DOMAIN source.items : \E n \in StackAssets(source) :
                 n \notin DOMAIN source.items[k].files \/ Bad(source.items[k].files[n])
            \/ \E m1, m2 \in StackMetas(source) : GridOf(m1) # GridOf(m2)

(* select_asset_path: the asset asked for, or the only one.                *)
SelectedAssets(source, asset) ==
  IF asset = {} /\ Cardinality(StacAssets(source)) > 1 THEN {}
  ELSE IF asset = {} THEN StacAssets(source)
  ELSE asset \cap StacAssets(source)

ArrayOf(source, name) ==
  CASE source.kind = "zarr" -> source.array
    [] source.kind = "cog" -> CogArray(parse_cog_metadata(source.file))
    [] source.kind = "item" -> CogArray(parse_cog_metadata(source.files[name]))
    [] source.kind = "stack" -> StackArray(source, name)

OwnCoordinates(source) ==
  CASE source.kind = "zarr" -> source.own
    [] source.kind = "stack" -> StackCoordinates(source)
    [] OTHER -> <<>>

-----------------------------------------------------------------------------
(* From the array to a dataset.                                            *)

DimI == <<"dim_0", "dim_1", "dim_2", "dim_3">>

(* resolve_dimension_names: the first list of the right length that names  *)
(* every dimension; "" stands for a name that is null or no string.        *)
DimNames(array) ==
  LET Names(list) == Len(list) = Len(array.shape) /\ "" \notin ToSet(list)
  IN IF Names(array.dimension_names) THEN array.dimension_names
     ELSE IF Names(array.array_dimensions) THEN array.array_dimensions
     ELSE [d \in DOMAIN array.shape |-> DimI[d]]

(* Faulty Readable: the length is not compared with the dimension's.       *)
ReadableAnyLength(arrays, name, n) ==
  name \in DOMAIN arrays /\ arrays[name].rank = 1 /\ arrays[name].readable

(* CoordinateResolver: an array that can give the coordinates of a         *)
(* dimension of length n.                                                  *)
Readable(arrays, name, n) ==
  /\ name \in DOMAIN arrays
  /\ arrays[name].rank = 1 /\ Len(arrays[name].values) < MaxCoordinates
  /\ arrays[name].data_type \in {"f8", "f4", "i8", "i4"}
  /\ arrays[name].readable
  /\ Len(arrays[name].values) = n

(* The store's own arrays, then those of the parent path; or none, <<>>.   *)
Coordinates(source, name, n) ==
  IF Readable(OwnCoordinates(source), name, n) THEN OwnCoordinates(source)[name].values
  ELSE IF Readable(source.siblings, name, n) THEN source.siblings[name].values
  ELSE <<>>

Is0To360(name, values) ==
  name \in {"lon", "longitude"} /\ \E i \in DOMAIN values : values[i] > 180

(* DatasetValidator::validate_chunk_sizes.                                 *)
ChunkError(array) ==
  LET volume == FoldLeft(LAMBDA p, n : p * n, 1, array.chunk_shape)
  IN \/ 0 \in ToSet(array.chunk_shape)
     \/ array.element_bytes = 0 /\ volume > MaxStrings
     \/ volume * array.element_bytes > MaxChunkBytes

OpenError(source, asset) ==
  \/ ResolveError(source)
  \/ StacAssets(source) # {} /\ SelectedAssets(source, asset) = {}
  \/ LET array == ArrayOf(source, The(SelectedAssets(source, asset)))
     IN ~array.opens \/ Len(array.shape) > 16 \/ ChunkError(array)

(* The fields of ZarrDataset; coords by dimension, <<>> where there are    *)
(* none, and an empty scale for a dataset without spatial_transform.       *)
Opened(source, asset) ==
  LET array == ArrayOf(source, The(SelectedAssets(source, asset)))
      names == DimNames(array)
      dims == DOMAIN array.shape
      coords == [d \in dims |-> Coordinates(source, names[d], array.shape[d])]
      transform == IF array.geozarr = {} THEN NoTransform ELSE The(array.geozarr)
  IN [shape |-> array.shape,
      chunk_shape |-> array.chunk_shape,
      dim_names |-> names,
      coords |-> coords,
      lon_0_360_dims |-> {d \in dims : Is0To360(names[d], coords[d])},
      scale |-> transform.scale,
      translation |-> transform.translation,
      fill_value |-> array.fill_value]

-----------------------------------------------------------------------------
(* The chunks.                                                             *)

(* The file and the key a chunk's get ends at: VirtualStacStore and        *)
(* VirtualStacTimeStack pass it on to a COG.                               *)
FileOf(source, asset, key) ==
  LET name == The(SelectedAssets(source, asset))
  IN CASE source.kind = "cog" -> source.file
       [] source.kind = "item" -> source.files[name]
       [] source.kind = "stack" -> SortedItems(source)[key[1] + 1].files[name]

FileKey(source, key) == IF source.kind = "stack" THEN Tail(key) ELSE key

ChunkPresent(source, asset, key) ==
  IF source.kind = "zarr" THEN key \notin source.absent
  ELSE HasTile(parse_cog_metadata(FileOf(source, asset, key)), FileKey(source, key))

ChunkPanics(source, asset, key) ==
  /\ source.kind # "zarr"
  /\ TilePanics(parse_cog_metadata(FileOf(source, asset, key)), FileKey(source, key))

ChunkCorrupt(source, asset, key) ==
  /\ source.kind # "zarr"
  /\ LET f == FileOf(source, asset, key)
     IN TileError(f, parse_cog_metadata(f), FileKey(source, key))

(* The products of f over the dimensions after each; after "0", over all.  *)
ProductsAfter(f, rank) ==
  LET after[d \in 0 .. rank] == IF d = rank THEN 1 ELSE f[d + 1] * after[d + 1]
  IN after

(* The elements of a present chunk, row-major.  An element of a plain       *)
(* array is written as its cell, unless it is filled.                      *)
ChunkSamples(source, asset, key) ==
  IF source.kind = "zarr"
  THEN LET cs == source.array.chunk_shape
           after == ProductsAfter(cs, Len(cs))
           Cell(k) == [d \in DOMAIN cs |-> (key[d] * cs[d]) + (((k - 1) \div after[d]) % cs[d])]
       IN [k \in 1 .. after[0] |->
             IF Cell(k) \in source.filled THEN source.array.fill_value ELSE Cell(k)]
  ELSE LET f == FileOf(source, asset, key)
       IN TileSamples(f, parse_cog_metadata(f), FileKey(source, key))

=============================================================================
