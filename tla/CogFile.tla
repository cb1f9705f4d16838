------------------------------- MODULE CogFile -------------------------------
(***************************************************************************)
(* A Cloud Optimized GeoTIFF as a Zarr array: what parse_cog_metadata finds *)
(* in the first bytes of the file, and the array and the chunks that        *)
(* VirtualCogStore makes of it.                                            *)
(*                                                                         *)
(* A file: its size; byte_order and magic; ifd, the offset of its image     *)
(* directory; entries, the directory; and tiles, from a byte offset to the  *)
(* samples stored there, or <<>> for bytes that do not inflate.  An entry:  *)
(* its tag, by name and at most once per file; its typ; its values; and at, *)
(* where they are stored if they do not fit into the entry.  Coordinates    *)
(* are integers and pixel sizes even, so that centres are integers.  A      *)
(* sample is a tuple, and so is a nodata value; zero is <<0>>.              *)
(***************************************************************************)
EXTENDS Integers, Sequences, FiniteSets, FiniteSetsExt

CONSTANT
  HeaderWindow     (* bytes read to open a file: 16384 in the code         *)

ASSUME HeaderAssumption == HeaderWindow \in Nat

Lower(a, b) == IF a <= b THEN a ELSE b
Upper(a, b) == IF a >= b THEN a ELSE b
FloorDiv(a, b) == IF b > 0 THEN a \div b ELSE (-a) \div (-b)
CeilDiv(a, b) == -FloorDiv(-a, b)

NoTransform == [scale |-> <<>>, translation |-> <<>>]

-----------------------------------------------------------------------------
(* parse_cog_metadata.                                                     *)

Buffered(f) == Lower(f.size, HeaderWindow)

Width(typ) == CASE typ = "ASCII" -> 1 [] typ = "SHORT" -> 2
                [] typ = "LONG" -> 4 [] typ = "DOUBLE" -> 8

InEntry(e) == Len(e.values) * Width(e.typ) <= 4

(* No TIFF header, or a directory that starts past the bytes read.         *)
ParseError(f) ==
  \/ Buffered(f) < 8
  \/ f.byte_order \notin {"II", "MM"} \/ f.magic \notin {42, 43}
  \/ f.ifd + 2 > Buffered(f)

(* The entry with a tag, if the bytes read hold it and those before it.    *)
Tagged(f, tag) ==
  {f.entries[k] : k \in {j \in DOMAIN f.entries :
     f.entries[j].tag = tag /\ f.ifd + 2 + 12 * j <= Buffered(f)}}

(* extract_single_val reads the entry's value field, which holds an offset *)
(* if the values are elsewhere; of a SHORT, the first two of its bytes.     *)
SingleVal(f, e) ==
  IF InEntry(e) THEN e.values[1]
  ELSE IF e.typ # "SHORT" THEN e.at
  ELSE IF f.byte_order = "II" THEN e.at % 65536 ELSE e.at \div 65536

(* A tag that is absent, or 0, has its default value.                      *)
TagVal(f, tag, default) ==
  LET found == {SingleVal(f, e) : e \in Tagged(f, tag)} \ {0}
  IN IF found = {} THEN default ELSE CHOOSE v \in found : TRUE

(* extract_array and its kin: the values at the entry's offset, as long as *)
(* need bytes of the next one were read.  Two SHORTs stored in the entry    *)
(* make an offset past the window, the second of them not being 0.         *)
ArrayVal(f, tag, need) ==
  LET Kept(e) == IF InEntry(e) THEN <<>>
                 ELSE SubSeq(e.values, 1, Cardinality({k \in DOMAIN e.values :
                        e.at + (k - 1) * Width(e.typ) + need <= Buffered(f)}))
  IN IF Tagged(f, tag) = {} THEN <<>>
     ELSE Kept(CHOOSE e \in Tagged(f, tag) : TRUE)

(* Offsets and byte counts of the tiles; a single one is in the entry.     *)
TileVals(f, tag) ==
  IF \E e \in Tagged(f, tag) : Len(e.values) = 1
  THEN <<SingleVal(f, CHOOSE e \in Tagged(f, tag) : TRUE)>>
  ELSE ArrayVal(f, tag, 4)

(* The last of the two geographic keys that is stored in the directory.    *)
Epsg(f) ==
  LET keys == ArrayVal(f, "GeoKeyDirectory", 2)
      hits == {i \in DOMAIN keys : /\ i >= 5 /\ i % 4 = 1 /\ i + 3 <= Len(keys)
                                   /\ keys[i] \in {3072, 2048} /\ keys[i + 1] = 0}
  IN IF hits = {} THEN 0 ELSE keys[Max(hits) + 3]

(* GDAL_NODATA, a text; it is stored with the number it denotes, if any.   *)
Nodata(f) ==
  UNION {IF InEntry(e) \/ e.at + Len(e.values) <= Buffered(f) THEN e.number ELSE {} :
           e \in Tagged(f, "GDAL_NODATA")}

parse_cog_metadata(f) ==
  [image_width |-> TagVal(f, "ImageWidth", 0),
   image_length |-> TagVal(f, "ImageLength", 0),
   tile_width |-> TagVal(f, "TileWidth", 0),
   tile_length |-> TagVal(f, "TileLength", 0),
   tile_offsets |-> TileVals(f, "TileOffsets"),
   tile_byte_counts |-> TileVals(f, "TileByteCounts"),
   is_little_endian |-> f.byte_order = "II",
   bits_per_sample |-> TagVal(f, "BitsPerSample", 32),
   sample_format |-> TagVal(f, "SampleFormat", 1),
   samples_per_pixel |-> TagVal(f, "SamplesPerPixel", 1),
   compression |-> TagVal(f, "Compression", 1),
   planar_configuration |-> TagVal(f, "PlanarConfiguration", 1),
   predictor |-> TagVal(f, "Predictor", 1),
   nodata |-> Nodata(f),
   pixel_scale |-> ArrayVal(f, "ModelPixelScale", 8),
   tiepoint |-> ArrayVal(f, "ModelTiepoint", 8),
   model_transformation |-> ArrayVal(f, "ModelTransformation", 8),
   epsg |-> Epsg(f)]

-----------------------------------------------------------------------------
(* CogMetadata.                                                            *)

(* zarr_dtype and compression_kind refuse what the reader cannot decode.   *)
DtypeError(meta) ==
  \/ meta.sample_format \notin {1, 2, 3}
  \/ meta.bits_per_sample \notin {8, 16, 32, 64}
  \/ meta.sample_format = 3 /\ meta.bits_per_sample < 32
  \/ meta.samples_per_pixel > 1 /\ meta.planar_configuration = 2
  \/ meta.compression \notin {1, 8, 32946}
  \/ meta.predictor # 1

(* The array library refuses a fill value that the data type cannot hold.   *)
(* Numbers are below 2^31 here, which any type of 32 or 64 bits holds.      *)
FillFits(meta) ==
  LET bits == meta.bits_per_sample
      Fitting == IF meta.sample_format = 1 THEN 0 .. 2 ^ bits - 1
                 ELSE -(2 ^ (bits - 1)) .. 2 ^ (bits - 1) - 1
  IN \/ meta.sample_format = 3
     \/ \A v \in meta.nodata : /\ meta.sample_format = 1 => v[1] >= 0
                               /\ bits < 32 => v[1] \in Fitting

zarr_dtype(meta) ==
  <<IF meta.bits_per_sample <= 8 THEN "any" ELSE IF meta.is_little_endian THEN "II" ELSE "MM",
    meta.sample_format, meta.bits_per_sample>>

(* Faulty spatial_transform: the tie point is taken for a pixel's centre.  *)
CornerTransform(meta) ==
  IF Len(meta.pixel_scale) >= 2 /\ Len(meta.tiepoint) >= 6
  THEN [scale |-> <<-meta.pixel_scale[2], meta.pixel_scale[1]>>,
        translation |-> <<meta.tiepoint[5], meta.tiepoint[4]>>]
  ELSE NoTransform

(* Rows and columns to the centres of their pixels.                        *)
spatial_transform(meta) ==
  LET Centred(scale, corner) ==
        [scale |-> scale,
         translation |-> [i \in 1 .. 2 |-> corner[i] + FloorDiv(scale[i], 2)]]
      m == meta.model_transformation
  IN IF Len(meta.pixel_scale) >= 2 /\ Len(meta.tiepoint) >= 6
     THEN Centred(<<-meta.pixel_scale[2], meta.pixel_scale[1]>>,
                  <<meta.tiepoint[5], meta.tiepoint[4]>>)
     ELSE IF Len(m) >= 16 THEN Centred(<<m[6], m[1]>>, <<m[8], m[4]>>)
     ELSE NoTransform

cog_dim_names(meta) == IF meta.epsg = 4326 THEN <<"lat", "lon">> ELSE <<"y", "x">>

-----------------------------------------------------------------------------
(* VirtualCogStore.                                                        *)

(* new: the metadata of the Zarr array; bands come first.                  *)
CogArray(meta) ==
  LET Banded(b) == IF meta.samples_per_pixel > 1 THEN <<b>> ELSE <<>>
  IN [shape |-> Banded(meta.samples_per_pixel) \o <<meta.image_length, meta.image_width>>,
      chunk_shape |-> Banded(meta.samples_per_pixel) \o <<meta.tile_length, meta.tile_width>>,
      dimension_names |-> <<>>,
      array_dimensions |-> Banded("band") \o cog_dim_names(meta),
      geozarr |-> {spatial_transform(meta)},
      element_bytes |-> meta.bits_per_sample \div 8,
      opens |-> FillFits(meta),
      fill_value |-> IF meta.nodata = {} THEN <<0>> ELSE CHOOSE v \in meta.nodata : TRUE]

(* Faulty FlatIdx: the last, ragged column of tiles is not counted.        *)
FlatIdxWholeTiles(meta, yx) ==
  yx[1] * Upper(1, meta.image_width \div meta.tile_width) + yx[2]

FlatIdx(meta, yx) == yx[1] * CeilDiv(meta.image_width, meta.tile_width) + yx[2]

(* The indices of a chunk key that count tiles: a leading band is dropped. *)
TileKey(meta, key) ==
  IF meta.samples_per_pixel > 1 /\ Len(key) = 3 /\ key[1] = 0 THEN Tail(key) ELSE key

(* A key that names a tile whose offset was read; any other has no chunk.  *)
HasTile(meta, key) ==
  LET yx == TileKey(meta, key)
  IN Len(yx) = 2 /\ FlatIdx(meta, yx) < Len(meta.tile_offsets)

RawTile(f, meta, key) == f.tiles[meta.tile_offsets[FlatIdx(meta, TileKey(meta, key)) + 1]]

(* The byte counts are indexed like the offsets, without a look at how many *)
(* there are: a tile with an offset but no count makes get panic.          *)
TilePanics(meta, key) == FlatIdx(meta, TileKey(meta, key)) >= Len(meta.tile_byte_counts)

(* The tile does not inflate, or ends inside a pixel.                      *)
TileError(f, meta, key) ==
  \/ RawTile(f, meta, key) = <<>>
  \/ Len(RawTile(f, meta, key)) % meta.samples_per_pixel # 0

(* get: the samples of a tile, band after band.                            *)
TileSamples(f, meta, key) ==
  LET raw == RawTile(f, meta, key)
      spp == meta.samples_per_pixel
      num_pixels == Len(raw) \div spp
  IN [k \in DOMAIN raw |->
        raw[((k - 1) % num_pixels) * spp + ((k - 1) \div num_pixels) + 1]]

=============================================================================
