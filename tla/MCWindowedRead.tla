-------------------------- MODULE MCWindowedRead ----------------------------
(* Sources and queries for TLC.  Windows start and end on, between and     *)
(* outside the coordinates; arrays and images have ragged last chunks.      *)
EXTENDS WindowedRead

AtMostOne(S) == {{}} \cup {{v} : v \in S}
Nothing == [d \in {} |-> {}]

-----------------------------------------------------------------------------
(* Plain arrays.                                                           *)

Coords(values) == CoordinateArray(values)

Zarr(shape, chunk_shape, names, transform, own, siblings) ==
  [kind |-> "zarr", own |-> own, siblings |-> siblings, absent |-> {<<1, 0>>},
   filled |-> {<<0, 1>>, <<0, 1, 2>>},
   array |-> [shape |-> shape, chunk_shape |-> chunk_shape, dimension_names |-> <<>>,
              array_dimensions |-> names, geozarr |-> transform, element_bytes |-> 4,
              opens |-> TRUE, fill_value |-> <<0>>]]

(* Descending latitude and a 0..360 longitude, stored beside the array.    *)
Climate ==
  Zarr(<<4, 4>>, <<3, 2>>, <<"lat", "lon">>, {}, <<>>,
       [lat |-> Coords(<<30, 20, 10, 0>>), lon |-> Coords(<<0, 90, 180, 270>>)])

ClimateQueries ==
  [min : [lat : AtMostOne({5, 15, 35}), lon : AtMostOne({-90, 45, 90})],
   max : [lat : AtMostOne({5, 20, 30}), lon : AtMostOne({-45, 100, 180})],
   pin : {Nothing}, projected : {{3}, {1, 2}}]

(* A band axis, and rows and columns placed by an affine transform.        *)
Image ==
  Zarr(<<2, 3, 4>>, <<1, 2, 3>>, <<"band", "y", "x">>,
       {[scale |-> <<0, -10, 10>>, translation |-> <<0, 30, -15>>]}, <<>>, <<>>)

ImageQueries ==
  [min : [y : AtMostOne({12, 40}), x : AtMostOne({-5, 8, 50})],
   max : [y : AtMostOne({-3, 24}), x : AtMostOne({-20, 3, 15})],
   pin : [band : AtMostOne({0, 7})], projected : {{1, 2, 3, 4}}]

(* Time, ascending, stored in the array; the latitude, ascending, beside it; *)
(* a Zarr v3 array names its dimensions itself.                            *)
Series ==
  [Zarr(<<3, 5>>, <<2, 2>>, <<>>, {}, [time |-> Coords(<<100, 200, 300>>)],
        [lat |-> Coords(<<0, 10, 20, 30, 40>>)])
     EXCEPT !.array.dimension_names = <<"time", "lat">>]

SeriesQueries ==
  [min : [time : AtMostOne({100, 150, 310}), lat : AtMostOne({-5, 10, 12})],
   max : [time : AtMostOne({90, 250, 300}), lat : AtMostOne({10, 18, 45})],
   pin : {Nothing, [time |-> {2}]}, projected : {{1, 3}}]

(* A name is missing, or of the coordinate arrays one is too short, one has *)
(* two dimensions, one has a type that is not read and one is unreadable.  *)
Nameless == [Series EXCEPT !.array.dimension_names = <<"time", "">>]
Misfits ==
  {[Series EXCEPT !.own = [time |-> a], !.siblings = [lat |-> b]] :
     a \in {Coords(<<100, 200>>), [Coords(<<100, 200, 300>>) EXCEPT !.data_type = "<U8"]},
     b \in {[Coords(<<0, 10, 20, 30, 40>>) EXCEPT !.rank = 2],
            [Coords(<<0, 10, 20, 30, 40>>) EXCEPT !.readable = FALSE]}}
TooLarge ==
  {[Series EXCEPT !.array.chunk_shape = <<20, 20>>],
   [Series EXCEPT !.array.chunk_shape = <<4, 4>>, !.array.element_bytes = 0],
   [Series EXCEPT !.array.opens = FALSE]}

-----------------------------------------------------------------------------
(* Images.                                                                 *)

(* A file with one image in tiles, all of its header within the window     *)
(* except, if far, the offsets of all tiles but two, or the byte counts of *)
(* all but one.                                                            *)
Photo ==
  [id |-> 1, order |-> "II", length |-> 3, width |-> 4, tile |-> <<2, 3>>, bands |-> 1,
   bits |-> 16, format |-> 2, compression |-> 8, planar |-> 1, predictor |-> 1,
   geo |-> {[north |-> 40, west |-> -20, dy |-> 10, dx |-> 10]}, diagonal |-> FALSE,
   epsg |-> 4326, nodata |-> {<<-9999>>}, blank |-> <<0, 0, 1>>, far |-> {}, torn |-> {}]

Sample(c, b, y, x) ==
  IF <<b, y, x>> = c.blank THEN (IF c.nodata = {} THEN <<0>> ELSE The(c.nodata))
  ELSE <<c.id, b, y, x>>

Entry(tag, typ, values, at) == [tag |-> tag, typ |-> typ, values |-> values, at |-> at]

Directory(c, tiles) ==
  LET Short(tag, v) == Entry(tag, "SHORT", <<v>>, 0)
      Shorts(tag, v) == Entry(tag, "SHORT", [b \in 1 .. c.bands |-> v], 300)
      geo == The(c.geo)
      affine == IF c.geo = {} THEN <<>>
                ELSE IF c.diagonal
                THEN <<Entry("ModelTransformation", "DOUBLE",
                             <<geo.dx, 0, 0, geo.west, 0, -geo.dy, 0, geo.north,
                               0, 0, 0, 0, 0, 0, 0, 1>>, 400)>>
                ELSE <<Entry("ModelPixelScale", "DOUBLE", <<geo.dx, geo.dy, 0>>, 400),
                       Entry("ModelTiepoint", "DOUBLE",
                             <<0, 0, 0, geo.west, geo.north, 0>>, 430)>>
  IN <<Short("ImageWidth", c.width), Short("ImageLength", c.length),
       Shorts("BitsPerSample", c.bits), Short("Compression", c.compression),
       Short("SamplesPerPixel", c.bands), Short("PlanarConfiguration", c.planar),
       Short("Predictor", c.predictor),
       Short("TileWidth", c.tile[2]), Short("TileLength", c.tile[1]),
       Entry("TileOffsets", "LONG", tiles, IF "offsets" \in c.far THEN 16376 ELSE 600),
       Entry("TileByteCounts", "LONG", tiles, IF "counts" \in c.far THEN 16380 ELSE 700),
       Shorts("SampleFormat", c.format)>>
     \o affine
     \o <<Entry("GeoKeyDirectory", "SHORT",
                <<1, 1, 0, 2, 1024, 0, 1, 2, 2048, 0, 1, c.epsg>>, 500)>>
     \o [i \in 1 .. Cardinality(c.nodata) |->
           [tag |-> "GDAL_NODATA", typ |-> "ASCII", values |-> <<1, 2, 3, 4, 5, 6>>,
            at |-> 550, number |-> c.nodata]]

File(c) ==
  LET across == CeilDiv(c.width, c.tile[2])
      count == across * CeilDiv(c.length, c.tile[1])
      offsets == [n \in 1 .. count |-> 20000 + 100 * n]
      Samples(n) ==
        [k \in 1 .. c.bands * c.tile[1] * c.tile[2] |->
           LET p == (k - 1) \div c.bands
           IN Sample(c, (k - 1) % c.bands,
                     ((n - 1) \div across) * c.tile[1] + (p \div c.tile[2]),
                     ((n - 1) % across) * c.tile[2] + (p % c.tile[2]))]
  IN [size |-> 30000, byte_order |-> c.order, magic |-> 42, ifd |-> 8,
      entries |-> Directory(c, offsets),
      tiles |-> [o \in ToSet(offsets) |->
                   IF (o - 20000) \div 100 \in c.torn THEN <<>>
                   ELSE Samples((o - 20000) \div 100)],
      image |-> [p \in (0 .. c.bands - 1) \X (0 .. c.length - 1) \X (0 .. c.width - 1) |->
                   Sample(c, p[1], p[2], p[3])],
      geo |-> c.geo]

CogSource(c) == [kind |-> "cog", file |-> File(c), siblings |-> <<>>]

(* Read in full, beyond the window, without georeference or nodata, of one *)
(* tile, with a tile that does not inflate.                                *)
GoodPhotos ==
  {Photo, [Photo EXCEPT !.far = {"offsets"}], [Photo EXCEPT !.far = {"offsets", "counts"}],
   [Photo EXCEPT !.geo = {}, !.nodata = {}, !.epsg = 32632],
   [Photo EXCEPT !.diagonal = TRUE, !.tile = <<3, 4>>],
   [Photo EXCEPT !.torn = {3}]}

(* Refused: LZW, a predictor, half floats, odd depths, planes, a directory *)
(* without tiles, a file that is no TIFF, three bands (their bit depths do  *)
(* not fit into the entry), a nodata value that is no sample.              *)
BadPhotos ==
  {[Photo EXCEPT !.compression = 5], [Photo EXCEPT !.predictor = 2],
   [Photo EXCEPT !.format = 3], [Photo EXCEPT !.bits = 12],
   [Photo EXCEPT !.bands = 2, !.planar = 2], [Photo EXCEPT !.order = "JP"],
   [Photo EXCEPT !.bands = 3], [Photo EXCEPT !.format = 1]}

(* Two bands: their bit depths fit into the entry.                         *)
Duo == [Photo EXCEPT !.bands = 2, !.blank = <<1, 2, 3>>]

Untiled ==
  [kind |-> "cog", siblings |-> <<>>,
   file |-> [File(Photo) EXCEPT !.entries =
               SelectSeq(@, LAMBDA e : e.tag \notin {"TileWidth", "TileLength"})]]

(* Values only: read_bands is about the columns.                           *)
DuoQueries ==
  [min : {Nothing}, max : {Nothing}, pin : [band : AtMostOne({0, 1})], projected : {{4}}]

CogQueries ==
  [min : [lat : AtMostOne({20, 50}), lon : AtMostOne({-5, 12})],
   max : [lat : AtMostOne({10, 30}), lon : AtMostOne({-8, 15})],
   pin : {Nothing}, projected : {{1, 2, 3}}]

Band(n, t, c) == [time |-> t, files |-> [red |-> File([c EXCEPT !.id = n]),
                                         nir |-> File([c EXCEPT !.id = n + 10])]]

Stack(items) == [kind |-> "stack", items |-> items, siblings |-> <<>>]

(* The second item is the earlier one, the later one has another nodata    *)
(* value; the grids of the others differ.                                  *)
Scenes == Stack(<<Band(2, 200, [Photo EXCEPT !.nodata = {<<-1>>}]), Band(1, 100, Photo)>>)
Shifted == Stack(<<Band(1, 100, Photo),
                   Band(2, 200, [Photo EXCEPT !.geo = {[The(@) EXCEPT !.west = 0]}])>>)
Lacking == Stack(<<Band(1, 100, Photo), [time |-> 200, files |-> [red |-> File(Photo)]]>>)
Scene == [kind |-> "item", files |-> Band(3, 0, Photo).files, siblings |-> <<>>]
OneAsset == [kind |-> "item", files |-> [red |-> File(Photo)], siblings |-> <<>>]

StackQueries ==
  [min : [time : AtMostOne({150}), lat : AtMostOne({20}), lon : {{-15}}],
   max : [time : AtMostOne({100}), lat : AtMostOne({30}), lon : {{5}, {30}}],
   pin : {Nothing}, projected : {{1, 2, 3, 4}}]

-----------------------------------------------------------------------------
All == [min |-> Nothing, max |-> Nothing, pin |-> Nothing, projected |-> {1, 2, 3}]
AllOfStack == [All EXCEPT !.projected = {1, 2, 3, 4}]

Pairs(sources, assets, search, queries) ==
  [source : sources, asset : assets, search : {search}, query : queries]

ClimateRequests == Pairs({Climate}, {{}}, FALSE, ClimateQueries)
SeriesRequests == Pairs({Series}, {{}}, FALSE, SeriesQueries)

AllRequests ==
  ClimateRequests \cup SeriesRequests
  \cup Pairs({Image}, {{}}, FALSE, ImageQueries)
  \cup Pairs(Misfits \cup TooLarge \cup {Nameless, Untiled}, {{}}, FALSE, {All})
  \cup Pairs({CogSource(c) : c \in GoodPhotos}, {{}}, FALSE, CogQueries)
  \cup Pairs({CogSource(Duo)}, {{}}, FALSE, DuoQueries)
  \cup Pairs({CogSource(c) : c \in BadPhotos}, {{}}, FALSE, {All})
  \cup Pairs({Scenes}, {{"red"}}, TRUE, StackQueries)
  \cup Pairs({Scenes, Shifted, Lacking}, {{}, {"red"}, {"blue"}}, FALSE, {AllOfStack})
  \cup Pairs({Scene, OneAsset}, {{}, {"red"}}, FALSE, {All})

(* Windows of the 0..360 axis on one side of the meridian and across it.   *)
MeridianQueries ==
  [min : [lat : AtMostOne({5, 15}), lon : {{-90}, {45}}],
   max : [lat : AtMostOne({20, 30}), lon : {{100}}],
   pin : {Nothing}, projected : {{3}}]
MeridianRequests == Pairs({Climate}, {{}}, FALSE, MeridianQueries)

(* The same image of two bands, with all its columns.                      *)
BandQueries ==
  [min : [lat : AtMostOne({20})], max : {Nothing}, pin : [band : AtMostOne({0})],
   projected : {{1, 2, 3, 4}}]
BandRequests == Pairs({CogSource(Duo)}, {{}}, FALSE, BandQueries)

=============================================================================
