# Verification of eider / duckdb_geozarr in TLA+

TLA+ models of the parts of this repository whose correctness depends on
interleavings, failures and boundary arithmetic; TLC configurations that check
them on small instances; and proofs, checked by TLAPS, of the properties that
matter most for every size. Paths below are relative to the repository root.

Contents: [1 the system](#1-the-system) · [2 modules](#2-modules-and-the-code-they-model) ·
[3 runs](#3-runs) · [4 fairness](#4-fairness) · [5 disagreements found](#5-where-the-code-and-its-documentation-disagree) ·
[6 proofs](#6-what-is-proved) · [7 not modelled](#7-what-is-not-modelled) · [8 plan](#8-plan)

## 1. The system

The repository is a DuckDB extension that exposes Zarr datasets as table
functions, the library under it, a CLI (`eider`) and an MCP server (`eider-mcp`).

| Component | Code | State | Operations | Meets others through |
|---|---|---|---|---|
| read_geo scan | `extension/src/table_function.rs`, `vector_writer.rs` | atomic `next_chunk`; map thread → half-written buffer and cursor | `func`, run by the engine's threads | the engine's scheduling; the chunk stream |
| Window and chunk reader | `geozarr_core/src/{dataset,query_planner,coordinates,scanner}.rs` | index box; chunk count; subset of one chunk | `compute_bounds`, `scan`, `read_chunk`, column fill | called by bind and by `func` |
| plan_read_geo, metadata functions | `extension/src/{table_function,metadata_vtab}.rs` | a one-row flag | one row per query | shares the window code |
| Store resolution, STAC search | `geozarr_core/src/store.rs` | pages visited, features, header tasks | paginate, fetch headers, assemble a time stack or a group, local documents, partial reads | HTTP, object stores; builds virtual stores |
| Virtual COG and time-stack stores | `geozarr_core/src/virtual_*.rs`, `cog.rs` | immutable headers | parse a TIFF directory, serve Zarr keys from tiles | called by the array library |
| Dataset opening | `geozarr_core/src/{dataset,metadata,coordinate_resolver,validator}.rs` | none after opening | choose the asset, dimension names, coordinates, transform | yields the dataset the window code uses |
| Export | `cli/src/export/` | chunk buffers, a bounded channel, the uploader task, the destination | infer shape, stream rows, evict, flush, join | DuckDB query; the destination |
| MCP server | `mcp/src/` | one DuckDB session behind a mutex; its temp tables, variable and interrupt flag; a watchdog per call | tools, `materialize`, timeouts, progress | concurrent clients |
| extract, ingest, resample | `cli/src/commands/` | the file at a path, its tables, the engine's lock on it | overwrite check, delete, open, write | database files shared by several processes; the user |
| Session setup | `eider_session/src/` | none | load the extension, set credentials | DuckDB |
| Search, info, shell, plot, UI | `cli/src/` | none that persists | output modes, prompts, pictures | HTTP, database files, the user |

What is hard, and what would make each component correct:

* **Scan** (interleavings, vector boundaries, scheduling). Every row of the box
  is delivered once, in order within its chunk, although a full vector leaves a
  half-written buffer in a map keyed by thread id that only another call on the
  same thread empties.
* **Window** (off-by-one, clamping, descending and wrapped axes, unsigned
  arithmetic). A window selects exactly its cells, each chunk of the box is read
  once, the columns agree with the cells, and the plan agrees with the scan.
* **Export** (bounded memory, a bounded channel, two tasks that wait for each
  other, partial failure). Success means that every value is at its cell;
  memory stays bounded; it always ends.
* **MCP** (shared session state between the statements of a call, a timeout
  racing its answer, panics). A call sees only its own data, its handle stays
  valid, a timeout hits only the call it belongs to, and every call is answered, a
  runaway one by its timeout.
* **STAC search** (pagination, out-of-order completion, one of many failing).
  Time steps end up in time order at the right index, nothing is silently lost.
* **Images** (a header read through a window of 16 KiB, ragged tiles, interleaved
  bands, tiles that are absent or torn, time slices in another order than the items).
  Every row shows the value and the centre of its own pixel.
* **CLI** (deleting before the work, several processes on one file, prompts in
  scripts, failure and crash between any two steps). A table that was seen is not lost
  without consent, success means a result, a script is never left waiting, and a picture
  shows the rows it is made of.

`PROJECT.json` lists every hazard at its line, with the property that guards it.

## 2. Modules and the code they model

```
ScanDelivery  <-implements-  ReadGeoScan
ArrayExport   <-implements-  ExportPipeline
CogFile  <-  OpenDataset  <-  WindowedRead
EiderPlot  <-  EiderCli

model            runs              proofs
ReadGeoScan      MCReadGeoScan     ReadGeoScanProofs
WindowedRead     MCWindowedRead    WindowedReadProofs (with FiniteInduction)
ExportPipeline   MCExportPipeline  ExportPipelineProofs (with FiniteInduction)  <-  ExportContentProofs
McpSession       MCMcpSession      McpSessionProofs
StacSearch       MCStacSearch      StacSearchProofs
EiderCli         MCEiderCli        EiderCliProofs
```

An arrow without a word is EXTENDS, and the modules of a row extend its first: WindowedRead
composes the file format, the opening of a dataset and the read; EiderCli composes the
commands with their pictures.
The modules meet where one takes as given what another computes: StacSearch yields the
stacks that OpenDataset starts from, WindowedRead the rows that ReadGeoScan hands out,
and EiderCli treats an upload as one step, which ExportPipeline opens up.

Each model module begins its properties after its specification; operators
introduced by "Faulty" are one slip away from the definition that follows them.
They are not used by any specification: they exist to show that each property
notices such a slip, and `PROJECT.json` ("mutants") says which.

### ScanDelivery: what the scan promises
Two variables, the set of rows handed over and a status. Rows are handed over
once, without a gap within their chunk; a scan that completes has handed over
all of them; a read error or a cancellation aborts it.

### ReadGeoScan: the parallel scan
One variable per piece of shared state (`next_chunk`, `local_states`) and per
local of a call of `func` (`state`, `chunk_idx`, `vector`, `valid_rows`). One
action per access to shared state:

| Action | Code |
|---|---|
| `Call` | `func` takes the thread's `LocalState` out of the map, under the mutex |
| `ClaimChunk` | `next_chunk.fetch_add(1, Relaxed)` |
| `ReadChunk`, `EndOfStream`, `ReadError` | the three results of `read_chunk` |
| `EmitBatch` | one turn of `write_chunk_unified`'s loop |
| `Return` | the state goes back into the map, the vector to the engine |
| `TakeTask`, `YieldTask`, `Cancel`, `Abandon` | the engine (external) |

`MayMigrate` separates the two things an engine may do with an unfinished task:
leave it on its thread, or continue it on another one. Rows are pairs of a chunk
and a position; `ChunkRows` is any function, empty chunks included.

### CogFile: a GeoTIFF as an array
`parse_cog_metadata` sees the first `HeaderWindow` bytes of a file: entries and values past
them are dropped as the code drops them (`Tagged`, `ArrayVal`, `TileVals`). `DtypeError` is what the
reader refuses, `FillFits` what the array library accepts (a fill value that is one of the type's), `spatial_transform` the centre of a pixel, `CogArray` the Zarr metadata made of
it; `FlatIdx`, `HasTile`, `TilePanics`, `TileError`, `TileSamples` are `VirtualCogStore::get`, from a chunk key to
samples in band order. A sample carries its file, band, row and column, so that one in the
wrong place shows.

### OpenDataset: from a source to a dataset
A source is a plain array, a GeoTIFF, an item with a file per asset, or a stack of
items. `OpenError` and `Opened` are `ZarrDataset::open_with_asset`: `SelectedAssets` the choice of the asset,
`DimNames` the dimension names, `Coordinates` the coordinate array in the store or beside it,
`ChunkError` the validator, with its limits in bytes and, for strings, in elements. `StackArray` and `StackCoordinates` are `VirtualStacTimeStack`; `FileOf` and `FileKey`
are how a chunk key reaches a file.

### WindowedRead: from a query to rows
One worker, real arithmetic, from `bind` to the last row.

| Action | Code |
|---|---|
| `Open`, `OpenFails` | `open_dataset` in `bind`: the area test on a search, `open_with_asset` |
| `Bind` | the rest of `bind`: `compute_bounds`, both chunk counts |
| `ReadChunk`, `ReadRefused`, `ReadFails` | `read_chunk`: a chunk (perhaps reported absent), an error, a panic |
| `WriteBatch`, `WriteFails` | one turn of `write_chunk_unified` with `populate_coordinate_batch` and NULL values |
| `EndOfStream` | no chunk is left |

`DimBounds` is `compute_bounds` (pins, coordinate arrays through `translate_filter`, transforms, whose
ends saturate as the conversion to `i64` does), `Quotients` are the successive divisions of `get_chunk_pos`, `ProductAfter`
the sizes of the dimensions after one,
`CountChunks` and `PlanChunks` are the two separate chunk counts, both in unbounded integers: one of the code's
products saturates and the other does not, which differs for boxes of 2^64 chunks only. `GetChunkPos` is
`GridIterator::get_chunk_pos`, `SubsetLo`, `SubsetHi`, `SubsetShape` are `read_chunk_subset`. `U64` is the modulus
of the index arithmetic (256 here instead of 2^64) and `OverflowChecks` tells dev builds
from release builds. Coordinates are integers.

### ArrayExport: what an export promises
The array as a reader of the destination sees it: what each cell shows, the chunk it belongs to,
and a status. The array is created once, over whatever chunks an earlier export left there; it
changes only by one whole chunk at a time, one that holds a value; a cell never shows anything but its own value,
the fill value or what was there before; once the query has broken off nothing succeeds; and a success
means that every value has its cell, in a chunk that was written. `ExportPipeline` maps its destination to the cells
(`Shown`), its metadata to `Layout` and its phases to `Status`; buffers, channel and tasks are not visible.

### ExportPipeline: export to Zarr
`phase` is where `run_export`/`stream_data` is; `uploader` is the task of
`ChunkUploader`. `Infer` is pass 1 and the metadata, which may be refused: by the query, the store, a chunk size of 0, a type
without a fill value. `ProcessRow`, `Evict`, `EvictFails` are
`process_row`; `Flush`, `Flushed`, `Join` are what follows the loop; `Recv`, `StoreChunk`,
`StoreFails` (the process exits), `StorePanics`, `AllReceived` are the task. A value is represented
by its row's coordinates, so that a misplaced value shows.

### McpSession: concurrent tools on one session
A call is a sequence of statements (`Tool`), taken from the tool's source: for
instance `zonal_stats` is `set_box, create, count, head`. `Lock`, `Abort`, `Unlock` are `EiderServer::run`;
`Begin`, `Finish`, `Fail`, `Interrupted`, `Panic` are a statement of `tools.rs`/`result.rs`; `TimeElapses`,
`Notify`, `Notified`, `Expire`, `Fire` are the watchdog. `Expire` and `Fire` are separate steps because
`abort()` does not stop a task between two awaits. `RunsOn` says which statements may never end by themselves.

### StacSearch: opening a STAC source
`phase` follows `resolve_sync_store`: sources that are opened directly, the HTTP arm and
the local one. `StopPaging`, `FetchCollection`, `FetchItem`, `FetchErrorBody`, `FetchFails`
are the ways one turn of the pagination loop ends; `PlanStack`, `RejectStack`, `PlanGroup`, `NoStac`, `TryParent`
what the pages amount to; `HeaderRead`, `HeaderFails`, `HeaderPanics` one result of `join_next`;
`AssembleStack`, `RejectAssembly`, `AssembleGroup` the reassembly and `build_time_stack`; `BuildChild`
the next header of a local document; `ReadChunk` a later
`VirtualStacTimeStack::get`. A COG is its item, asset and grid.

### EiderPlot: columns and pictures
Operators only: `detect_columns` and `detect_value_column` choose columns by their names; `Histogram`,
`Heatmap` and `Line` are the queries and loops of `plot.rs`, from rows to bins, cells and
points; `Resampled` is the table `eider resample` makes. Averages are kept as a sum and a
count, and the resampling aggregate is the sum.

### EiderCli: commands on database files
`path` leads from a name to a file, `db` holds the files, `proc` is where each process is. One
action per step between two effects: the overwrite check, the deletion, the opening, the
query, every prompt and its answer, the report. Removing a path does not remove a file
another process has open, and an open file is closed to other processes (`Free`): that is
how the engine and the operating system behave. `Fail`, `Cancel` and `Kill` may happen at
every use of the outside, at every prompt, and everywhere. `mode` is `OutputMode::detect`.

## 3. Runs

All finish within a minute or so. "Violation" runs show a disagreement
(section 5); TLC finds the property they name violated.

| Run | What it checks | Instance |
|---|---|---|
| scan_pinned | `TypeOK`, `VectorExact`, `RowsAccounted`; refinement of `ScanDelivery`, with it that a completed scan has delivered every row (`CompleteAtEnd`); `ScanEnds` | 3 threads, 3 tasks, chunks of 3, 1, 2 rows, vectors of 2 |
| scan_migrating | `RowInOnePlace`, `DeliveredGapless`, `MissingIsParked` when tasks move | as above, 2 tasks for 3 threads, thread symmetry (no liveness) |
| read_window | `BoundsExact`, `CellsOnce`, `PlanExact`, `MatchingNeverFails`, `ValuesTrue`, `PlaceTrue` | 2007 queries of arrays, images, items and stacks |
| read_chunks | violation of `IntersectingFetched` | windows of a 0..360 axis, on one side of the meridian and across it |
| read_bands | violation of `PlaceTrue` | an image of two bands |
| export_stream | `ExportExact`, `NothingLeftBehind`, `MemoryBounded`; refinement of `ArrayExport` (`ArrayContract`); `ExportEnds` | ten exports, failures at every point |
| export_evicting | violation of `QueryResultStored` | chunks that split both dimensions |
| mcp_session | `AnswerOwn`, `HandleHolds`, `WatchdogOfHolder`, `AnsweredUnlessWedged` | three calls at once |
| mcp_interrupt | violation of `FastNeverInterrupted` | two calls |
| stac_search | `SliceOfItsTime`, `ReadAtItsTime`, `ItemsOnce`, `WholeUnlessCut`, `JoinLosesNothing`, `OneGrid` | twelve searches, over HTTP, as local documents and opened directly; at most three items of two assets, a limit of 3 pages |
| stac_truncated | violation of `FullCollection` | three items on two pages |
| cli | `SuccessHasResult`, `OneDocument`, `HeatmapTrue`, `PictureWhole`, `LostOnlyIfAgreed`, `JsonEnds` | two processes, two or three paths; bins, rows, columns and points of 2, 3, 2, 2 |

Why the bounds are enough:

* *Scan.* A chunk of 3 rows needs two vectors of 2, so it is parked in the middle;
  a chunk of 1 leaves room for the next chunk in the same vector; a chunk of 2
  ends exactly with a vector. Three threads give two that contend and one that
  finds the stream ended. With fewer tasks than threads a task can leave a
  parked buffer on a thread nobody calls again. The proofs remove the bounds.
* *Window.* Axes are descending, ascending, 0..360, transformed with scales of
  either sign, or without coordinates; window ends lie below, on, between and
  above the coordinates, or are absent; every last chunk is ragged; vectors of
  3 end inside chunks and inside runs of equal coordinates; chunks may be absent, names
  missing, coordinate arrays too short, of the wrong rank or type, or unreadable, a chunk is
  too large in bytes or in strings, and an element holds the fill value.
* *Images.* The files have ragged tiles in both directions, a pixel that equals nodata, one
  tile or several, one or two bands, tile offsets or byte counts past the header window, a tile that does not
  inflate, and georeferences of both kinds or none; eight more are refused. Stacks list their items out of
  time order; two more have items of different grids or without an asset.
* *Export.* Each job is one situation: adjacent chunks, split chunks, automatic
  chunks, more chunks than memory holds, nulls, a missing row, a chunk from an
  earlier export, coordinates that are not dense or are negative, and a chunk
  size of 0. `MaxMemory` makes eviction happen, a channel of 1 makes both sides wait.
* *MCP.* Two calls may run for ever: `read_region`, whose long statement is its first, and
  `zonal_stats`, which has another one before it and depends on the session variable between the
  two. Both report progress, and the client of one does not read it. One may panic. `run_sql` creates
  tables under the names `materialize` will use next.
* *STAC.* Three items of two assets, out of time order and two of them at the same
  time, give six headers that finish in every order. The other searches are a cycle of
  links, more pages than the limit, an item without time, without the asset or without
  COGs, two grids, an empty collection, and single items.
* *CLI.* Two commands that write, in every mode, with and without `--yes`, meet on the same output and
  with each other's input; every other command runs in every mode with each input that takes another branch. The
  table has a missing place, two rows at one place, a NULL and a greatest value alone in its
  bin; others have a value named like a coordinate, no value, and uneven axes.

## 4. Fairness

* *Scan.* `func`, once called, goes on, and `read_chunk` returns with a chunk or an error
  (the runtime's `block_on`); the engine goes on with the tasks it started. No fairness
  for `YieldTask` and `Cancel`.
* *Export.* The reader and the uploader run on different threads of the
  multi-threaded runtime and each goes on when it can; failures are not fair.
* *MCP.* tokio's mutex queues its waiters, so a call that waits gets it; a
  statement that ends by itself does; one that was interrupted notices (DuckDB
  checks its flag between batches); time passes; the clients in `Readers` read the progress
  notifications they asked for; the runtime polls a task **when a worker is free**.
  Nothing is assumed of a runaway statement (`RunsOn`) nor of the other clients; `Panic`, `Notify` are not fair.
* *CLI.* Every process goes on by itself (`Run`); nobody has to answer a prompt, and
  `Fail`, `Cancel`, `Kill` need not happen. `JsonEnds` is thereby about prompts: a command that was
  asked for JSON and puts a question would wait for ever.

## 5. Where the code and its documentation disagree

1. `read_chunks`. The two ends of a longitude window are shifted onto a 0..360
   axis separately: -90..100 becomes 270..100. The trace shows that the box is then inverted, the
   query fails, and none of the chunks that the window intersects is fetched, where
   `docs/docs/engineering/spatial_pruning.mdx` says that exactly these are. The code has a second way, which
   this run does not take: `translate_filter` answers "no matches" with `(1, 0)`, of which
   `compute_bounds` uses one end only, so that a window below every coordinate selects index
   0 and returns its row. `BoundsExact` and `MatchingNeverFails` are therefore stated for windows that match
   some cell and, on such an axis, have both ends in 0..180 or both in -179..-1 (`Answerable`,
   `OneHemisphere`). Trying to prove `BoundsExact` showed that "on one side" is not enough: an end
   beyond 180, which no row shows, is shifted nowhere while the rows are.
2. `read_bands`. A multi-band image has its band axis first, but its transform still
   has two entries, for rows and columns: the band's coordinate is computed with the rows'
   scale, and so on. read_window asks images of two bands for their values only.
3. `export_evicting`. Eviction sends a buffer that is not complete, and the rest of its
   rows then replace the chunk: a successful export lost values. `ExportExact` is
   stated for exports where no buffer is evicted early (`EvictionIsSafe`, in terms of
   the query and the limit only): all buffers fit, or one fits and the rows come in the order of
   their chunks. Trying to prove it showed that an order of the rows alone is not enough, since eviction
   sends the least chunk, which may be the one still being filled.
4. `mcp_interrupt`. A watchdog past its elapsed test is not stopped by `abort()` and
   interrupts the next call. `WatchdogOfHolder` is what does hold.
5. `stac_truncated`. The HTTP status is not looked at: an error body in place of a later
   page is JSON that is no collection, and ends the pagination like the last page;
   `docs/docs/engineering/cog_virtualization.mdx` says the next links are followed "to fetch
   the full matching collection". `WholeUnlessCut` is what holds: pages that cannot be
   fetched or parsed are never skipped.

Disagreements that no run of their own shows; a property states exactly what holds instead:

* *Timeouts.* `mcp/src/server.rs:8-11` says that a runaway query "cannot wedge the server", and
  `docs/docs/usage/mcp.md:174-176` gives each call 120 s. `Wedged` names the three states in which a
  runaway statement holds the session for ever, and `AnsweredUnlessWedged` says that there is no other.
  (a) The runaway statement is not the tool's first, as in `zonal_stats` (`set_box`, then the long `create`) and
  `extract_point_timeseries`: the watchdog fires its only interrupt as the first one ends, and the start of the
  second clears it. (b) The watchdog awaits the delivery of a progress notification that the
  client does not read. (c) There is one worker thread (`Parallel = FALSE`; the server's runtime has as
  many as there are CPUs), and `f(&guard)` blocks it. mcp_session reaches (a) and (b).
* *Nodata.* `docs/superpowers/specs/2026-06-07-cog-first-class-design.md:46` says of a file
  without `GDAL_NODATA` "else no fill"; `virtual_store.rs:31-34` gives it the fill value 0, so its genuine
  zeros are shown as NULL. A stack has the fill value of its first item by time, for the slices of all: another
  item's nodata is shown as a value, and a value that is the first one's nodata as NULL. `ValuesTrue`
  names exactly these pixels (`NullSample`).
* *JSON documents.* `docs/docs/usage/cli_tui.md:23` says "In JSON mode, every command emits a
  status envelope." `export`, `plot` and `shell` print none when they succeed, and an upload that cannot store a
  chunk exits the process without one (`stream.rs:81-84`), in `ingest` and in `export`. `OneDocument` says
  for each end of each command how many documents there are (`Documents`).
* *Prompts.* Line 21 of the same page says that JSON mode "suppresses interactive prompts"; `plot`
  without a type starts its wizard in every mode. `JsonEnds` is about every other command.

Limits and surprises met on the way, that no document denies:

* A tile whose offset lies within the 16 KiB that are read of a file, but whose byte count
  does not, makes `VirtualCogStore::get` panic (`virtual_store.rs:128`); `MatchingNeverFails` excepts exactly these
  (`LengthUnread`). Images of three or more bands are refused: their bit depths are not in
  the directory entry, and the offset to them is taken for a depth.
* A stack takes its tile sizes from the first two chunk sizes of a child (`virtual_stac_time_stack.rs:70-73`, whose
  comment expects two of them). A child of several bands has three, its bands first, and its
  tiles are then cut wrongly: stacks are stated to be of images of one band (`Pictured`).
* `extract` looks at its output, then opens it: a table another process writes in between is
  replaced unasked, so `LostOnlyIfAgreed` speaks of tables that were seen. Consent is to the deletion, which comes
  before the work: declining at the plan, a failure or a crash after it leaves neither the old
  table nor a new one, and a failed run leaves a file that stops a retry in JSON mode.
  `resample` onto its own input deletes it, after consent, and then fails.
* A histogram has a bin of its own for the greatest value and counts NULL in the first
  bin; more rows or columns than a heatmap shows, and NULL coordinates, overwrite cells: `HeatmapTrue` says where it is exact.

## 6. What is proved

Every theorem below is checked by TLAPS to the last leaf, and holds for every value of the
constants that the named assumptions allow. Each has the form `Spec => []P`, where `P` is the property a run checks, unless
another form is given. The pattern is the same throughout: an inductive invariant of
named parts, one lemma per action that the action keeps it, a lemma that puts the actions together, and a
theorem that draws the property from it. None of the properties is inductive as it stands, and the parts say what was missing.

| Module | Theorems (property) | Assumptions |
|---|---|---|
| `ReadGeoScanProofs` | `TypeCorrect`, `NoRowTwice` (`RowInOnePlace`), `NoRowForgotten` (`RowsAccounted`), `OnlyParkedRowsMissing` (`MissingIsParked`), `ScanComplete` (`CompleteAtEnd`), `DeliveryInOrder` (`DeliveredGapless`), `VectorFilledExactly` (`VectorExact`); `ScanImplementsContract`: `~MayMigrate => (Spec => DeliveryContract)` | `ScanAssumption` |
| `WindowedReadProofs` | `QueryTyped` (`TypeOK`), `WindowBecomesItsBox` (`BoundsExact`), `ChunksAsPlanned` (`PlanExact`), `EveryCellOnce` (`CellsOnce`), `NeverFails` (`MatchingNeverFails`), `ValuesAreTrue` (`ValuesTrue`); `PlacesTrue`: `Spec => [](~BandColumns => PlaceTrue)` | `ReadAssumption`, `RequestsAssumption`, `ImagesAssumption` |
| `ExportPipelineProofs` | `ExportTyped` (`TypeOK`), `MemoryStaysBounded` (`MemoryBounded`), `SuccessLeavesNothing` (`NothingLeftBehind`) | `ExportAssumption` |
| `ExportContentProofs` | `ExportStoresTheQuery` (`ExportExact`); `ExportImplementsContract`: `Spec => ArrayContract` | `ExportAssumption` |
| `McpSessionProofs` | `SessionTyped` (`TypeOK`), `AnswersAreOwn` (`AnswerOwn`), `HandlesHold` (`HandleHolds`), `WatchdogsOfHolder` (`WatchdogOfHolder`) | `McpAssumption` |
| `StacSearchProofs` | `SearchTyped` (`TypeOK`), `EveryItemOnce` (`ItemsOnce`), `StackIsWhole` (`WholeUnlessCut`), `NoHeaderLost` (`JoinLosesNothing`), `StackHasOneGrid` (`OneGrid`), `SlicesInTime` (`SliceOfItsTime`), `ReadsInTime` (`ReadAtItsTime`) | `SearchAssumption`, `ItemsDistinct` |
| `EiderCliProofs` | `NothingLostUnasked`: `Spec => LostOnlyIfAgreed` (a step property, from no assumption); `CommandsTyped` (`TypeOK`), `SuccessMeansResult` (`SuccessHasResult`), `OneDocumentEach` (`OneDocument`) | `JobsAssumption` |

What the assumptions say beyond the kinds of the numbers:

* `RequestsAssumption`: a window's end or a pin is a number if it is given, and a dataset that
  opens is regular: no empty dimension, sizes below half the index range, coordinates sorted in one
  direction (which `translate_filter`'s bisection relies on) and, on a 0..360 axis, on it.
* `ImagesAssumption`: the sources are of the four kinds, and an image that opens is of surveyed files: the header
  window holds the affine of a georeferenced file, as scale and tie point or as a matrix, in
  one directory entry each, and a file without georeference has no such entry (`Surveyed`); no array beside the
  image is named like its axes; the axes of a stack are shorter than `MaxCoordinates` and, as a
  longitude, do not pass 180, because `CoordinateResolver` would read such coordinates as an axis on 0..360;
  and its images have one band. The file is a tiled one that keeps what it says (`Tiled`): the directory
  has an offset and a byte count per tile, row by row, and at each offset is that tile or something that does not
  inflate. Nothing is assumed of where the lists lie, so the header read may reach none, some or all of
  either. An element of a plain array is written as its cell, and those that hold the fill value are
  listed (`filled`), so the fill value is no cell.
* `ExportAssumption`: an export has a finite result, of rows with one coordinate per dimension. A result
  without rows is refused before the export starts.
* `McpAssumption`: a call runs one of the server's tools (`Tools`).
* `SearchAssumption`, `ItemsDistinct`: a server has finitely many pages, a page links to one next
  page at most, an item has one time at most, and the collections list an item once.
* `JobsAssumption`: `main.rs` requires every path of a command but the output of `extract` and
  the database of `export`; two names of one file count as one path.

TLC evaluates each assumption on the instances of section 3.

### The scan
`RowInOnePlace` says nothing of chunks that are claimed but not read, and it is by reading one
of these that a thread could come to hold rows another has. The invariant adds:

* `EntryInOneHand`: during a call the thread's entry is out of the map, between calls it
  holds nothing else;
* `RowsClaimed`: rows exist only of chunks below `next_chunk`;
* `ReadersAlone`: a chunk being read is below `next_chunk`, no other thread reads it and nobody has
  rows of it;
* `EmptyReturn`, `SomeTaskLeft`, `NothingParked`: a call that returns no row has seen the end of the
  stream, some task is left while chunks are unclaimed, and without migration a
  thread without a task has parked nothing (these give completeness at the end);
* `CursorsGapless`: below a cursor every row of the chunk is in the vector or delivered;
* `VectorsCounted`: `valid_rows` counts the rows in the vector. A batch adds as many rows as it counts
  only because none of them is in the vector yet, which is `RowInOnePlace` again.

The refinement maps `delivered` to itself and `AllDone`/`stopped` to the contract's status,
using the invariant at the step that completes the scan.

### One query
The invariant is `QueryInv`: `Opening` (the dataset is what `open_with_asset` makes of the
request), `Bounding` (the box and both chunk counts are those of the query), `Reading` (the chunks
fetched so far are the first ones of the enumeration), `Writing` (cursor and vector).

* *Box.* `SortedWay`, `Bisection` and `FilterNarrows` prove `translate_filter` on
  sorted coordinates of any length and direction, `ShownAsStored` the shift of longitudes, `CoordRange`
  puts pins and both ends together. `TimesOrder`, `RoundedDivision` and `TransformRange` do the same for an axis
  with a transform, from the defining inequalities of a rounded quotient.
* *Plan.* `Products` says that the products of the dimensions' chunk counts, taken from the
  right, are those `CountChunks` and `PlanChunks` fold from the left; `QuotientsType`, `Carry` and `PositionAfter` that the divisions of
  `get_chunk_pos` are the carries of `GridIterator::next`.
* *Cells.* An index is determined by its digits to mixed radices and every list of digits has
  an index (`DivUnique`, `DivTwice`, `DigitsInjective`, `DigitsSurjective`, `RowMajor`): this serves both the
  position of a chunk in the grid and that of a cell in its chunk. `CellsOfChunk` and `ChunksOfBox` then say that the cells
  of the box are those of the chunks' clipped subsets, each of one place of one chunk
  (`CellsOfBox`). The further invariant `Telling` says that while chunk `k` is written up to
  `cursor`, the rows are exactly the cells before that place, and all distinct.

* *Columns.* `PopulateBatch` fills a column run by run, by a recursion on what is left of the batch;
  `FilledFrom` is its closed form (the coordinate of element `k` is that of its digit `(k div stride) mod size`), proved for every
  start within a run and every length, and `Placing` carries it to the rows. For an image
  the coordinate is then followed back to the file: `spatial_transform` of what the directory holds is
  the affine of a surveyed file (`PixelCentre`); a stack's coordinate arrays are those of the first item
  by time, and its grid is that of the item a row comes from, because `ResolveError` compared the grids.
  `BandColumns` excepts what the run `read_bands` refutes, and nothing else: a column of
  coordinates of an image of several bands with an affine.
* *Values.* `ElementPlace` says that element `k` of a clipped chunk is taken from the place of its cell
  in the chunk, and `PlaceBound` that the place is in it. For an image, `LongsRead` and `TilesRead` say what the
  header read makes of the lists of a `Tiled` file, `TileElements` that putting the bands apart moves
  each sample to its band's plane, `KeyOfTile` and `SliceOfChunk` that the chunk's key is routed to the tile of that row
  and column in the file of that time; `ImageChunk` puts them together, and `ElementShows` joins them with the plain arrays:
  each element of a chunk shows its cell, or NULL if it is the fill value, which is the `NullSample` of the image. The invariant `Valuing` carries that through the buffer and the batches to the rows. A
  chunk that is lost later could make an earlier row false, were it the same chunk: that it is
  another is `Reading`'s order of chunks (`ShowsElsewhere`).
* *No failure.* `Failing` says that a query has failed only if its box is inverted in some dimension or a byte
  count was not read. `ReadPossible` and `WritePossible` show each of the modelled ways to fail impossible otherwise: the subtractions and divisions of
  `get_chunk_pos` and of a subset's ends, a byte count that is not there, a whole chunk of the wrong size, a byte range outside the chunk, a
  division by the size or stride of an empty subset. A window that holds a cell has no inverted box (`AnswerableUpright`). The box of
  another window may be inverted; its rows have no values to be false (`NothingBuffered`).

### Export
`Inv` bounds the buffers (`Bounded`: at most one more than the limit holds, while a row is at hand),
ties the reader's and the uploader's phases (`Stages`) and follows every value to its chunk:
unless something failed, it is still to come or its chunk is being filled, queued, in the uploader's hands or
stored (`Covered`). `ContentInv` adds what is in the buffers: rows come in order
(`Sorted`), a buffer being filled has the values seen so far of its chunk and no other (`Part`), a sent one
all of them if eviction is safe (`Whole`), and then a chunk that still has a value to come
has its buffer open (`Open`). That the row-major place of a cell is in the buffer, and no
two cells share one, is proved for any chunk shape.

The refinement needs one more invariant, `InArray`: while the export runs, every row processed lies in the array (a
row that does not stops the export before anything is stored of it), each buffer on its way has
such a row, and no buffer is stored after the export has ended. Storing a chunk is then `Replace`, the
end of the query or an error in it `Break`, and every other step changes nothing that a reader of the
array can see.

### MCP
Each call has nine facts (`CallInv`): it is between lock and unlock exactly when it holds the
session (`Mutex`); a watchdog that may still fire belongs to a call in its tool (`Watched`);
while it waits it has done nothing (`Fresh`); the table it created is its own as long as it holds
the session, and later still there unless `run_sql` replaced it by its name (`Owned`, `Named`); it has a
number only from creating it (`Numbered`); what it has seen is its own (`SeenOwn`); and the
session variable is its box from setting it to using it (`Boxed`, `OwnBox`). `ToolsWellFormed` derives from the list of tools the three facts about
their order of statements that this needs.

### Search
`Inv` follows the phases: the items gathered are those of the pages visited (`Pages`,
`Searched`, `ItemsOnce`), the plan is sorted by time (`Layout`), every header read is to be
joined, read or panicked, and is one of the jobs (`Joining`), a child under construction is a prefix of
its asset's items (`Building`), and the result is the plan slot by slot (`Opening`). The order in which headers finish
appears nowhere in it: that is why it does not matter.

### Commands
`NothingLostUnasked` is about a step, so it needs an invariant of the states it starts from
(`Consent`): a process is at the deletion only if its user agreed; one whose user did
not agree has seen no table in its output, or waits for the answer, or has ended. Each action
then either changes no file (`Quiet`), or is taken by a process that may (`Entitled`).
`FileInv` adds where a command can be (`Proper`), that no two paths lead to one file and every path to an existing one
(`Stocked`), that an open file is open to one process and stays that of its path
(`Locked`), and that a writer that reports has its table in its file, to which its path leads
unless the user of another writer of the path agreed to its deletion (`Results`): `Locked` is what keeps
other processes away from the file until the report.

### Only model-checked

* Liveness (`ScanEnds`, `ExportEnds`, `AnsweredUnlessWedged`, `JsonEnds`): TLAPS does not handle fairness and ENABLED here.
* `HeatmapTrue`, `PictureWhole`: what folds over rows compute; the fold operators take an operator as a
  parameter, and what a fold computes for every input is induction over data.

Where a proof needs induction over a bounded index, `FiniteInduction` proves it
from the well-ordering of the naturals in a form without an operator parameter (a set of indices
in place of a predicate).

## 7. What is not modelled

* Of store resolution: the search for arrays in a group (`list_arrays`; its result is an input of
  EiderCli), query parameters of a URL, partial reads of one key.
* Of a COG: the bytes of a value, decompression, key listing. A directory entry occurs
  once per tag and its values are one of four types.
* Value and type conversion, SQL text, JSON shaping, message texts, colours, what is drawn on a
  terminal, shell completions, `--group-by` of a plot, what the user of `eider shell` types, the query sent to a STAC API.
* JSON and numpy decoding of Zarr metadata and chunks: bytes to structure, no state.
* Arrays of rank 0, and dimensions that are empty.
* The one-row flag of plan_read_geo and read_zarr_metadata: two accesses to one flag.
* Session setup beyond opening the database: calls into the engine that can only fail.
* Floating-point rounding of coordinates: values are integers.
* The `ensure_read_only` token scan: modelled by what it lets through.
* The web UI and the documentation site.

## 8. Plan

Done: every module of section 2, its runs, and the proofs of section 6. Left, the most telling first:

1. *Proofs.* Of EiderCli, the pictures, where a reference
   definition over sets can replace the folds.
2. *Abstract specifications.* McpSession as an implementation of calls that run
   one after another on a private session (linearizability of the tools).
3. *More of the model.* Partial reads of a key, with parts in any order and a failing one;
   `list_arrays`; the one-row protocol of the metadata functions.
