--------------------------- MODULE ExportPipeline ---------------------------
(***************************************************************************)
(* eider export (cli/src/export): run_export infers the array's shape from *)
(* the query, creates the array, and then streams the query's rows into    *)
(* chunk buffers.  The reader (StreamWriter::stream_data) fills the        *)
(* buffers, and when they take too much memory sends the one with the      *)
(* smallest grid position to a bounded channel; the ChunkUploader task     *)
(* stores what it receives, replacing the whole chunk.                     *)
(*                                                                         *)
(* The two run concurrently and meet in the channel.  DuckDB, the array    *)
(* library and the destination are external.  A non-null value is          *)
(* represented by the coordinates of its row.  Rows have distinct          *)
(* coordinates.                                                            *)
(***************************************************************************)
EXTENDS Integers, Sequences, FiniteSets, SequencesExt

CONSTANTS
  Jobs,         (* the exports explored, see below                         *)
  MaxVolume,    (* automatic chunk volume: 10_000_000 in the code          *)
  ElementBytes, (* bytes_per_element                                       *)
  MaxMemory,    (* max_memory_bytes: 512 MB in the code                    *)
  ChannelSize   (* capacity of the channel: 16 in the code                 *)

(* A job: rows, the coordinates of the query's rows; nulls, those whose     *)
(* value is NULL; chunks, the user's chunk size per dimension, {} if none;  *)
(* held, the chunks the destination holds from an earlier export.          *)
ASSUME ExportAssumption ==
  /\ MaxVolume \in Nat \ {0} /\ ElementBytes \in Nat \ {0}
  /\ MaxMemory \in Nat \ {0} /\ ChannelSize \in Nat \ {0}
  /\ \A job \in Jobs :
       /\ IsFiniteSet(job.rows) /\ job.rows # {} /\ job.nulls \subseteq job.rows
       /\ job.chunks \in Seq(SUBSET Nat)
       /\ \A d \in DOMAIN job.chunks : \A c, e \in job.chunks[d] : c = e
       /\ \A r \in job.rows : r \in Seq(Int) /\ Len(r) = Len(job.chunks)

VARIABLES
  job,           (* the export being run                                   *)
  phase,         (* the reader: "infer", "stream", "evict", "flush", "join", *)
                 (* then "success" or "error"; "refused" if it ended before *)
                 (* there was an array, "exit" after exit(1)               *)
  shape, chunk_shape,
  rows,          (* the rows the query has yet to yield, in its order      *)
  active_chunks, (* the buffers being filled, by grid position             *)
  stream_ok,     (* stream_result.is_ok()                                  *)
  tx_open,       (* some sender of the channel is alive                    *)
  channel,       (* the buffers sent and not received                      *)
  uploader,      (* "recv", "store", "done", or "dead"                     *)
  uploading,     (* the buffer the uploader is storing                     *)
  store          (* the chunks of the destination                          *)

vars == <<job, phase, shape, chunk_shape, rows, active_chunks, stream_ok, tx_open,
          channel, uploader, uploading, store>>
readerState == <<job, shape, chunk_shape, rows, active_chunks, stream_ok, tx_open>>

(* The array's fill value, a chunk of an earlier export, and no buffer.    *)
Fill == <<>>
Held == <<-1>>
NoBuffer == <<>>

Smaller(a, b) == IF a <= b THEN a ELSE b
Larger(a, b) == IF a >= b THEN a ELSE b

-----------------------------------------------------------------------------
(* Schema, chunk shape and the order of the rows.                          *)

(* infer_shape: COUNT(DISTINCT) of every coordinate column.                *)
InferShape(R) ==
  LET rank == Len(CHOOSE r \in R : TRUE)
  IN [d \in 1 .. rank |-> Cardinality({r[d] : r \in R})]

(* MetadataBuilder::build_array: whole dimensions while the volume allows, *)
(* and the user's sizes in place of these where given.                     *)
AutoChunk(volume, dim) ==
  IF volume * dim <= MaxVolume THEN dim ELSE Larger(1, MaxVolume \div volume)

AutoChunks(sh) ==
  LET volume[d \in 0 .. Len(sh)] ==
        IF d = 0 THEN 1 ELSE volume[d - 1] * AutoChunk(volume[d - 1], sh[d])
  IN [d \in DOMAIN sh |-> AutoChunk(volume[d - 1], sh[d])]

ChunkShape(sh, user) ==
  [d \in DOMAIN sh |-> IF user[d] = {} THEN AutoChunks(sh)[d]
                       ELSE CHOOSE c \in user[d] : TRUE]

(* build_stream_query: ORDER BY c / chunk of every column, then c.  The    *)
(* engine's division keeps the fraction, so the first keys alone order the *)
(* rows, and they order them as the coordinates do.                        *)
Precedes(a, b) ==
  \E d \in DOMAIN a : a[d] < b[d] /\ \A e \in 1 .. d - 1 : a[e] = b[e]

StreamOrder(R) ==
  [i \in 1 .. Cardinality(R) |->
     CHOOSE r \in R : Cardinality({q \in R : Precedes(q, r)}) = i - 1]

-----------------------------------------------------------------------------
(* Buffers.                                                                *)

Volume(cs) ==
  LET volume[d \in 0 .. Len(cs)] == IF d = 0 THEN 1 ELSE volume[d - 1] * cs[d]
  IN volume[Len(cs)]
ChunkBytes == Volume(chunk_shape) * ElementBytes

(* calculate_indices: the chunk of a row and its place in the buffer.      *)
GridCoord(r, cs) == [d \in DOMAIN r |-> r[d] \div cs[d]]
(* Faulty FlatIdx: the first dimension varies fastest.                     *)
FlatIdxColumnMajor(r, cs) ==
  LET flat[d \in 0 .. Len(cs)] ==
        LET e == Len(cs) + 1 - d
        IN IF d = 0 THEN 0 ELSE flat[d - 1] * cs[e] + (r[e] % cs[e])
  IN flat[Len(cs)]

FlatIdx(r, cs) ==
  LET flat[d \in 0 .. Len(cs)] == IF d = 0 THEN 0 ELSE flat[d - 1] * cs[d] + (r[d] % cs[d])
  IN flat[Len(cs)]

(* Faulty OutOfBounds: a coordinate below the array is let through.        *)
OutOfBoundsAbove(r) == \E d \in DOMAIN r : r[d] >= shape[d]

OutOfBounds(r) == \E d \in DOMAIN r : r[d] < 0 \/ r[d] >= shape[d]

EmptyBuffer == [i \in 0 .. Volume(chunk_shape) - 1 |-> Fill]

(* dispatch_chunk: a NULL neither writes nor opens a buffer.               *)
Dispatch(r) ==
  LET g == GridCoord(r, chunk_shape)
      buffer == IF g \in DOMAIN active_chunks THEN active_chunks[g] ELSE EmptyBuffer
  IN IF r \in job.nulls THEN active_chunks
     ELSE [h \in DOMAIN active_chunks \cup {g} |->
             IF h = g THEN [buffer EXCEPT ![FlatIdx(r, chunk_shape)] = r]
             ELSE active_chunks[h]]

(* Faulty MemoryFull: the limit is compared with one buffer.               *)
MemoryFullOne(buffers) == buffers # <<>> /\ ChunkBytes > MaxMemory

MemoryFull(buffers) == Cardinality(DOMAIN buffers) * ChunkBytes >= MaxMemory

(* BTreeMap::pop_first: the smallest grid position.                        *)
FirstKey == CHOOSE g \in DOMAIN active_chunks :
              \A h \in DOMAIN active_chunks \ {g} : Precedes(g, h)
WithoutFirst == [g \in DOMAIN active_chunks \ {FirstKey} |-> active_chunks[g]]

-----------------------------------------------------------------------------
Init ==
  /\ job \in Jobs
  /\ phase = "infer"
  /\ shape = <<>> /\ chunk_shape = <<>>
  /\ rows = <<>>
  /\ active_chunks = <<>>
  /\ stream_ok = TRUE
  /\ tx_open = TRUE
  /\ channel = <<>>
  /\ uploader = "recv"
  /\ uploading = NoBuffer
  /\ store = [g \in job.held |-> Held]

(* run_export up to the first row: pass 1, and the array's metadata.  The   *)
(* query may fail, as may the store; a chunk size of 0 is refused, and so   *)
(* are a type without a fill value and metadata that cannot be written.     *)
Infer ==
  /\ phase = "infer"
  /\ shape' = InferShape(job.rows)
  /\ chunk_shape' = ChunkShape(shape', job.chunks)
  /\ \/ phase' = "refused" /\ rows' = rows
     \/ /\ 0 \notin Range(chunk_shape')
        /\ phase' = "stream" /\ rows' = StreamOrder(job.rows)
  /\ UNCHANGED <<job, active_chunks, stream_ok, tx_open, channel, uploader,
                 uploading, store>>

(* The streaming loop ends, by its last row or by an error.                *)
EndStream(ok) ==
  /\ stream_ok' = ok
  /\ phase' = "flush"
  /\ UNCHANGED <<job, shape, chunk_shape, rows, active_chunks, tx_open, channel,
                 uploader, uploading, store>>

LastRow == phase = "stream" /\ rows = <<>> /\ EndStream(TRUE)
QueryFails == phase = "stream" /\ rows # <<>> /\ EndStream(FALSE)
RejectRow ==
  phase = "stream" /\ rows # <<>> /\ OutOfBounds(Head(rows)) /\ EndStream(FALSE)

(* process_row, up to its eviction loop.                                   *)
ProcessRow ==
  /\ phase = "stream" /\ rows # <<>> /\ ~OutOfBounds(Head(rows))
  /\ active_chunks' = Dispatch(Head(rows))
  /\ rows' = Tail(rows)
  /\ phase' = IF MemoryFull(active_chunks') THEN "evict" ELSE "stream"
  /\ UNCHANGED <<job, shape, chunk_shape, stream_ok, tx_open, channel, uploader,
                 uploading, store>>

(* Faulty SendFirst: the channel has no capacity.                          *)
SendFirstUnbounded ==
  /\ uploader # "dead"
  /\ channel' = Append(channel, [grid |-> FirstKey, data |-> active_chunks[FirstKey]])
  /\ active_chunks' = WithoutFirst

(* blocking_send of the first buffer: it waits for room in the channel.    *)
SendFirst ==
  /\ uploader # "dead" /\ Len(channel) < ChannelSize
  /\ channel' = Append(channel, [grid |-> FirstKey, data |-> active_chunks[FirstKey]])
  /\ active_chunks' = WithoutFirst

(* One turn of process_row's eviction loop.                                *)
Evict ==
  /\ phase = "evict"
  /\ SendFirst
  /\ phase' = IF MemoryFull(active_chunks') THEN "evict" ELSE "stream"
  /\ UNCHANGED <<job, shape, chunk_shape, rows, stream_ok, tx_open, uploader,
                 uploading, store>>

(* The channel is closed: the popped buffer is lost and the loop ends.     *)
EvictFails ==
  /\ phase = "evict" /\ uploader = "dead"
  /\ active_chunks' = WithoutFirst
  /\ stream_ok' = FALSE
  /\ phase' = "flush"
  /\ UNCHANGED <<job, shape, chunk_shape, rows, tx_open, channel, uploader,
                 uploading, store>>

(* The remaining buffers are sent, even after an error, and what fails to  *)
(* be sent is ignored; then the sender is dropped.                         *)
Flush ==
  /\ phase = "flush" /\ active_chunks # <<>>
  /\ \/ SendFirst
     \/ /\ uploader = "dead"
        /\ active_chunks' = WithoutFirst /\ channel' = channel
  /\ UNCHANGED <<job, phase, shape, chunk_shape, rows, stream_ok, tx_open, uploader,
                 uploading, store>>

(* Faulty Flushed: the sender lives until the task has been joined.        *)
FlushedTxAlive ==
  /\ phase = "flush" /\ active_chunks = <<>>
  /\ phase' = "join"
  /\ UNCHANGED <<job, shape, chunk_shape, rows, active_chunks, stream_ok, tx_open,
                 channel, uploader, uploading, store>>

Flushed ==
  /\ phase = "flush" /\ active_chunks = <<>>
  /\ tx_open' = FALSE
  /\ phase' = "join"
  /\ UNCHANGED <<job, shape, chunk_shape, rows, active_chunks, stream_ok, channel,
                 uploader, uploading, store>>

(* Faulty Join: the task is not awaited.                                   *)
JoinNotAwaited ==
  /\ phase = "join"
  /\ phase' = IF stream_ok THEN "success" ELSE "error"
  /\ UNCHANGED <<readerState, channel, uploader, uploading, store>>

(* The upload task is awaited, then stream_result decides.                 *)
Join ==
  /\ phase = "join" /\ uploader \in {"done", "dead"}
  /\ phase' = IF uploader = "done" /\ stream_ok THEN "success" ELSE "error"
  /\ UNCHANGED <<readerState, channel, uploader, uploading, store>>

(* The uploader's loop.                                                    *)
Recv ==
  /\ uploader = "recv" /\ channel # <<>>
  /\ uploading' = Head(channel)
  /\ channel' = Tail(channel)
  /\ uploader' = "store"
  /\ UNCHANGED <<readerState, phase, store>>

StoreChunk ==
  /\ uploader = "store"
  /\ store' = [g \in DOMAIN store \cup {uploading.grid} |->
                 IF g = uploading.grid THEN uploading.data ELSE store[g]]
  /\ uploading' = NoBuffer
  /\ uploader' = "recv"
  /\ UNCHANGED <<readerState, phase, channel>>

(* async_store_chunk_elements fails: the process exits with status 1.      *)
StoreFails ==
  /\ uploader = "store"
  /\ phase' = "exit"
  /\ uploader' = "dead"
  /\ uploading' = NoBuffer
  /\ UNCHANGED <<readerState, channel, store>>

(* It panics: the task ends, and the receiver is dropped with it.          *)
StorePanics ==
  /\ uploader = "store"
  /\ uploader' = "dead"
  /\ uploading' = NoBuffer
  /\ channel' = <<>>
  /\ UNCHANGED <<readerState, phase, store>>

AllReceived ==
  /\ uploader = "recv" /\ channel = <<>> /\ ~tx_open
  /\ uploader' = "done"
  /\ UNCHANGED <<readerState, phase, channel, uploading, store>>

Reader ==
  \/ Infer \/ LastRow \/ QueryFails \/ RejectRow \/ ProcessRow \/ Evict \/ EvictFails
  \/ Flush \/ Flushed \/ Join

Uploader == Recv \/ StoreChunk \/ StoreFails \/ StorePanics \/ AllReceived

Ended == phase \in {"success", "refused", "error", "exit"}
Stay == Ended /\ UNCHANGED vars

Next == Reader \/ Uploader \/ Stay

Spec == Init /\ [][Next]_vars

(* The query yields its rows, the destination answers, and the runtime     *)
(* runs the reader and the uploader on different threads.                  *)
FairSpec == Spec /\ WF_vars(Reader) /\ WF_vars(Uploader)

-----------------------------------------------------------------------------
(* Properties                                                              *)

TypeOK ==
  /\ phase \in {"infer", "stream", "evict", "flush", "join",
                "success", "refused", "error", "exit"}
  /\ Len(channel) <= ChannelSize
  /\ uploader \in {"recv", "store", "done", "dead"}
  /\ uploader = "store" <=> uploading # NoBuffer
  /\ \A g \in DOMAIN active_chunks :
       active_chunks[g] \in [0 .. Volume(chunk_shape) - 1 -> job.rows \cup {Fill}]

Written == job.rows \ job.nulls

(* The positions of an array of shape sh.                                  *)
Positions(sh) ==
  {c \in [DOMAIN sh -> UNION {0 .. sh[d] - 1 : d \in DOMAIN sh}] :
     \A d \in DOMAIN sh : c[d] < sh[d]}

(* What a reader of the destination finds at a cell of the array: a stored *)
(* chunk is laid out in the row-major order of its cells.                  *)
CellValue(c) ==
  LET g == GridCoord(c, chunk_shape)
      place == [d \in DOMAIN c |-> c[d] % chunk_shape[d]]
      Before == {q \in Positions(chunk_shape) : Precedes(q, place)}
  IN IF g \notin DOMAIN store THEN Fill
     ELSE IF store[g] = Held THEN Held
     ELSE store[g][Cardinality(Before)]

Cells == Positions(shape)

(* Chunks that some value of the query belongs to.                         *)
Touched == {GridCoord(r, chunk_shape) : r \in Written}

(* No buffer is sent before its last row: either all of them fit, or one    *)
(* does and the rows come in the order of their chunks, which is the order  *)
(* they are sent in.                                                       *)
EvictionIsSafe ==
  \/ Cardinality(Touched) * ChunkBytes < MaxMemory
  \/ /\ ChunkBytes < MaxMemory
     /\ \A r, q \in job.rows :
          Precedes(r, q) => ~Precedes(GridCoord(q, chunk_shape), GridCoord(r, chunk_shape))

(* A successful export whose chunks are complete when they are sent stored *)
(* every value at its cell, and the fill value at the other cells of the   *)
(* chunks it touched; it leaves the chunks it did not touch as they were.  *)
ExportExact ==
  (phase = "success" /\ EvictionIsSafe) =>
    \A c \in Cells :
      CellValue(c) = IF c \in Written THEN c
                     ELSE IF GridCoord(c, chunk_shape) \in job.held \ Touched THEN Held
                     ELSE Fill

(* Success is reported only when every buffer that was opened reached the  *)
(* destination: none is left behind in the map, in the channel, or with an *)
(* uploader that died, although failures to send are ignored at the end.   *)
NothingLeftBehind ==
  phase = "success" =>
    /\ active_chunks = <<>> /\ channel = <<>> /\ uploading = NoBuffer
    /\ \A g \in Touched : g \in DOMAIN store /\ store[g] # Held

(* The buffers alive at any time, filled, queued or being stored, take at  *)
(* most the limit, the channel and the two in hand.                        *)
MemoryBounded ==
  phase # "infer" =>
    (Cardinality(DOMAIN active_chunks) + Len(channel)
       + IF uploading = NoBuffer THEN 0 ELSE 1) * ChunkBytes
      < MaxMemory + (ChannelSize + 2) * ChunkBytes

(* The array exists once its metadata is written.  A reader then finds a    *)
(* value at each cell.                                                     *)
Created == phase \notin {"infer", "refused"}
Shown == IF Created THEN [c \in Cells |-> CellValue(c)] ELSE <<>>
Layout == IF Created THEN [c \in Cells |-> GridCoord(c, chunk_shape)] ELSE <<>>

Status ==
  CASE phase = "infer" -> "new"
    [] phase = "success" -> "success"
    [] phase \in {"refused", "error", "exit"} -> "failed"
    [] OTHER -> IF stream_ok THEN "open" ELSE "broken"

(* The export implements what it promises about the array: in particular   *)
(* it never shows a value at another's cell, touches no other chunk, and   *)
(* reports success only if every value of the query has its cell.          *)
Contract == INSTANCE ArrayExport WITH
  values <- Written, held <- job.held, array <- Shown, chunk <- Layout,
  whole <- Created /\ EvictionIsSafe, status <- Status

ArrayContract == Contract!Spec

(* Every export ends, although the reader waits for room in the channel    *)
(* and for the uploader, and the uploader for buffers or the sender's end. *)
ExportEnds == <>Ended

(* docs: export writes the result of the query to the array.               *)
QueryResultStored ==
  phase = "success" => \A r \in Written : CellValue(r) = r

=============================================================================
