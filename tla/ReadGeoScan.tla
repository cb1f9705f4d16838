---------------------------- MODULE ReadGeoScan -----------------------------
(***************************************************************************)
(* The parallel scan behind read_geo: ReadGeoVTab::func and                *)
(* write_chunk_unified (extension/src), run by the engine's worker threads. *)
(*                                                                         *)
(* The threads share an atomic counter of chunks, next_chunk, and a map of *)
(* per-thread states under a mutex, local_states.  One call of func takes   *)
(* the calling thread's state out of the map, fills one output vector from  *)
(* it (claiming and reading chunks as it runs out of rows), and puts the    *)
(* state back.  Every access to shared state is a step of its own here, so  *)
(* the calls of different threads interleave between any two of them.       *)
(*                                                                         *)
(* The engine is external: it starts MaxTasks tasks, runs each on a thread, *)
(* calls func until a call returns no row, and may give the query up at any *)
(* time (LIMIT, interrupt, failure elsewhere).  Tasks are anonymous, since  *)
(* func keys everything by thread.  MayMigrate says whether the engine may  *)
(* take an unfinished task off its thread between two calls and continue it *)
(* on another one.                                                          *)
(***************************************************************************)
EXTENDS Integers, FiniteSets

CONSTANTS
  Threads,     (* the engine's worker threads                              *)
  MaxTasks,    (* tasks the engine starts for one scan                     *)
  NumChunks,   (* ZarrChunkStream.num_chunks                               *)
  ChunkRows,   (* elements read_chunk returns for each chunk               *)
  VectorSize,  (* rows of an output vector: 2048 in the code               *)
  MayMigrate   (* a task may continue on another thread                    *)

ASSUME ScanAssumption ==
  /\ MaxTasks \in Nat \ {0}
  /\ NumChunks \in Nat
  /\ ChunkRows \in [0 .. NumChunks - 1 -> Nat]
  /\ VectorSize \in Nat \ {0}
  /\ MayMigrate \in BOOLEAN

VARIABLES
  next_chunk,    (* AtomicU64: the next chunk nobody has claimed           *)
  local_states,  (* the map ThreadId -> LocalState; no entry reads as Fresh *)
  ready,         (* tasks that wait for a thread                           *)
  stopped,       (* a call failed, or the engine gave the query up         *)
  pc,            (* where each thread is, see PCs                          *)
  state,         (* the LocalState a running call took from the map        *)
  chunk_idx,     (* the chunk a running call claimed                       *)
  vector,        (* the rows in a running call's output vector             *)
  valid_rows,    (* how many rows a running call has written               *)
  delivered      (* the rows the engine received                           *)

shared == <<next_chunk, local_states, delivered>>
engine == <<ready, stopped>>
vars == <<next_chunk, local_states, ready, stopped, pc, state, chunk_idx,
          vector, valid_rows, delivered>>

Chunks == 0 .. NumChunks - 1
NoChunk == -1

AllRows == UNION {{c} \X (0 .. ChunkRows[c] - 1) : c \in Chunks}

(* A LocalState: the buffered chunk (NoChunk when the buffer is None) and  *)
(* the cursor into its elements, never past their end.                     *)
LocalState ==
  {s \in [chunk : Chunks \cup {NoChunk}, cursor : Nat] :
     s.chunk # NoChunk => s.cursor <= ChunkRows[s.chunk]}
Fresh == [chunk |-> NoChunk, cursor |-> 0]

(* The rows a LocalState still has to write.                               *)
Tail(s) ==
  IF s.chunk = NoChunk THEN {}
  ELSE {s.chunk} \X (s.cursor .. ChunkRows[s.chunk] - 1)

(* "off": no task; "between": a task, no call of func; "loop", "read" and  *)
(* "exit": inside func, at the head of the loop, between fetch_add and the *)
(* end of read_chunk, and after the loop.                                  *)
PCs == {"off", "between", "loop", "read", "exit"}

Goto(t, label) == pc' = [pc EXCEPT ![t] = label]

Least(a, b) == IF a <= b THEN a ELSE b

-----------------------------------------------------------------------------
(* Faulty variants of the operations below, each one slip away from the    *)
(* code; every property is violated by one of them.                        *)

(* The state is read from the map and not removed.                         *)
CallKeepsEntry(t) ==
  /\ pc[t] = "between" /\ ~stopped
  /\ state' = [state EXCEPT ![t] = local_states[t]]
  /\ vector' = [vector EXCEPT ![t] = {}]
  /\ valid_rows' = [valid_rows EXCEPT ![t] = 0]
  /\ Goto(t, "loop")
  /\ UNCHANGED <<next_chunk, local_states, ready, stopped, chunk_idx, delivered>>

(* The cursor of the previous chunk survives into the next one.            *)
ReadChunkKeepsCursor(t) ==
  /\ pc[t] = "read" /\ chunk_idx[t] < NumChunks
  /\ state' = [state EXCEPT ![t].chunk = chunk_idx[t]]
  /\ Goto(t, "loop")
  /\ UNCHANGED <<next_chunk, local_states, ready, stopped, chunk_idx, vector,
                 valid_rows, delivered>>

(* The last chunk is taken for the end of the stream.                      *)
PastEndEarly(idx) == idx >= NumChunks - 1

(* The batch is not limited to the room left in the output vector.         *)
BatchIgnoresRoom(s, valid) == ChunkRows[s.chunk] - s.cursor

(* The state is put back only when its buffer is empty.                    *)
ReturnDropsBuffer(t) ==
  /\ pc[t] = "exit"
  /\ local_states' = [local_states EXCEPT ![t] =
       IF state[t].chunk = NoChunk THEN state[t] ELSE Fresh]
  /\ state' = [state EXCEPT ![t] = Fresh]
  /\ delivered' = delivered \cup vector[t]
  /\ vector' = [vector EXCEPT ![t] = {}]
  /\ valid_rows' = [valid_rows EXCEPT ![t] = 0]
  /\ Goto(t, IF valid_rows[t] = 0 THEN "off" ELSE "between")
  /\ UNCHANGED <<next_chunk, ready, stopped, chunk_idx>>

(* An exhausted buffer becomes None only when its cursor is past the end.  *)
AfterBatchStrict(s, n) ==
  [chunk |-> IF s.cursor + n > ChunkRows[s.chunk] THEN NoChunk ELSE s.chunk,
   cursor |-> s.cursor + n]

-----------------------------------------------------------------------------
Init ==
  /\ next_chunk = 0
  /\ local_states = [t \in Threads |-> Fresh]
  /\ ready = MaxTasks
  /\ stopped = FALSE
  /\ pc = [t \in Threads |-> "off"]
  /\ state = [t \in Threads |-> Fresh]
  /\ chunk_idx = [t \in Threads |-> 0]
  /\ vector = [t \in Threads |-> {}]
  /\ valid_rows = [t \in Threads |-> 0]
  /\ delivered = {}

(* The engine runs a waiting task on a thread.                             *)
TakeTask(t) ==
  /\ pc[t] = "off" /\ ready > 0 /\ ~stopped
  /\ ready' = ready - 1
  /\ Goto(t, "between")
  /\ UNCHANGED <<shared, stopped, state, chunk_idx, vector, valid_rows>>

(* The engine takes an unfinished task off its thread.                     *)
YieldTask(t) ==
  /\ MayMigrate
  /\ pc[t] = "between"
  /\ ready' = ready + 1
  /\ Goto(t, "off")
  /\ UNCHANGED <<shared, stopped, state, chunk_idx, vector, valid_rows>>

(* func is called: under the mutex, the thread's state leaves the map.     *)
Call(t) ==
  /\ pc[t] = "between" /\ ~stopped
  /\ state' = [state EXCEPT ![t] = local_states[t]]
  /\ local_states' = [local_states EXCEPT ![t] = Fresh]
  /\ vector' = [vector EXCEPT ![t] = {}]
  /\ valid_rows' = [valid_rows EXCEPT ![t] = 0]
  /\ Goto(t, "loop")
  /\ UNCHANGED <<next_chunk, engine, chunk_idx, delivered>>

(* The buffer is None: fetch_add claims the next chunk.                    *)
ClaimChunk(t) ==
  /\ pc[t] = "loop" /\ state[t].chunk = NoChunk
  /\ chunk_idx' = [chunk_idx EXCEPT ![t] = next_chunk]
  /\ next_chunk' = next_chunk + 1
  /\ Goto(t, "read")
  /\ UNCHANGED <<local_states, delivered, engine, state, vector, valid_rows>>

(* ZarrChunkStream::read_chunk has no chunk at this index.                 *)
PastEnd(idx) == idx >= NumChunks

(* read_chunk returns a chunk.                                             *)
ReadChunk(t) ==
  /\ pc[t] = "read" /\ ~PastEnd(chunk_idx[t])
  /\ state' = [state EXCEPT ![t] = [chunk |-> chunk_idx[t], cursor |-> 0]]
  /\ Goto(t, "loop")
  /\ UNCHANGED <<shared, engine, chunk_idx, vector, valid_rows>>

(* read_chunk returns None: the loop ends with the rows written so far.    *)
EndOfStream(t) ==
  /\ pc[t] = "read" /\ PastEnd(chunk_idx[t])
  /\ Goto(t, "exit")
  /\ UNCHANGED <<shared, engine, state, chunk_idx, vector, valid_rows>>

(* read_chunk fails: func returns the error, the state it took from the    *)
(* map is dropped with the output vector, and the query has failed.        *)
ReadError(t) ==
  /\ pc[t] = "read" /\ ~PastEnd(chunk_idx[t])
  /\ state' = [state EXCEPT ![t] = Fresh]
  /\ vector' = [vector EXCEPT ![t] = {}]
  /\ valid_rows' = [valid_rows EXCEPT ![t] = 0]
  /\ stopped' = TRUE
  /\ Goto(t, "off")
  /\ UNCHANGED <<shared, ready, chunk_idx>>

(* How many rows one turn of the loop writes, which ones, and the state    *)
(* that is left: an exhausted buffer becomes None.                         *)
Batch(s, valid) == Least(ChunkRows[s.chunk] - s.cursor, VectorSize - valid)

BatchRows(s, n) == {s.chunk} \X (s.cursor .. s.cursor + n - 1)

AfterBatch(s, n) ==
  [chunk |-> IF s.cursor + n >= ChunkRows[s.chunk] THEN NoChunk ELSE s.chunk,
   cursor |-> s.cursor + n]

(* One turn of the loop; a full vector ends it.                            *)
EmitBatch(t) ==
  /\ pc[t] = "loop" /\ state[t].chunk # NoChunk
  /\ LET n == Batch(state[t], valid_rows[t])
     IN /\ vector' = [vector EXCEPT ![t] = @ \cup BatchRows(state[t], n)]
        /\ valid_rows' = [valid_rows EXCEPT ![t] = @ + n]
        /\ state' = [state EXCEPT ![t] = AfterBatch(@, n)]
        /\ Goto(t, IF valid_rows[t] + n >= VectorSize THEN "exit" ELSE "loop")
  /\ UNCHANGED <<shared, engine, chunk_idx>>

(* func returns: under the mutex the state goes back into the map, and the *)
(* engine receives the vector.  An empty vector ends the task.             *)
Return(t) ==
  /\ pc[t] = "exit"
  /\ local_states' = [local_states EXCEPT ![t] = state[t]]
  /\ state' = [state EXCEPT ![t] = Fresh]
  /\ delivered' = delivered \cup vector[t]
  /\ vector' = [vector EXCEPT ![t] = {}]
  /\ valid_rows' = [valid_rows EXCEPT ![t] = 0]
  /\ Goto(t, IF valid_rows[t] = 0 THEN "off" ELSE "between")
  /\ UNCHANGED <<next_chunk, engine, chunk_idx>>

(* Every task is done, or the query was stopped and no thread works on it. *)
AllDone == (ready = 0 \/ stopped) /\ \A t \in Threads : pc[t] = "off"

(* The engine gives the query up.                                          *)
Cancel ==
  /\ ~stopped /\ ~AllDone
  /\ stopped' = TRUE
  /\ UNCHANGED <<shared, ready, pc, state, chunk_idx, vector, valid_rows>>

(* A stopped query's task ends before its next call of func.               *)
Abandon(t) ==
  /\ stopped /\ pc[t] = "between"
  /\ Goto(t, "off")
  /\ UNCHANGED <<shared, engine, state, chunk_idx, vector, valid_rows>>

Finished == AllDone /\ UNCHANGED vars

Func(t) ==
  \/ Call(t) \/ ClaimChunk(t) \/ ReadChunk(t) \/ EndOfStream(t)
  \/ ReadError(t) \/ EmitBatch(t) \/ Return(t)

Next ==
  \/ \E t \in Threads : Func(t) \/ TakeTask(t) \/ YieldTask(t) \/ Abandon(t)
  \/ Cancel
  \/ Finished

Spec == Init /\ [][Next]_vars

(* The engine keeps running the tasks it started, a call of func is never  *)
(* suspended for ever, and read_chunk returns (with a chunk or an error).  *)
Fairness ==
  \A t \in Threads : WF_vars(Func(t)) /\ WF_vars(TakeTask(t)) /\ WF_vars(Abandon(t))

FairSpec == Spec /\ Fairness

-----------------------------------------------------------------------------
(* Properties                                                              *)

TypeOK ==
  /\ next_chunk \in Nat
  /\ local_states \in [Threads -> LocalState]
  /\ ready \in Nat
  /\ stopped \in BOOLEAN
  /\ pc \in [Threads -> PCs]
  /\ state \in [Threads -> LocalState]
  /\ chunk_idx \in [Threads -> Nat]
  /\ vector \in [Threads -> SUBSET AllRows]
  /\ valid_rows \in [Threads -> 0 .. VectorSize]
  /\ delivered \in SUBSET AllRows

(* The places a thread keeps rows in: the state it holds, the state it     *)
(* parked in the map, and the vector it is filling.                        *)
Kept(t) == Tail(state[t]) \cup Tail(local_states[t]) \cup vector[t]

(* No row is ever in two places, so none can reach the engine twice: a     *)
(* chunk claimed by one thread is written by no other, the cursor of a     *)
(* parked buffer is past every row already written from it, and a row in   *)
(* an unfinished vector has not been delivered.                            *)
RowInOnePlace ==
  /\ \A t \in Threads :
       /\ Kept(t) \cap delivered = {}
       /\ vector[t] \cap (Tail(state[t]) \cup Tail(local_states[t])) = {}
       /\ Tail(state[t]) \cap Tail(local_states[t]) = {}
  /\ \A t, u \in Threads : t # u => Kept(t) \cap Kept(u) = {}

(* set_len(valid_rows) announces exactly the rows written, at most a       *)
(* vector's worth: no row of the vector is overwritten or left unset.      *)
VectorExact ==
  \A t \in Threads :
    /\ valid_rows[t] = Cardinality(vector[t])
    /\ valid_rows[t] <= VectorSize

(* Until the query is stopped every row of the scan is accounted for: it   *)
(* was delivered, some thread keeps it, or its chunk is unclaimed or being *)
(* read.  A row can be missing at the end only from a parked state.        *)
RowsAccounted ==
  ~stopped =>
    \A r \in AllRows :
      \/ r \in delivered
      \/ \E t \in Threads : r \in Kept(t)
      \/ r[1] >= next_chunk
      \/ \E t \in Threads : pc[t] = "read" /\ chunk_idx[t] = r[1]

(* If tasks stay on their threads, a scan that was not stopped ends with   *)
(* every row delivered: the design's claim that a thread resumes its       *)
(* parked buffer on its next call of func.                                 *)
CompleteAtEnd == (AllDone /\ ~stopped /\ ~MayMigrate) => delivered = AllRows

(* At the end of a scan whose tasks do move between threads, the rows that *)
(* are missing are those of buffers parked by threads nobody called again. *)
MissingIsParked ==
  (AllDone /\ ~stopped) =>
    AllRows \ delivered = UNION {Tail(local_states[t]) : t \in Threads}

(* The rows of one chunk arrive in order and without a gap.                *)
DeliveredGapless ==
  \A r \in delivered : \A i \in 0 .. r[2] : <<r[1], i>> \in delivered

(* Every scan ends, whatever the interleaving.                             *)
ScanEnds == <>AllDone

(* The scan implements its delivery contract.                              *)
Contract == INSTANCE ScanDelivery WITH
  status <- IF ~AllDone THEN "open" ELSE IF stopped THEN "aborted" ELSE "complete"

DeliveryContract == Contract!Spec

=============================================================================
