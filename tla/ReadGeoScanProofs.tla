------------------------- MODULE ReadGeoScanProofs --------------------------
(* Theorems about ReadGeoScan, for every number of threads, tasks and      *)
(* chunks, every vector size, and with or without task migration.          *)
EXTENDS ReadGeoScan, FiniteSetTheorems, TLAPS

-----------------------------------------------------------------------------
(* Rows, batches and tails.                                                *)

(* The rows of the scan are the positions of its chunks.                   *)
LEMMA AllRowsMember ==
  /\ \A c \in Chunks : \A i \in 0 .. ChunkRows[c] - 1 : <<c, i>> \in AllRows
  /\ \A r \in AllRows : /\ r[1] \in Chunks
                        /\ r[2] \in 0 .. ChunkRows[r[1]] - 1
                        /\ r = <<r[1], r[2]>>
  BY DEF AllRows

(* A tail holds rows of the buffered chunk only, from the cursor on.       *)
LEMMA TailMember ==
  ASSUME NEW s \in LocalState
  PROVE  /\ Tail(s) \subseteq AllRows
         /\ \A r \in Tail(s) : s.chunk # NoChunk /\ r[1] = s.chunk
         /\ s.chunk # NoChunk => s.chunk \in Chunks
<1>1. s.chunk # NoChunk => s.chunk \in Chunks /\ s.cursor \in Nat
  BY DEF LocalState
<1>2. Tail(s) \subseteq AllRows
  BY <1>1, AllRowsMember DEF Tail
<1>. QED  BY <1>1, <1>2 DEF Tail

(* The fresh state is a LocalState without rows.                           *)
LEMMA FreshState ==
  Fresh \in LocalState /\ Tail(Fresh) = {} /\ Fresh.chunk = NoChunk
  BY DEF Fresh, LocalState, Tail, NoChunk

(* A batch and the state it leaves share the rows of the state it found:   *)
(* none is written twice and none is skipped.                              *)
LEMMA BatchSplitsTail ==
  ASSUME NEW s \in LocalState, s.chunk # NoChunk,
         NEW v \in 0 .. VectorSize,
         NEW n, n = Batch(s, v)
  PROVE  /\ n \in Nat /\ v + n \in 0 .. VectorSize
         /\ AfterBatch(s, n) \in LocalState
         /\ BatchRows(s, n) \subseteq Tail(s)
         /\ Tail(AfterBatch(s, n)) \subseteq Tail(s)
         /\ Tail(s) = BatchRows(s, n) \cup Tail(AfterBatch(s, n))
         /\ BatchRows(s, n) \cap Tail(AfterBatch(s, n)) = {}
<1>1. /\ s.chunk \in Chunks /\ s.cursor \in Nat
      /\ ChunkRows[s.chunk] \in Nat
      /\ s.cursor <= ChunkRows[s.chunk]
  BY ScanAssumption DEF LocalState, Chunks
<1>2. /\ n \in Nat /\ v + n \in 0 .. VectorSize
      /\ s.cursor + n <= ChunkRows[s.chunk]
  <2>1. PICK left \in Nat, room \in Nat :
          left = ChunkRows[s.chunk] - s.cursor /\ room = VectorSize - v
    BY <1>1, ScanAssumption
  <2>2. n \in Nat /\ n <= left /\ n <= room
    BY <2>1 DEF Batch, Least
  <2>. QED
    BY <1>1, <2>1, <2>2, ScanAssumption
<1>3. AfterBatch(s, n) \in LocalState
  BY <1>1, <1>2 DEF AfterBatch, LocalState, NoChunk
<1>4. CASE s.cursor + n >= ChunkRows[s.chunk]
  <2>1. Tail(AfterBatch(s, n)) = {}
    BY <1>4 DEF AfterBatch, Tail
  <2>2. BatchRows(s, n) = Tail(s)
    BY <1>1, <1>2, <1>4 DEF BatchRows, Tail
  <2>. QED  BY <1>2, <1>3, <2>1, <2>2
<1>5. CASE s.cursor + n < ChunkRows[s.chunk]
  <2>1. Tail(AfterBatch(s, n)) = {s.chunk} \X (s.cursor + n .. ChunkRows[s.chunk] - 1)
    BY <1>1, <1>2, <1>5 DEF AfterBatch, Tail
  <2>2. Tail(s) = {s.chunk} \X (s.cursor .. ChunkRows[s.chunk] - 1)
    BY DEF Tail
  <2>3. /\ BatchRows(s, n) \subseteq Tail(s)
        /\ Tail(AfterBatch(s, n)) \subseteq Tail(s)
    BY <1>1, <1>2, <1>5, <2>1, <2>2 DEF BatchRows
  <2>4. Tail(s) \subseteq BatchRows(s, n) \cup Tail(AfterBatch(s, n))
    BY <1>1, <1>2, <1>5, <2>1, <2>2 DEF BatchRows
  <2>5. BatchRows(s, n) \cap Tail(AfterBatch(s, n)) = {}
    BY <1>1, <1>2, <1>5, <2>1 DEF BatchRows
  <2>. QED  BY <1>2, <1>3, <2>3, <2>4, <2>5
<1>. QED  BY <1>1, <1>2, <1>4, <1>5

-----------------------------------------------------------------------------
(* Type correctness.                                                       *)

LEMMA TypeInit == Init => TypeOK
<1> SUFFICES ASSUME Init PROVE TypeOK
  OBVIOUS
<1>1. /\ local_states \in [Threads -> LocalState]
      /\ state \in [Threads -> LocalState]
  BY FreshState DEF Init
<1>2. /\ pc \in [Threads -> PCs]
      /\ chunk_idx \in [Threads -> Nat]
      /\ valid_rows \in [Threads -> 0 .. VectorSize]
  BY ScanAssumption DEF Init, PCs
<1>3. /\ vector \in [Threads -> SUBSET AllRows]
      /\ delivered \in SUBSET AllRows
  BY DEF Init
<1>. QED  BY <1>1, <1>2, <1>3, ScanAssumption DEF Init, TypeOK

LEMMA TypeStep == TypeOK /\ [Next]_vars => TypeOK'
<1> SUFFICES ASSUME TypeOK, [Next]_vars PROVE TypeOK'
  OBVIOUS
<1> USE DEF TypeOK, Goto, PCs, shared, engine
<1>1. ASSUME NEW t \in Threads, Call(t) PROVE TypeOK'
  BY <1>1, ScanAssumption, FreshState DEF Call
<1>2. ASSUME NEW t \in Threads, ClaimChunk(t) PROVE TypeOK'
  BY <1>2 DEF ClaimChunk
<1>3. ASSUME NEW t \in Threads, ReadChunk(t) PROVE TypeOK'
  <2>1. chunk_idx[t] \in Chunks
    BY <1>3, ScanAssumption DEF ReadChunk, PastEnd, Chunks
  <2>2. [chunk |-> chunk_idx[t], cursor |-> 0] \in LocalState
    BY <2>1, ScanAssumption DEF LocalState, Chunks
  <2>. QED  BY <1>3, <2>2 DEF ReadChunk
<1>4. ASSUME NEW t \in Threads, EndOfStream(t) PROVE TypeOK'
  BY <1>4 DEF EndOfStream
<1>5. ASSUME NEW t \in Threads, ReadError(t) PROVE TypeOK'
  BY <1>5, ScanAssumption, FreshState DEF ReadError
<1>6. ASSUME NEW t \in Threads, EmitBatch(t) PROVE TypeOK'
  <2> DEFINE n == Batch(state[t], valid_rows[t])
  <2>1. /\ valid_rows[t] + n \in 0 .. VectorSize
        /\ AfterBatch(state[t], n) \in LocalState
        /\ BatchRows(state[t], n) \subseteq AllRows
    BY <1>6, BatchSplitsTail, TailMember DEF EmitBatch
  <2>. QED  BY <1>6, <2>1 DEF EmitBatch
<1>7. ASSUME NEW t \in Threads, Return(t) PROVE TypeOK'
  BY <1>7, ScanAssumption, FreshState DEF Return
<1>8. ASSUME NEW t \in Threads, TakeTask(t) PROVE TypeOK'
  BY <1>8 DEF TakeTask
<1>9. ASSUME NEW t \in Threads, YieldTask(t) PROVE TypeOK'
  BY <1>9 DEF YieldTask
<1>10. ASSUME NEW t \in Threads, Abandon(t) PROVE TypeOK'
  BY <1>10 DEF Abandon
<1>11. CASE Cancel
  BY <1>11 DEF Cancel
<1>12. CASE Finished \/ UNCHANGED vars
  BY <1>12 DEF Finished, vars
<1>. QED
  BY <1>1, <1>2, <1>3, <1>4, <1>5, <1>6, <1>7, <1>8, <1>9, <1>10, <1>11, <1>12
  DEF Next, Func

(* Every reachable state is well typed: cursors stay inside their chunk    *)
(* and no call writes past the end of an output vector.                    *)
THEOREM TypeCorrect == Spec => []TypeOK
<1>. QED  BY TypeInit, TypeStep, PTL DEF Spec

-----------------------------------------------------------------------------
(* Ownership of rows.                                                      *)

(* Between calls a thread holds no state and no vector; during a call its  *)
(* entry is out of the map.                                                *)
EntryInOneHand ==
  \A t \in Threads :
    /\ pc[t] \in {"off", "between"} => state[t] = Fresh /\ vector[t] = {}
    /\ pc[t] \in {"loop", "read", "exit"} => local_states[t] = Fresh
    /\ pc[t] = "read" => state[t].chunk = NoChunk

(* Rows exist only for claimed chunks.                                     *)
RowsClaimed ==
  /\ \A r \in delivered : r[1] < next_chunk
  /\ \A t \in Threads : \A r \in Kept(t) : r[1] < next_chunk

(* A chunk being read was claimed by that thread alone, and nobody has any *)
(* of its rows.                                                            *)
ReadersAlone ==
  \A t \in Threads : pc[t] = "read" =>
    /\ chunk_idx[t] < next_chunk
    /\ \A r \in delivered : r[1] # chunk_idx[t]
    /\ \A u \in Threads : \A r \in Kept(u) : r[1] # chunk_idx[t]
    /\ \A u \in Threads \ {t} : pc[u] = "read" => chunk_idx[u] # chunk_idx[t]

Ownership == EntryInOneHand /\ RowsClaimed /\ ReadersAlone /\ RowInOnePlace

LEMMA OwnershipInit == Init => Ownership
  BY FreshState
  DEF Init, Ownership, EntryInOneHand, RowsClaimed, ReadersAlone, RowInOnePlace, Kept

(* A step that leaves the rows every thread keeps, the deliveries and the  *)
(* reads alone, and hands no entry over, preserves ownership.              *)
LEMMA OwnershipFramed ==
  ASSUME TypeOK, Ownership,
         UNCHANGED <<next_chunk, local_states, state, chunk_idx, vector, delivered>>,
         pc' \in [Threads -> PCs],
         \A u \in Threads :
           \/ pc'[u] = pc[u]
           \/ pc[u] \in {"off", "between"} /\ pc'[u] \in {"off", "between"}
           \/ pc[u] = "read" /\ pc'[u] = "exit"
  PROVE  Ownership'
<1>1. \A u \in Threads : Kept(u)' = Kept(u)
  BY DEF Kept
<1>2. EntryInOneHand'
  BY DEF Ownership, EntryInOneHand
<1>3. RowsClaimed' /\ ReadersAlone'
  BY <1>1 DEF Ownership, RowsClaimed, ReadersAlone
<1>4. RowInOnePlace'
  BY <1>1 DEF Ownership, RowInOnePlace
<1>. QED  BY <1>2, <1>3, <1>4 DEF Ownership

LEMMA OwnershipStep == TypeOK /\ Ownership /\ [Next]_vars => Ownership'
<1> SUFFICES ASSUME TypeOK, Ownership, [Next]_vars PROVE Ownership'
  OBVIOUS
<1>0. TypeOK'
  BY TypeStep
<1> USE DEF Goto, shared, engine
<1>1. ASSUME NEW t \in Threads, Call(t) PROVE Ownership'
  <2>1. /\ state[t] = Fresh /\ vector[t] = {}
        /\ state'[t] = local_states[t] /\ local_states'[t] = Fresh /\ vector'[t] = {}
        /\ \A u \in Threads \ {t} : /\ state'[u] = state[u]
                                     /\ local_states'[u] = local_states[u]
                                     /\ vector'[u] = vector[u]
    BY <1>1 DEF Call, Ownership, EntryInOneHand, TypeOK
  <2>2. \A u \in Threads : Kept(u)' = Kept(u)
    BY <2>1, FreshState DEF Kept
  <2>3. EntryInOneHand'
    BY <1>1, <2>1 DEF Call, Ownership, EntryInOneHand, TypeOK
  <2>4. RowsClaimed' /\ ReadersAlone'
    BY <1>1, <2>2 DEF Call, Ownership, RowsClaimed, ReadersAlone, TypeOK
  <2>5. RowInOnePlace'
    BY <1>1, <2>1, <2>2, FreshState DEF Call, Ownership, RowInOnePlace
  <2>. QED  BY <2>3, <2>4, <2>5 DEF Ownership
<1>2. ASSUME NEW t \in Threads, ClaimChunk(t) PROVE Ownership'
  <2>1. \A u \in Threads : Kept(u)' = Kept(u)
    BY <1>2 DEF ClaimChunk, Kept
  <2>2. EntryInOneHand'
    BY <1>2 DEF ClaimChunk, Ownership, EntryInOneHand, TypeOK
  <2>3. RowsClaimed'
    <3>1. next_chunk \in Int /\ next_chunk' = next_chunk + 1
      BY <1>2 DEF ClaimChunk, TypeOK
    <3>2. \A r \in AllRows : r[1] \in Int
      BY AllRowsMember DEF Chunks
    <3>3. delivered \subseteq AllRows /\ \A u \in Threads : Kept(u) \subseteq AllRows
      BY TailMember DEF TypeOK, Kept
    <3>. QED  BY <1>2, <2>1, <3>1, <3>2, <3>3 DEF ClaimChunk, Ownership, RowsClaimed
  <2>4. ReadersAlone'
    <3>1. /\ chunk_idx'[t] = next_chunk /\ next_chunk' = next_chunk + 1
          /\ next_chunk \in Int /\ chunk_idx \in [Threads -> Int]
          /\ delivered' = delivered
      BY <1>2 DEF ClaimChunk, TypeOK
    <3>2. \A u \in Threads \ {t} : chunk_idx'[u] = chunk_idx[u] /\ pc'[u] = pc[u]
      BY <1>2 DEF ClaimChunk, TypeOK
    <3>3. /\ \A r \in delivered : r[1] # next_chunk
          /\ \A u \in Threads : \A r \in Kept(u) : r[1] # next_chunk
      BY <3>1 DEF Ownership, RowsClaimed
    <3>. QED  BY <2>1, <3>1, <3>2, <3>3 DEF Ownership, ReadersAlone
  <2>5. RowInOnePlace'
    BY <1>2, <2>1 DEF ClaimChunk, Ownership, RowInOnePlace
  <2>. QED  BY <2>2, <2>3, <2>4, <2>5 DEF Ownership
<1>3. ASSUME NEW t \in Threads, ReadChunk(t) PROVE Ownership'
  <2> DEFINE c == chunk_idx[t]
             new == [chunk |-> c, cursor |-> 0]
  <2>1. /\ pc[t] = "read" /\ pc'[t] = "loop"
        /\ state'[t] = new /\ new \in LocalState
        /\ local_states[t] = Fresh /\ Tail(state[t]) = {}
        /\ UNCHANGED <<next_chunk, local_states, delivered, chunk_idx, vector>>
        /\ \A u \in Threads \ {t} : state'[u] = state[u] /\ pc'[u] = pc[u]
    BY <1>0, <1>3 DEF ReadChunk, Ownership, EntryInOneHand, TypeOK, Tail
  <2>2. \A r \in Tail(new) : r[1] = c
    BY <2>1, TailMember
  <2>3. /\ Kept(t)' = Tail(new) \cup vector[t]
        /\ Kept(t) = vector[t]
        /\ \A u \in Threads \ {t} : Kept(u)' = Kept(u)
    BY <2>1, FreshState DEF Kept
  <2>4. /\ c < next_chunk
        /\ \A r \in delivered : r[1] # c
        /\ \A u \in Threads : \A r \in Kept(u) : r[1] # c
        /\ \A u \in Threads \ {t} : pc[u] = "read" => chunk_idx[u] # c
    BY <2>1 DEF Ownership, ReadersAlone
  <2>5. EntryInOneHand'
    BY <2>1 DEF Ownership, EntryInOneHand
  <2>6. RowsClaimed'
    BY <2>1, <2>2, <2>3, <2>4 DEF Ownership, RowsClaimed
  <2>7. ReadersAlone'
    BY <2>1, <2>2, <2>3, <2>4 DEF Ownership, ReadersAlone
  <2>8. RowInOnePlace'
    BY <2>1, <2>2, <2>3, <2>4, FreshState DEF Ownership, RowInOnePlace
  <2>. QED  BY <2>5, <2>6, <2>7, <2>8 DEF Ownership
<1>4. ASSUME NEW t \in Threads, EndOfStream(t) PROVE Ownership'
  BY <1>0, <1>4, OwnershipFramed DEF EndOfStream, TypeOK
<1>5. ASSUME NEW t \in Threads, ReadError(t) PROVE Ownership'
  <2>1. /\ state'[t] = Fresh /\ vector'[t] = {} /\ pc'[t] = "off"
        /\ UNCHANGED <<next_chunk, local_states, delivered, chunk_idx>>
        /\ \A u \in Threads \ {t} : /\ state'[u] = state[u]
                                     /\ vector'[u] = vector[u]
                                     /\ pc'[u] = pc[u]
    BY <1>5 DEF ReadError, TypeOK
  <2>2. /\ Kept(t)' \subseteq Kept(t)
        /\ \A u \in Threads \ {t} : Kept(u)' = Kept(u)
    BY <2>1, FreshState DEF Kept
  <2>3. EntryInOneHand'
    BY <2>1 DEF Ownership, EntryInOneHand
  <2>4. RowsClaimed' /\ ReadersAlone'
    BY <2>1, <2>2 DEF Ownership, RowsClaimed, ReadersAlone
  <2>5. RowInOnePlace'
    BY <2>1, <2>2, FreshState DEF Ownership, RowInOnePlace
  <2>. QED  BY <2>3, <2>4, <2>5 DEF Ownership
<1>6. ASSUME NEW t \in Threads, EmitBatch(t) PROVE Ownership'
  <2> DEFINE s == state[t]
             n == Batch(s, valid_rows[t])
             B == BatchRows(s, n)
  <2>1. /\ s \in LocalState /\ s.chunk # NoChunk
        /\ valid_rows[t] \in 0 .. VectorSize
        /\ pc[t] = "loop" /\ pc'[t] \in {"loop", "exit"}
        /\ state'[t] = AfterBatch(s, n) /\ vector'[t] = vector[t] \cup B
        /\ UNCHANGED <<next_chunk, local_states, delivered, chunk_idx>>
        /\ \A u \in Threads \ {t} : /\ state'[u] = state[u]
                                     /\ vector'[u] = vector[u]
                                     /\ pc'[u] = pc[u]
    BY <1>6 DEF EmitBatch, TypeOK
  <2>2. /\ Tail(s) = B \cup Tail(AfterBatch(s, n))
        /\ B \cap Tail(AfterBatch(s, n)) = {}
    BY <2>1, BatchSplitsTail
  <2> HIDE DEF n, B
  <2>3. \A u \in Threads : Kept(u)' = Kept(u)
    BY <2>1, <2>2 DEF Kept
  <2>4. EntryInOneHand'
    BY <2>1 DEF Ownership, EntryInOneHand
  <2>5. RowsClaimed' /\ ReadersAlone'
    BY <2>1, <2>3 DEF Ownership, RowsClaimed, ReadersAlone
  <2>6. RowInOnePlace'
    BY <2>1, <2>2, <2>3 DEF Ownership, RowInOnePlace
  <2>. QED  BY <2>4, <2>5, <2>6 DEF Ownership
<1>7. ASSUME NEW t \in Threads, Return(t) PROVE Ownership'
  <2>1. /\ pc[t] = "exit" /\ pc'[t] \in {"off", "between"}
        /\ local_states[t] = Fresh
        /\ local_states'[t] = state[t] /\ state'[t] = Fresh /\ vector'[t] = {}
        /\ delivered' = delivered \cup vector[t]
        /\ UNCHANGED <<next_chunk, chunk_idx>>
        /\ \A u \in Threads \ {t} : /\ state'[u] = state[u]
                                     /\ local_states'[u] = local_states[u]
                                     /\ vector'[u] = vector[u]
                                     /\ pc'[u] = pc[u]
    BY <1>7 DEF Return, TypeOK, Ownership, EntryInOneHand
  <2>2. /\ Kept(t) = Kept(t)' \cup vector[t]
        /\ Kept(t)' = Tail(state[t])
        /\ \A u \in Threads \ {t} : Kept(u)' = Kept(u)
    BY <2>1, FreshState DEF Kept
  <2>3. EntryInOneHand'
    BY <2>1 DEF Ownership, EntryInOneHand
  <2>4. RowsClaimed' /\ ReadersAlone'
    BY <2>1, <2>2 DEF Ownership, RowsClaimed, ReadersAlone
  <2>5. RowInOnePlace'
    BY <2>1, <2>2, FreshState DEF Ownership, RowInOnePlace
  <2>. QED  BY <2>3, <2>4, <2>5 DEF Ownership
<1>8. ASSUME NEW t \in Threads, TakeTask(t) PROVE Ownership'
  BY <1>0, <1>8, OwnershipFramed DEF TakeTask, TypeOK
<1>9. ASSUME NEW t \in Threads, YieldTask(t) PROVE Ownership'
  BY <1>0, <1>9, OwnershipFramed DEF YieldTask, TypeOK
<1>10. ASSUME NEW t \in Threads, Abandon(t) PROVE Ownership'
  BY <1>0, <1>10, OwnershipFramed DEF Abandon, TypeOK
<1>11. CASE Cancel
  BY <1>0, <1>11, OwnershipFramed DEF Cancel, TypeOK
<1>12. CASE Finished \/ UNCHANGED vars
  BY <1>0, <1>12, OwnershipFramed DEF Finished, vars, TypeOK
<1>. QED
  BY <1>1, <1>2, <1>3, <1>4, <1>5, <1>6, <1>7, <1>8, <1>9, <1>10, <1>11, <1>12
  DEF Next, Func

(* Whatever the interleaving, and even if tasks move between threads, no   *)
(* row of the scan is ever in two places: no row can be returned twice.    *)
THEOREM NoRowTwice == Spec => []RowInOnePlace
<1>1. Ownership => RowInOnePlace
  BY DEF Ownership
<1>. QED
  BY TypeInit, TypeStep, OwnershipInit, OwnershipStep, <1>1, PTL DEF Spec

-----------------------------------------------------------------------------
(* Accounting of rows.                                                     *)

LEMMA AccountedInit == Init => RowsAccounted
  BY AllRowsMember DEF Init, RowsAccounted, Chunks

LEMMA AccountedStep ==
  TypeOK /\ Ownership /\ RowsAccounted /\ [Next]_vars => RowsAccounted'
<1> SUFFICES ASSUME TypeOK, Ownership, RowsAccounted, [Next]_vars, ~stopped',
                    NEW r \in AllRows
             PROVE  \/ r \in delivered'
                    \/ \E t \in Threads : r \in Kept(t)'
                    \/ r[1] >= next_chunk'
                    \/ \E t \in Threads : pc'[t] = "read" /\ chunk_idx'[t] = r[1]
  BY DEF RowsAccounted
<1> USE DEF Goto, shared, engine
<1>0. /\ r[1] \in Chunks /\ r[2] \in 0 .. ChunkRows[r[1]] - 1
      /\ r = <<r[1], r[2]>>
  BY AllRowsMember
<1>t. ~stopped
  BY DEF Next, Func, Call, ClaimChunk, ReadChunk, EndOfStream, ReadError, EmitBatch,
         Return, TakeTask, YieldTask, Abandon, Cancel, Finished, vars
<1>a. \/ r \in delivered
      \/ \E t \in Threads : r \in Kept(t)
      \/ r[1] >= next_chunk
      \/ \E t \in Threads : pc[t] = "read" /\ chunk_idx[t] = r[1]
  BY <1>t DEF RowsAccounted
<1>1. ASSUME NEW t \in Threads, Call(t)
      PROVE  /\ \A u \in Threads : Kept(u)' = Kept(u)
             /\ UNCHANGED <<delivered, next_chunk, chunk_idx>>
             /\ \A u \in Threads : pc[u] = "read" => pc'[u] = "read"
  <2>1. /\ state[t] = Fresh /\ vector[t] = {}
        /\ state'[t] = local_states[t] /\ local_states'[t] = Fresh /\ vector'[t] = {}
        /\ \A u \in Threads \ {t} : /\ state'[u] = state[u]
                                     /\ local_states'[u] = local_states[u]
                                     /\ vector'[u] = vector[u]
    BY <1>1 DEF Call, Ownership, EntryInOneHand, TypeOK
  <2>2. \A u \in Threads : Kept(u)' = Kept(u)
    BY <2>1, FreshState DEF Kept
  <2>. QED  BY <1>1, <2>2 DEF Call, TypeOK
<1>2. ASSUME NEW t \in Threads, ClaimChunk(t)
      PROVE  /\ \A u \in Threads : Kept(u)' = Kept(u)
             /\ delivered' = delivered
             /\ next_chunk' = next_chunk + 1
             /\ pc'[t] = "read" /\ chunk_idx'[t] = next_chunk
             /\ \A u \in Threads : pc[u] = "read" =>
                  pc'[u] = "read" /\ chunk_idx'[u] = chunk_idx[u]
  BY <1>2 DEF ClaimChunk, Kept, TypeOK
<1>3. ASSUME NEW t \in Threads, ReadChunk(t)
      PROVE  /\ UNCHANGED <<delivered, next_chunk, chunk_idx>>
             /\ \A u \in Threads : Kept(u) \subseteq Kept(u)'
             /\ r[1] = chunk_idx[t] => r \in Kept(t)'
             /\ \A u \in Threads \ {t} : pc'[u] = pc[u]
  <2> DEFINE new == [chunk |-> chunk_idx[t], cursor |-> 0]
  <2>1. /\ state'[t] = new /\ Tail(state[t]) = {}
        /\ UNCHANGED <<delivered, next_chunk, chunk_idx, local_states, vector>>
        /\ \A u \in Threads \ {t} : state'[u] = state[u] /\ pc'[u] = pc[u]
    BY <1>3 DEF ReadChunk, Ownership, EntryInOneHand, TypeOK, Tail
  <2>2. r[1] = chunk_idx[t] => r \in Tail(new)
    BY <1>0 DEF Tail, Chunks, NoChunk
  <2>. QED  BY <2>1, <2>2 DEF Kept
<1>4. ASSUME NEW t \in Threads, EndOfStream(t)
      PROVE  /\ \A u \in Threads : Kept(u)' = Kept(u)
             /\ UNCHANGED <<delivered, next_chunk, chunk_idx>>
             /\ r[1] # chunk_idx[t]
             /\ \A u \in Threads \ {t} : pc'[u] = pc[u]
  <2>1. chunk_idx[t] >= NumChunks /\ chunk_idx[t] \in Nat
    BY <1>4 DEF EndOfStream, PastEnd, TypeOK
  <2>2. r[1] # chunk_idx[t]
    BY <2>1, <1>0, ScanAssumption DEF Chunks
  <2>. QED  BY <1>4, <2>2 DEF EndOfStream, Kept, TypeOK
<1>5. ASSUME NEW t \in Threads, ReadError(t) PROVE FALSE
  BY <1>5 DEF ReadError
<1>6. ASSUME NEW t \in Threads, EmitBatch(t)
      PROVE  /\ \A u \in Threads : Kept(u)' = Kept(u)
             /\ UNCHANGED <<delivered, next_chunk, chunk_idx>>
             /\ \A u \in Threads : pc[u] = "read" => pc'[u] = "read"
  <2> DEFINE n == Batch(state[t], valid_rows[t])
             B == BatchRows(state[t], n)
  <2>1. /\ state[t] \in LocalState /\ state[t].chunk # NoChunk
        /\ valid_rows[t] \in 0 .. VectorSize /\ pc[t] = "loop"
        /\ state'[t] = AfterBatch(state[t], n) /\ vector'[t] = vector[t] \cup B
        /\ UNCHANGED <<next_chunk, local_states, delivered, chunk_idx>>
        /\ \A u \in Threads \ {t} : /\ state'[u] = state[u]
                                     /\ vector'[u] = vector[u]
                                     /\ pc'[u] = pc[u]
    BY <1>6 DEF EmitBatch, TypeOK
  <2>2. Tail(state[t]) = B \cup Tail(AfterBatch(state[t], n))
    BY <2>1, BatchSplitsTail
  <2> HIDE DEF n, B
  <2>. QED  BY <2>1, <2>2 DEF Kept
<1>7. ASSUME NEW t \in Threads, Return(t)
      PROVE  /\ \A u \in Threads : Kept(u) \subseteq Kept(u)' \cup delivered'
             /\ delivered \subseteq delivered'
             /\ UNCHANGED <<next_chunk, chunk_idx>>
             /\ \A u \in Threads : pc[u] = "read" => pc'[u] = "read"
  <2>1. /\ pc[t] = "exit" /\ local_states[t] = Fresh
        /\ local_states'[t] = state[t] /\ delivered' = delivered \cup vector[t]
        /\ UNCHANGED <<next_chunk, chunk_idx>>
        /\ \A u \in Threads \ {t} : /\ state'[u] = state[u]
                                     /\ local_states'[u] = local_states[u]
                                     /\ vector'[u] = vector[u]
                                     /\ pc'[u] = pc[u]
    BY <1>7 DEF Return, TypeOK, Ownership, EntryInOneHand
  <2>. QED  BY <2>1, FreshState DEF Kept
<1>8. ASSUME NEW t \in Threads, TakeTask(t) \/ YieldTask(t) \/ Abandon(t)
      PROVE  /\ \A u \in Threads : Kept(u)' = Kept(u)
             /\ UNCHANGED <<delivered, next_chunk, chunk_idx>>
             /\ \A u \in Threads : pc[u] = "read" => pc'[u] = "read"
  BY <1>8 DEF TakeTask, YieldTask, Abandon, Kept, TypeOK
<1>9. ASSUME Cancel \/ Finished \/ UNCHANGED vars
      PROVE  /\ \A u \in Threads : Kept(u)' = Kept(u)
             /\ UNCHANGED <<delivered, next_chunk, chunk_idx, pc>>
  BY <1>9 DEF Cancel, Finished, vars, Kept
<1>10. next_chunk \in Nat /\ r[1] \in Nat
  BY <1>0, ScanAssumption DEF TypeOK, Chunks
<1>11. ASSUME NEW t \in Threads, Func(t)
       PROVE  \/ r \in delivered'
              \/ \E u \in Threads : r \in Kept(u)'
              \/ r[1] >= next_chunk'
              \/ \E u \in Threads : pc'[u] = "read" /\ chunk_idx'[u] = r[1]
  <2>1. CASE Call(t)        BY <2>1, <1>1, <1>a
  <2>2. CASE ClaimChunk(t)  BY <2>2, <1>2, <1>a, <1>10
  <2>3. CASE ReadChunk(t)   BY <2>3, <1>3, <1>a
  <2>4. CASE EndOfStream(t) BY <2>4, <1>4, <1>a
  <2>5. CASE ReadError(t)   BY <2>5, <1>5
  <2>6. CASE EmitBatch(t)   BY <2>6, <1>6, <1>a
  <2>7. CASE Return(t)      BY <2>7, <1>7, <1>a
  <2>. QED  BY <1>11, <2>1, <2>2, <2>3, <2>4, <2>5, <2>6, <2>7 DEF Func
<1>. QED  BY <1>a, <1>8, <1>9, <1>11 DEF Next

(* No row is forgotten: until a read fails or the engine stops the query,  *)
(* each row is delivered, kept by a thread, or still to be read.           *)
THEOREM NoRowForgotten == Spec => []RowsAccounted
<1>. QED
  BY TypeInit, TypeStep, OwnershipInit, OwnershipStep, AccountedInit, AccountedStep,
     PTL DEF Spec

-----------------------------------------------------------------------------
(* The end of a scan.                                                      *)

(* A call that is about to return no row has found the end of the stream,  *)
(* and has neither a buffer nor rows.                                      *)
EmptyReturn ==
  \A t \in Threads :
    /\ valid_rows[t] = 0 => vector[t] = {}
    /\ pc[t] = "exit" /\ valid_rows[t] = 0 =>
         state[t].chunk = NoChunk /\ next_chunk >= NumChunks

(* While chunks are unclaimed, some task is waiting or running.            *)
SomeTaskLeft ==
  ~stopped =>
    \/ next_chunk >= NumChunks
    \/ ready > 0
    \/ \E t \in Threads : pc[t] # "off"

(* Without migration a thread that has no task has parked no rows.         *)
NothingParked ==
  ~MayMigrate /\ ~stopped =>
    \A t \in Threads : pc[t] = "off" => local_states[t].chunk = NoChunk

Ending == EmptyReturn /\ SomeTaskLeft /\ NothingParked

LEMMA EndingInit == Init => Ending
  BY ScanAssumption, FreshState
  DEF Init, Ending, EmptyReturn, SomeTaskLeft, NothingParked

LEMMA EndingStep ==
  TypeOK /\ Ownership /\ Ending /\ [Next]_vars => Ending'
<1> SUFFICES ASSUME TypeOK, Ownership, Ending, [Next]_vars PROVE Ending'
  OBVIOUS
<1>0. TypeOK'
  BY TypeStep
<1> USE DEF Goto, shared, engine
<1>1. ASSUME NEW t \in Threads, Call(t) PROVE Ending'
  BY <1>1 DEF Call, TypeOK, Ending, EmptyReturn, SomeTaskLeft, NothingParked
<1>2. ASSUME NEW t \in Threads, ClaimChunk(t) PROVE Ending'
  BY <1>2, ScanAssumption
  DEF ClaimChunk, TypeOK, Ending, EmptyReturn, SomeTaskLeft, NothingParked
<1>3. ASSUME NEW t \in Threads, ReadChunk(t) PROVE Ending'
  BY <1>3 DEF ReadChunk, TypeOK, Ending, EmptyReturn, SomeTaskLeft, NothingParked
<1>4. ASSUME NEW t \in Threads, EndOfStream(t) PROVE Ending'
  <2>1. /\ chunk_idx[t] >= NumChunks /\ chunk_idx[t] < next_chunk
        /\ state[t].chunk = NoChunk
        /\ chunk_idx[t] \in Nat /\ next_chunk \in Nat
    BY <1>4 DEF EndOfStream, PastEnd, TypeOK, Ownership, ReadersAlone, EntryInOneHand
  <2>2. next_chunk >= NumChunks
    BY <2>1, ScanAssumption
  <2>. QED
    BY <1>4, <2>1, <2>2
    DEF EndOfStream, TypeOK, Ending, EmptyReturn, SomeTaskLeft, NothingParked
<1>5. ASSUME NEW t \in Threads, ReadError(t) PROVE Ending'
  BY <1>5 DEF ReadError, TypeOK, Ending, EmptyReturn, SomeTaskLeft, NothingParked
<1>6. ASSUME NEW t \in Threads, EmitBatch(t) PROVE Ending'
  <2> DEFINE n == Batch(state[t], valid_rows[t])
             B == BatchRows(state[t], n)
  <2>1. /\ state[t] \in LocalState /\ state[t].chunk # NoChunk
        /\ valid_rows[t] \in 0 .. VectorSize
    BY <1>6 DEF EmitBatch, TypeOK
  <2>2. n \in Nat
    BY <2>1, BatchSplitsTail
  <2>3. n = 0 => B = {}
    BY <2>1 DEF BatchRows, LocalState
  <2>4. /\ pc[t] = "loop"
        /\ pc'[t] = IF valid_rows[t] + n >= VectorSize THEN "exit" ELSE "loop"
        /\ valid_rows'[t] = valid_rows[t] + n
        /\ vector'[t] = vector[t] \cup B
        /\ UNCHANGED <<next_chunk, local_states, ready, stopped>>
        /\ \A u \in Threads \ {t} : /\ state'[u] = state[u]
                                     /\ vector'[u] = vector[u]
                                     /\ valid_rows'[u] = valid_rows[u]
                                     /\ pc'[u] = pc[u]
    BY <1>6 DEF EmitBatch, TypeOK
  <2> HIDE DEF n, B
  <2>a. VectorSize \in Nat /\ VectorSize > 0 /\ valid_rows[t] \in Nat
    BY <2>1, ScanAssumption
  <2>b. valid_rows'[t] = 0 => valid_rows[t] = 0 /\ n = 0
    BY <2>2, <2>4, <2>a
  <2>c. valid_rows'[t] = 0 => vector'[t] = {}
    BY <2>3, <2>4, <2>b DEF Ending, EmptyReturn
  <2>d. pc'[t] = "exit" => valid_rows'[t] # 0
    <3>1. pc'[t] = "exit" => valid_rows[t] + n >= VectorSize
      BY <2>4
    <3>2. valid_rows[t] + n >= VectorSize => valid_rows[t] + n # 0
      BY <2>2, <2>a
    <3>3. valid_rows'[t] = valid_rows[t] + n
      BY <2>4
    <3>. QED  BY <3>1, <3>2, <3>3
  <2>5. EmptyReturn'
    BY <2>4, <2>c, <2>d DEF Ending, EmptyReturn
  <2>. QED  BY <2>4, <2>5 DEF Ending, SomeTaskLeft, NothingParked
<1>7. ASSUME NEW t \in Threads, Return(t) PROVE Ending'
  BY <1>7 DEF Return, TypeOK, Ending, EmptyReturn, SomeTaskLeft, NothingParked
<1>8. ASSUME NEW t \in Threads, TakeTask(t) PROVE Ending'
  BY <1>8 DEF TakeTask, TypeOK, Ending, EmptyReturn, SomeTaskLeft, NothingParked
<1>9. ASSUME NEW t \in Threads, YieldTask(t) PROVE Ending'
  BY <1>9 DEF YieldTask, TypeOK, Ending, EmptyReturn, SomeTaskLeft, NothingParked
<1>10. ASSUME NEW t \in Threads, Abandon(t) PROVE Ending'
  BY <1>10 DEF Abandon, TypeOK, Ending, EmptyReturn, SomeTaskLeft, NothingParked
<1>11. CASE Cancel
  BY <1>11 DEF Cancel, TypeOK, Ending, EmptyReturn, SomeTaskLeft, NothingParked
<1>12. CASE Finished \/ UNCHANGED vars
  BY <1>12 DEF Finished, vars, Ending, EmptyReturn, SomeTaskLeft, NothingParked
<1>. QED
  BY <1>1, <1>2, <1>3, <1>4, <1>5, <1>6, <1>7, <1>8, <1>9, <1>10, <1>11, <1>12
  DEF Next, Func

(* The facts every reachable state satisfies.                              *)
Inductive == TypeOK /\ Ownership /\ RowsAccounted /\ Ending

LEMMA InductiveInvariant == Spec => []Inductive
<1>1. Init => Inductive
  BY TypeInit, OwnershipInit, AccountedInit, EndingInit DEF Inductive
<1>2. Inductive /\ [Next]_vars => Inductive'
  BY TypeStep, OwnershipStep, AccountedStep, EndingStep DEF Inductive
<1>. QED  BY <1>1, <1>2, PTL DEF Spec

(* At the end of a scan nobody keeps a row except in a parked state.       *)
LEMMA KeptAtEnd ==
  ASSUME Inductive, AllDone, ~stopped
  PROVE  /\ \A t \in Threads : Kept(t) = Tail(local_states[t])
         /\ \A r \in AllRows :
              r \in delivered \/ \E t \in Threads : r \in Tail(local_states[t])
<1>1. /\ ready = 0
      /\ \A t \in Threads : pc[t] = "off"
  BY DEF AllDone
<1>2. next_chunk >= NumChunks /\ next_chunk \in Nat
  BY <1>1 DEF Inductive, Ending, SomeTaskLeft, TypeOK
<1>3. \A t \in Threads : Kept(t) = Tail(local_states[t])
  BY <1>1, FreshState DEF Inductive, Ownership, EntryInOneHand, Kept
<1>4. \A r \in AllRows : r[1] \in Nat /\ r[1] < NumChunks
  BY AllRowsMember, ScanAssumption DEF Chunks
<1>5. \A r \in AllRows : ~(r[1] >= next_chunk)
  BY <1>2, <1>4, ScanAssumption
<1>. QED  BY <1>1, <1>3, <1>5 DEF Inductive, RowsAccounted

LEMMA MissingAtEnd == Inductive => MissingIsParked
<1> SUFFICES ASSUME Inductive, AllDone, ~stopped
             PROVE  AllRows \ delivered = UNION {Tail(local_states[t]) : t \in Threads}
  BY DEF MissingIsParked
<1>1. \A t \in Threads : Tail(local_states[t]) \subseteq AllRows
  BY TailMember DEF Inductive, TypeOK
<1>2. \A t \in Threads : Tail(local_states[t]) \cap delivered = {}
  BY DEF Inductive, Ownership, RowInOnePlace, Kept
<1>. QED  BY <1>1, <1>2, KeptAtEnd

LEMMA NothingMissingAtEnd == Inductive => CompleteAtEnd
<1> SUFFICES ASSUME Inductive, AllDone, ~stopped, ~MayMigrate
             PROVE  delivered = AllRows
  BY DEF CompleteAtEnd
<1>1. \A t \in Threads : Tail(local_states[t]) = {}
  BY DEF AllDone, Inductive, Ending, NothingParked, Tail
<1>. QED  BY <1>1, KeptAtEnd DEF Inductive, TypeOK

(* If tasks stay on their threads, a scan that was not stopped ends only   *)
(* when every row was delivered.                                           *)
THEOREM ScanComplete == Spec => []CompleteAtEnd
<1>. QED  BY InductiveInvariant, NothingMissingAtEnd, PTL

(* If they move, what is missing at the end is exactly what is parked.     *)
THEOREM OnlyParkedRowsMissing == Spec => []MissingIsParked
<1>. QED  BY InductiveInvariant, MissingAtEnd, PTL

-----------------------------------------------------------------------------
(* Order within a chunk.                                                   *)

(* Below a row of a vector, and below the cursor of a buffer, every row of *)
(* the chunk is in the vector or was delivered.                            *)
CursorsGapless ==
  \A t \in Threads :
    /\ \A r \in vector[t] : \A i \in 0 .. r[2] : <<r[1], i>> \in vector[t] \cup delivered
    /\ state[t].chunk # NoChunk =>
         \A i \in 0 .. state[t].cursor - 1 :
           <<state[t].chunk, i>> \in vector[t] \cup delivered
    /\ local_states[t].chunk # NoChunk =>
         \A i \in 0 .. local_states[t].cursor - 1 :
           <<local_states[t].chunk, i>> \in delivered

Order == CursorsGapless /\ DeliveredGapless

LEMMA OrderInit == Init => Order
  BY FreshState DEF Init, Order, CursorsGapless, DeliveredGapless

LEMMA OrderStep == TypeOK /\ Ownership /\ Order /\ [Next]_vars => Order'
<1> SUFFICES ASSUME TypeOK, Ownership, Order, [Next]_vars PROVE Order'
  OBVIOUS
<1> USE DEF Goto, shared, engine
<1>1. ASSUME NEW t \in Threads, Call(t) PROVE Order'
  BY <1>1, FreshState DEF Call, TypeOK, Order, CursorsGapless, DeliveredGapless
<1>2. ASSUME NEW t \in Threads, ReadChunk(t) PROVE Order'
  <2>1. \A i : i \notin 0 .. (0 - 1)
    OBVIOUS
  <2>. QED
    BY <1>2, <2>1 DEF ReadChunk, TypeOK, Order, CursorsGapless, DeliveredGapless
<1>3. ASSUME NEW t \in Threads, ReadError(t) PROVE Order'
  BY <1>3, FreshState DEF ReadError, TypeOK, Order, CursorsGapless, DeliveredGapless
<1>4. ASSUME NEW t \in Threads, EmitBatch(t) PROVE Order'
  <2> DEFINE s == state[t]
             n == Batch(s, valid_rows[t])
             B == BatchRows(s, n)
  <2>1. /\ s \in LocalState /\ s.chunk # NoChunk /\ s.cursor \in Nat
        /\ valid_rows[t] \in 0 .. VectorSize
    BY <1>4 DEF EmitBatch, TypeOK, LocalState
  <2>2. n \in Nat
    BY <2>1, BatchSplitsTail
  <2>3. /\ state'[t] = AfterBatch(s, n) /\ vector'[t] = vector[t] \cup B
        /\ UNCHANGED <<local_states, delivered>>
        /\ \A u \in Threads \ {t} : state'[u] = state[u] /\ vector'[u] = vector[u]
    BY <1>4 DEF EmitBatch, TypeOK
  <2>4. \A i \in 0 .. s.cursor + n - 1 : <<s.chunk, i>> \in vector'[t] \cup delivered
    <3> SUFFICES ASSUME NEW i \in 0 .. s.cursor + n - 1
                 PROVE  <<s.chunk, i>> \in vector'[t] \cup delivered
      OBVIOUS
    <3>1. CASE i < s.cursor
      BY <2>1, <2>2, <2>3, <3>1 DEF Order, CursorsGapless
    <3>2. CASE i >= s.cursor
      BY <2>1, <2>2, <2>3, <3>2 DEF BatchRows
    <3>. QED  BY <2>1, <2>2, <3>1, <3>2
  <2>5. \A r \in B : r[1] = s.chunk /\ r[2] \in s.cursor .. s.cursor + n - 1
    BY DEF BatchRows
  <2>6. \A r \in vector'[t] : \A i \in 0 .. r[2] :
          <<r[1], i>> \in vector'[t] \cup delivered
    <3> SUFFICES ASSUME NEW r \in vector'[t], NEW i \in 0 .. r[2]
                 PROVE  <<r[1], i>> \in vector'[t] \cup delivered
      OBVIOUS
    <3>1. CASE r \in vector[t]
      BY <2>3, <3>1 DEF Order, CursorsGapless
    <3>2. CASE r \in B
      BY <2>1, <2>2, <2>4, <2>5, <3>2
    <3>. QED  BY <2>3, <3>1, <3>2
  <2>7. state'[t].chunk # NoChunk =>
          state'[t].chunk = s.chunk /\ state'[t].cursor = s.cursor + n
    BY <2>3 DEF AfterBatch
  <2> HIDE DEF n, B, s
  <2>8. CursorsGapless'
    <3>1. /\ \A r \in vector'[t] : \A i \in 0 .. r[2] :
               <<r[1], i>> \in vector'[t] \cup delivered'
          /\ state'[t].chunk # NoChunk =>
               \A i \in 0 .. state'[t].cursor - 1 :
                 <<state'[t].chunk, i>> \in vector'[t] \cup delivered'
      <4>1. delivered' = delivered
        BY <2>3
      <4>2. ASSUME state'[t].chunk # NoChunk
            PROVE  \A i \in 0 .. state'[t].cursor - 1 :
                     <<state'[t].chunk, i>> \in vector'[t] \cup delivered
        <5>1. state'[t].chunk = s.chunk /\ state'[t].cursor = s.cursor + n
          BY <2>7, <4>2
        <5>. QED  BY <2>1, <2>2, <2>4, <5>1
      <4>. QED  BY <2>6, <4>1, <4>2
    <3>2. \A u \in Threads : local_states'[u].chunk # NoChunk =>
            \A i \in 0 .. local_states'[u].cursor - 1 :
              <<local_states'[u].chunk, i>> \in delivered'
      BY <2>3 DEF Order, CursorsGapless
    <3>3. \A u \in Threads \ {t} :
            /\ \A r \in vector'[u] : \A i \in 0 .. r[2] :
                 <<r[1], i>> \in vector'[u] \cup delivered'
            /\ state'[u].chunk # NoChunk =>
                 \A i \in 0 .. state'[u].cursor - 1 :
                   <<state'[u].chunk, i>> \in vector'[u] \cup delivered'
      BY <2>3 DEF Order, CursorsGapless
    <3>. QED  BY <3>1, <3>2, <3>3 DEF CursorsGapless
  <2>9. DeliveredGapless'
    BY <2>3 DEF Order, DeliveredGapless
  <2>. QED  BY <2>8, <2>9 DEF Order
<1>5. ASSUME NEW t \in Threads, Return(t) PROVE Order'
  <2>1. /\ local_states'[t] = state[t] /\ state'[t] = Fresh /\ vector'[t] = {}
        /\ delivered' = delivered \cup vector[t]
        /\ \A u \in Threads \ {t} : /\ state'[u] = state[u]
                                     /\ local_states'[u] = local_states[u]
                                     /\ vector'[u] = vector[u]
    BY <1>5 DEF Return, TypeOK
  <2>2. DeliveredGapless'
    BY <2>1 DEF Order, CursorsGapless, DeliveredGapless
  <2>3. CursorsGapless'
    BY <2>1, FreshState DEF Order, CursorsGapless
  <2>. QED  BY <2>2, <2>3 DEF Order
<1>6. ASSUME UNCHANGED <<state, local_states, vector, delivered>> PROVE Order'
  BY <1>6 DEF Order, CursorsGapless, DeliveredGapless
<1>. QED
  BY <1>1, <1>2, <1>3, <1>4, <1>5, <1>6
  DEF Next, Func, ClaimChunk, EndOfStream, TakeTask, YieldTask, Abandon, Cancel,
      Finished, vars

(* The rows of a chunk reach the engine in order, none skipped.            *)
THEOREM DeliveryInOrder == Spec => []DeliveredGapless
<1>1. Order => DeliveredGapless
  BY DEF Order
<1>. QED
  BY TypeInit, TypeStep, OwnershipInit, OwnershipStep, OrderInit, OrderStep, <1>1,
     PTL DEF Spec

-----------------------------------------------------------------------------
(* Refinement of the delivery contract.                                    *)

(* Rows are never taken back, and the step that ends a scan hands over none. *)
LEMMA LastStepDeliversNothing ==
  ASSUME Inductive, [Next]_vars
  PROVE  delivered \subseteq delivered' /\ (AllDone' => delivered' = delivered)
<1>1. ASSUME NEW t \in Threads, Return(t)
      PROVE  delivered \subseteq delivered' /\ (AllDone' => delivered' = delivered)
  <2>1. delivered' = delivered \cup vector[t]
    BY <1>1 DEF Return
  <2>2. CASE valid_rows[t] = 0
    BY <2>1, <2>2 DEF Inductive, Ending, EmptyReturn
  <2>3. CASE valid_rows[t] # 0
    <3>1. pc'[t] = "between"
      BY <1>1, <2>3 DEF Return, Goto, Inductive, TypeOK
    <3>. QED  BY <2>1, <3>1 DEF AllDone
  <2>. QED  BY <2>2, <2>3
<1>2. ASSUME UNCHANGED delivered
      PROVE  delivered \subseteq delivered' /\ (AllDone' => delivered' = delivered)
  BY <1>2
<1>. QED
  BY <1>1, <1>2
  DEF Next, Func, Call, ClaimChunk, ReadChunk, EndOfStream, ReadError, EmitBatch,
      TakeTask, YieldTask, Abandon, Cancel, Finished, vars, shared

(* A scan that is done stays as it is.                                     *)
LEMMA DoneIsFinal ==
  ASSUME AllDone, Inductive, [Next]_vars
  PROVE  UNCHANGED vars
<1>1. /\ \A t \in Threads : pc[t] = "off"
      /\ ready = 0 \/ stopped
  BY DEF AllDone
<1>2. \A t \in Threads : ~Func(t) /\ ~YieldTask(t) /\ ~Abandon(t)
  BY <1>1 DEF Func, Call, ClaimChunk, ReadChunk, EndOfStream, ReadError, EmitBatch,
              Return, YieldTask, Abandon
<1>3. \A t \in Threads : ~TakeTask(t)
  BY <1>1 DEF TakeTask, Inductive, TypeOK
<1>4. ~Cancel
  BY DEF Cancel
<1>. QED  BY <1>2, <1>3, <1>4 DEF Next, Finished

LEMMA ContractStep ==
  ASSUME ~MayMigrate, Inductive, TypeOK', CompleteAtEnd', Order', [Next]_vars
  PROVE  [Contract!Next]_(Contract!vars)
<1>1. CASE AllDone
  <2>1. UNCHANGED vars
    BY <1>1, DoneIsFinal
  <2>2. delivered' = delivered /\ stopped' = stopped /\ (AllDone' <=> AllDone)
    BY <2>1 DEF vars, AllDone
  <2>. QED  BY <2>2 DEF Contract!vars
<1>2. CASE ~AllDone /\ ~AllDone'
  <2>1. delivered \subseteq delivered' /\ delivered' \subseteq AllRows
    BY LastStepDeliversNothing DEF Inductive, TypeOK
  <2>2. Contract!Gapless(delivered')
    BY DEF Order, DeliveredGapless, Contract!Gapless
  <2>3. Contract!AllRows = AllRows
    BY DEF Contract!AllRows, AllRows, Contract!Chunks, Chunks
  <2>. QED
    BY <1>2, <2>1, <2>2, <2>3 DEF Contract!vars, Contract!Next, Contract!Deliver
<1>3. CASE ~AllDone /\ AllDone' /\ stopped'
  BY <1>3, LastStepDeliversNothing DEF Contract!Next, Contract!Abort
<1>4. CASE ~AllDone /\ AllDone' /\ ~stopped'
  <2>1. delivered' = delivered
    BY <1>4, LastStepDeliversNothing
  <2>3. delivered = AllRows
    BY <1>4, <2>1 DEF CompleteAtEnd
  <2>4. Contract!AllRows = AllRows
    BY DEF Contract!AllRows, AllRows, Contract!Chunks, Chunks
  <2>. QED
    BY <1>4, <2>1, <2>3, <2>4 DEF Contract!Next, Contract!Complete
<1>. QED  BY <1>1, <1>2, <1>3, <1>4

(* If tasks stay on their threads, the parallel scan implements its        *)
(* delivery contract: every row once, in order within its chunk, and all   *)
(* of them before the scan completes.                                      *)
THEOREM ScanImplementsContract == ASSUME ~MayMigrate PROVE Spec => DeliveryContract
<1>1. Init => Contract!Init
  BY ScanAssumption DEF Init, AllDone, Contract!Init
<1>2. Inductive /\ TypeOK' /\ CompleteAtEnd' /\ Order' /\ [Next]_vars
        => [Contract!Next]_(Contract!vars)
  BY ContractStep
<1>3. TypeOK /\ Ownership /\ Order /\ [Next]_vars => Order'
  BY OrderStep
<1>4. Inductive => TypeOK /\ Ownership /\ CompleteAtEnd
  BY NothingMissingAtEnd DEF Inductive
<1>. QED
  BY <1>1, <1>2, <1>3, <1>4, InductiveInvariant, OrderInit, PTL
  DEF Spec, DeliveryContract, Contract!Spec

-----------------------------------------------------------------------------
(* Counting the rows of a vector.                                          *)

(* A batch of n rows has n rows: their positions are consecutive.          *)
LEMMA BatchSize ==
  ASSUME NEW s \in LocalState, s.chunk # NoChunk, NEW n \in Nat
  PROVE  IsFiniteSet(BatchRows(s, n)) /\ Cardinality(BatchRows(s, n)) = n
<1> DEFINE c == s.chunk
           places == s.cursor .. s.cursor + n - 1
<1>1. s.cursor \in Nat
  BY DEF LocalState
<1>2. IsFiniteSet(places) /\ Cardinality(places) = n
  <2>1. /\ IsFiniteSet(places)
        /\ Cardinality(places) = IF s.cursor > s.cursor + n - 1 THEN 0
                                 ELSE (s.cursor + n - 1) - s.cursor + 1
    <3>1. s.cursor \in Int /\ s.cursor + n - 1 \in Int
      BY <1>1
    <3> QED
      BY <3>1, FS_Interval
  <2> QED
    BY <1>1, <2>1
<1>3. IsFiniteSet({c}) /\ Cardinality({c}) = 1
  BY FS_Singleton
<1> HIDE DEF c, places
<1>4. IsFiniteSet({c} \X places) /\ Cardinality({c} \X places) = 1 * n
  BY <1>2, <1>3, FS_Product
<1> QED
  BY <1>4 DEF BatchRows, c, places

(* The rows written are the rows in the vector.  A batch adds as many to    *)
(* the vector as to the count only because its rows are not there yet,      *)
(* which RowInOnePlace says.                                               *)
Counted(t) == IsFiniteSet(vector[t]) /\ Cardinality(vector[t]) = valid_rows[t]
VectorsCounted == \A t \in Threads : Counted(t)

LEMMA VectorsCountedInit == Init => VectorsCounted
  BY FS_EmptySet DEF Init, VectorsCounted, Counted

LEMMA VectorsCountedStep ==
  TypeOK /\ Ownership /\ VectorsCounted /\ [Next]_vars => VectorsCounted'
<1> SUFFICES ASSUME TypeOK, Ownership, VectorsCounted, [Next]_vars
             PROVE  VectorsCounted'
  OBVIOUS
<1> USE DEF Goto, shared, engine
<1>2. ASSUME NEW t \in Threads,
             /\ vector' = [vector EXCEPT ![t] = {}]
             /\ valid_rows' = [valid_rows EXCEPT ![t] = 0]
      PROVE  VectorsCounted'
  BY <1>2, FS_EmptySet DEF VectorsCounted, Counted, TypeOK
<1>3. ASSUME UNCHANGED <<vector, valid_rows>>
      PROVE  VectorsCounted'
  BY <1>3 DEF VectorsCounted, Counted
<1>4. ASSUME NEW t \in Threads, EmitBatch(t)
      PROVE  VectorsCounted'
  <2> DEFINE s == state[t]
             n == Batch(s, valid_rows[t])
             B == BatchRows(s, n)
             v == vector[t]
  <2>1. /\ s \in LocalState /\ s.chunk # NoChunk
        /\ valid_rows[t] \in 0 .. VectorSize
        /\ vector' = [vector EXCEPT ![t] = v \cup B]
        /\ valid_rows' = [valid_rows EXCEPT ![t] = valid_rows[t] + n]
    BY <1>4 DEF EmitBatch, TypeOK
  <2>2. n \in Nat /\ B \subseteq Tail(s)
    BY <2>1, BatchSplitsTail
  <2>3. IsFiniteSet(B) /\ Cardinality(B) = n
    BY <2>1, <2>2, BatchSize
  <2>4. v \cap B = {}
    BY <2>2 DEF Ownership, RowInOnePlace
  <2>5. IsFiniteSet(v) /\ Cardinality(v) = valid_rows[t]
    BY DEF VectorsCounted, Counted
  <2> HIDE DEF n, B, s, v
  <2>6. /\ IsFiniteSet(v \cup B)
        /\ Cardinality(v \cup B) = Cardinality(v) + Cardinality(B) - Cardinality(v \cap B)
    BY <2>3, <2>5, FS_Union
  <2>7. Cardinality(v \cap B) = 0
    BY <2>4, FS_EmptySet
  <2>8. Cardinality(v \cup B) = valid_rows[t] + n
    BY <2>1, <2>2, <2>3, <2>5, <2>6, <2>7
  <2>9. /\ vector'[t] = v \cup B /\ valid_rows'[t] = valid_rows[t] + n
        /\ \A u \in Threads \ {t} : vector'[u] = vector[u] /\ valid_rows'[u] = valid_rows[u]
    BY <2>1 DEF TypeOK
  <2> QED
    BY <2>6, <2>8, <2>9 DEF VectorsCounted, Counted
<1>5. ASSUME NEW t \in Threads, Func(t)
      PROVE  VectorsCounted'
  BY <1>2, <1>3, <1>4, <1>5
  DEF Func, Call, ClaimChunk, ReadChunk, EndOfStream, ReadError, Return
<1>6. ASSUME NEW t \in Threads, TakeTask(t) \/ YieldTask(t) \/ Abandon(t)
      PROVE  VectorsCounted'
  BY <1>3, <1>6 DEF TakeTask, YieldTask, Abandon
<1>7. CASE Cancel \/ Finished \/ UNCHANGED vars
  BY <1>3, <1>7 DEF Cancel, Finished, vars
<1> QED
  BY <1>5, <1>6, <1>7 DEF Next

(* valid_rows, which func announces as the length of the vector, is the     *)
(* number of rows it wrote into it, and the vector has room for them.       *)
THEOREM VectorFilledExactly == Spec => []VectorExact
<1>1. TypeOK /\ VectorsCounted => VectorExact
  BY ScanAssumption DEF TypeOK, VectorsCounted, Counted, VectorExact
<1> QED
  BY <1>1, TypeInit, TypeStep, OwnershipInit, OwnershipStep, VectorsCountedInit,
     VectorsCountedStep, PTL DEF Spec

=============================================================================
