---------------------------- MODULE ScanDelivery ----------------------------
(***************************************************************************)
(* What read_geo promises the query engine, whatever the number of worker  *)
(* threads: the rows of every chunk of the scan are handed over once, those *)
(* of one chunk in order, and a scan that ends without an error or a        *)
(* cancellation has handed over all of them.                               *)
(*                                                                         *)
(* ReadGeoScan is the parallel implementation of this specification.       *)
(***************************************************************************)
EXTENDS Integers

CONSTANTS
  NumChunks,   (* chunks of the scan: ZarrChunkStream.num_chunks           *)
  ChunkRows    (* rows of each chunk that lie inside the query's box       *)

VARIABLES
  delivered,   (* the rows handed to the engine                            *)
  status       (* "open", then "complete" or "aborted"                     *)

vars == <<delivered, status>>

Chunks == 0 .. NumChunks - 1

(* A row is a chunk and a position in that chunk's element vector.         *)
AllRows == UNION {{c} \X (0 .. ChunkRows[c] - 1) : c \in Chunks}

(* Within each chunk a set of rows has no gap below any of its rows.       *)
Gapless(R) == \A r \in R : \A i \in 0 .. r[2] : <<r[1], i>> \in R

Init ==
  /\ delivered = {}
  /\ status = "open"

(* A vector of rows is handed over: new rows only, no row skipped.         *)
Deliver ==
  /\ status = "open"
  /\ delivered \subseteq delivered' /\ delivered' # delivered
  /\ delivered' \subseteq AllRows
  /\ Gapless(delivered')
  /\ status' = status

(* The last worker is done: nothing may be missing.                        *)
Complete ==
  /\ status = "open"
  /\ delivered = AllRows
  /\ status' = "complete"
  /\ delivered' = delivered

(* A chunk could not be read, or the engine gave the query up.             *)
Abort ==
  /\ status = "open"
  /\ status' = "aborted"
  /\ delivered' = delivered

Next == Deliver \/ Complete \/ Abort

Spec == Init /\ [][Next]_vars

=============================================================================
