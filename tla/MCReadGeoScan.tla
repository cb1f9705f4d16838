--------------------------- MODULE MCReadGeoScan ----------------------------
(* Instances of the parallel scan for TLC.  Chunk 0 needs two vectors,     *)
(* chunk 1 leaves room for another chunk in the same vector, and the last  *)
(* chunk is smaller still.                                                 *)
EXTENDS ReadGeoScan, TLC

MCChunkRows == (0 :> 3) @@ (1 :> 1) @@ (2 :> 2)

ThreadSymmetry == Permutations(Threads)

=============================================================================
