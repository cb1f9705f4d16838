------------------------- MODULE MCExportPipeline ---------------------------
(* Exports for TLC, all of two coordinate columns.                         *)
EXTENDS ExportPipeline

Grid(n, m) == {<<i, j>> : i \in 0 .. n - 1, j \in 0 .. m - 1}

Export(R, nulls, chunks, held) ==
  [rows |-> R, nulls |-> nulls, chunks |-> chunks, held |-> held]

Auto == <<{}, {}>>

MCJobs == {
  (* Chunks of whole rows: the rows of a chunk follow one another.         *)
  Export(Grid(3, 2), {<<0, 1>>}, <<{1}, {2}>>, {}),
  (* Chunks that split both dimensions.                                    *)
  Export(Grid(2, 4), {}, <<{2}, {2}>>, {}),
  (* Chunks of one element, more of them than the memory limit holds.      *)
  Export(Grid(4, 2), {}, <<{1}, {1}>>, {}),
  (* One automatic chunk, and ragged automatic chunks.                     *)
  Export(Grid(2, 2), {<<1, 1>>}, Auto, {}),
  Export(Grid(3, 2), {<<2, 0>>}, Auto, {}),
  (* A missing row, and a chunk of nulls over one stored earlier.          *)
  Export(Grid(2, 3) \ {<<1, 1>>}, {<<1, 0>>, <<1, 2>>}, <<{1}, {3}>>, {<<1, 0>>}),
  (* Missing rows leave each chunk's together, the chunks out of order.    *)
  Export({<<0, 2>>, <<1, 0>>, <<1, 1>>}, {}, <<{2}, {2}>>, {}),
  (* Coordinates that are not dense, or negative.                          *)
  Export({<<0, 0>>, <<1, 0>>, <<5, 0>>}, {}, <<{1}, {1}>>, {}),
  Export({<<0, 0>>, <<0, -1>>}, {}, <<{1}, {1}>>, {}),
  (* A chunk size of 0 given by the user.                                  *)
  Export(Grid(2, 2), {}, <<{0}, {}>>, {}) }

SplitJobs == {Export(Grid(2, 4), {}, <<{2}, {2}>>, {})}

=============================================================================
