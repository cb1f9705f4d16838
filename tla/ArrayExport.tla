---------------------------- MODULE ArrayExport -----------------------------
(***************************************************************************)
(* What eider export promises, whatever its buffers, its channel and its   *)
(* tasks do: the array is created once; from then on it changes only chunk *)
(* by chunk, a chunk without a value of the query never; no cell shows     *)
(* anything but its own value, the fill value, or what was there before;   *)
(* and success means that every value has a cell, in a chunk that was      *)
(* written, and shows there unless the chunk was written too early.        *)
(*                                                                         *)
(* ExportPipeline is the implementation of this specification.             *)
(***************************************************************************)

CONSTANTS
  Fill,    (* the array's fill value                                       *)
  Held     (* what a cell shows of an earlier export                       *)

VARIABLES
  values,  (* the coordinates the query has a value for, each its value    *)
  held,    (* the chunks that the destination holds of an earlier export   *)
  array,   (* what a reader finds at each cell, once the array exists      *)
  chunk,   (* the chunk each cell belongs to                               *)
  whole,   (* chunks are written once their values are all there           *)
  status   (* "new", "open", perhaps "broken", then "success" or "failed"  *)

vars == <<values, held, array, chunk, whole, status>>

(* The chunks that some value belongs to.                                  *)
Touched == {chunk[c] : c \in values \cap DOMAIN chunk}

(* What a cell of a chunk may show once the chunk was written.  Values may  *)
(* be missing where the chunk is written too early, and once the query has *)
(* broken off.                                                             *)
Outcomes(c) ==
  IF c \notin values THEN {Fill}
  ELSE IF whole /\ status = "open" THEN {c}
  ELSE {c, Fill}

Init ==
  /\ array = <<>> /\ chunk = <<>>
  /\ whole = FALSE
  /\ status = "new"

(* The array comes into being over the chunks that are already there.      *)
Create ==
  /\ status = "new"
  /\ status' = "open"
  /\ array' = [c \in DOMAIN chunk' |-> IF chunk'[c] \in held THEN Held ELSE Fill]
  /\ whole' \in BOOLEAN
  /\ UNCHANGED <<values, held>>

(* One chunk is written, all its cells at once.                            *)
Replace ==
  /\ status \in {"open", "broken"}
  /\ DOMAIN array' = DOMAIN array
  /\ \E g \in Touched : \A c \in DOMAIN array :
       IF chunk[c] = g THEN array'[c] \in Outcomes(c) ELSE array'[c] = array[c]
  /\ UNCHANGED <<values, held, chunk, whole, status>>

(* The query breaks off: what was read of it is still written.              *)
Break ==
  /\ status = "open"
  /\ status' = "broken"
  /\ UNCHANGED <<values, held, array, chunk, whole>>

(* Nothing is missing.                                                     *)
Succeed ==
  /\ status = "open"
  /\ values \subseteq DOMAIN array
  /\ \A c \in DOMAIN array : chunk[c] \in Touched => array[c] \in Outcomes(c)
  /\ status' = "success"
  /\ UNCHANGED <<values, held, array, chunk, whole>>

(* The export gives up; the array stays as far as it came.                 *)
Fail ==
  /\ status \in {"new", "open", "broken"}
  /\ status' = "failed"
  /\ UNCHANGED <<values, held, array, chunk, whole>>

Next == Create \/ Replace \/ Break \/ Succeed \/ Fail

Spec == Init /\ [][Next]_vars

=============================================================================
