------------------------------ MODULE EiderPlot ------------------------------
(***************************************************************************)
(* The pictures of eider plot and the columns that plot and resample take   *)
(* for time, latitude, longitude and value.                                *)
(*                                                                         *)
(* A table: columns, in order, each with its name, what its name is like    *)
(* ("time", "lat", "lon" or "geom", a set) and whether its type is numeric; *)
(* and rows, in order, from a column's name to a set of at most one         *)
(* integer, NULL being {}.  Averages are kept as a sum and a count.  What   *)
(* is drawn on the terminal, colours and bars, is left out.                *)
(***************************************************************************)
EXTENDS Integers, Sequences, FiniteSets, FiniteSetsExt, SequencesExt, TLC

CONSTANTS
  Bins,            (* of a histogram: 10 in the code                       *)
  MaxRows,         (* of a heatmap: 40 in the code                         *)
  MaxCols,         (* of a heatmap: 80 in the code                         *)
  MaxPoints        (* of a line: 100 in the code                           *)

ASSUME PlotAssumption == {Bins, MaxRows, MaxCols, MaxPoints} \subseteq Nat \ {0}

-----------------------------------------------------------------------------
(* Which column is what.                                                   *)

Named(columns) == {columns[1].name : i \in {1} \cap DOMAIN columns}
LastNamed(columns) == Named(Reverse(columns))

Like(t, kind) == SelectSeq(t.columns, LAMBDA c : kind \in c.like)

(* The first column that is like no coordinate; none, if there is none.     *)
detect_value_column(t) == Named(SelectSeq(t.columns, LAMBDA c : c.like = {}))

(* detect_columns in duckdb_utils: the first column of each kind, and the   *)
(* first that is none of these; all four must be there.  Time is numeric if *)
(* any column like a time is.                                              *)
detect_columns(t) ==
  UNION {
    LET rest == SelectSeq(t.columns,
                  LAMBDA c : c.name \notin {time, lat, lon} /\ "geom" \notin c.like)
    IN {[time |-> time, lat |-> lat, lon |-> lon, value |-> value,
         numeric |-> \E c \in ToSet(Like(t, "time")) : c.numeric] : value \in Named(rest)}
    : time \in Named(Like(t, "time")), lat \in Named(Like(t, "lat")), lon \in Named(Like(t, "lon")) }

-----------------------------------------------------------------------------
(* The rows a picture is made of, and their places.                        *)

(* --pin, in the WHERE clause: it compares the column's value.             *)
Pinned(t, pin) == SelectSeq(t.rows, LAMBDA r : \A c \in DOMAIN pin : r[c] = {pin[c]})

Values(rows, column) == UNION {rows[i][column] : i \in DOMAIN rows}

(* The step of n between the least and the greatest value that v is in; the *)
(* greatest value is in step n, and NULL, or the only value, in step 0.    *)
Step(v, values, n) ==
  IF v = {} \/ Cardinality(values) <= 1 THEN 0
  ELSE (n * (Max(v) - Min(values))) \div (Max(values) - Min(values))

Average(rows, column) ==
  LET present == SelectSeq(rows, LAMBDA r : r[column] # {})
  IN [sum |-> FoldLeft(LAMBDA s, r : s + Max(r[column]), 0, present), count |-> Len(present)]

(* plot_hist: the number of rows in each bin.                              *)
Histogram(rows, value) ==
  LET Bin(r) == Step(r[value], Values(rows, value), Bins)
  IN [b \in {Bin(rows[i]) : i \in DOMAIN rows} |->
        Cardinality({i \in DOMAIN rows : Bin(rows[i]) = b})]

(* Faulty Clamp: the last row and column are kept free.                    *)
ClampShort(n, limit) == Max({1, Min({n, limit - 1})})

Clamp(n, limit) == Max({1, Min({n, limit})})

(* plot_heatmap: groups of rows by their steps, and the averages that end   *)
(* up in each cell, the last step being drawn over the one before it.  Of   *)
(* several in a cell, the one the engine returns last is seen.             *)
Heatmap(rows, lat, lon, value) ==
  LET lats == Values(rows, lat)
      lons == Values(rows, lon)
      height == Clamp(Cardinality(lats), MaxRows)
      width == Clamp(Cardinality(lons), MaxCols)
      Place(r) == <<Step(r[lat], lats, height), Step(r[lon], lons, width)>>
      Group(at) == Average(SelectSeq(rows, LAMBDA r : Place(r) = at), value)
      groups == {at \in {Place(rows[i]) : i \in DOMAIN rows} : Group(at).count > 0}
      Cell(at) == <<Min({at[1], height - 1}), Min({at[2], width - 1})>>
  IN [cell \in (0 .. height - 1) \X (0 .. width - 1) |->
        {Group(at) : at \in {g \in groups : Cell(g) = cell}}]

(* Faulty LineSize: rounded down.                                          *)
LineSizeDown(n) == IF n <= MaxPoints THEN 1 ELSE n \div MaxPoints

LineSize(n) == IF n <= MaxPoints THEN 1 ELSE (n + MaxPoints - 1) \div MaxPoints

(* plot_line: the values in time order, a point for LineSize of them.      *)
Line(rows, time, value) ==
  LET Before(i, j) == \/ rows[j][time] = {} /\ rows[i][time] # {}
                      \/ \E a \in rows[i][time], b \in rows[j][time] : a < b
                      \/ rows[i][time] = rows[j][time] /\ i < j
      present == {i \in DOMAIN rows : rows[i][value] # {}}
      Place(i) == 1 + Cardinality({j \in present : Before(j, i)})
      data == [k \in 1 .. Cardinality(present) |-> rows[CHOOSE i \in present : Place(i) = k]]
      size == LineSize(Len(data))
  IN [k \in 1 .. (Len(data) + size - 1) \div size |->
        Average(SubSeq(data, (k - 1) * size + 1, Min({k * size, Len(data)})), value)]

(* render_plot fails without the columns it needs, and a line without a     *)
(* value.                                                                  *)
PlotTypes == {"hist", "line", "heatmap"}

CanDraw(t, plot) ==
  LET rows == Pinned(t, plot.pin)
  IN /\ DOMAIN plot.pin \cup {plot.value} \subseteq {c.name : c \in ToSet(t.columns)}
     /\ plot.type = "line" => Like(t, "time") # <<>> /\ Values(rows, plot.value) # {}
     /\ plot.type = "heatmap" => Like(t, "lat") # <<>> /\ Like(t, "lon") # <<>>

-----------------------------------------------------------------------------
(* The table eider resample makes of an extraction, the aggregate being the *)
(* sum: a row for each period and place.                                   *)

Column(name, kinds, numeric) == [name |-> name, like |-> kinds, numeric |-> numeric]

(* A numeric time is cast to a timestamp, and only a number can be.        *)
CanResample(t, c) ==
  /\ {c.lat, c.lon} \subseteq {d.name : d \in ToSet(t.columns)}
  /\ \E d \in ToSet(t.columns) : d.name = c.time /\ d.numeric = c.numeric
  /\ \E d \in ToSet(t.columns) : d.name = c.value /\ d.numeric

Resampled(t, c, period) ==
  LET Key(r) == [time |-> {v \div period : v \in r[c.time]}, lat |-> r[c.lat], lon |-> r[c.lon]]
      key == [i \in DOMAIN t.rows |-> Key(t.rows[i])]
      firsts == SelectSeq([i \in DOMAIN key |-> i], LAMBDA i : \A j \in 1 .. i - 1 : key[j] # key[i])
      Row(k) == LET a == Average(SelectSeq(t.rows, LAMBDA r : Key(r) = k), c.value)
                IN (c.time :> {v * period : v \in k.time}) @@ (c.lat :> k.lat) @@ (c.lon :> k.lon)
                     @@ [value |-> IF a.count = 0 THEN {} ELSE {a.sum}]
  IN [columns |-> <<Column(c.time, {"time"}, FALSE), Column(c.lat, {"lat"}, TRUE),
                    Column(c.lon, {"lon"}, TRUE), Column("value", {}, TRUE)>>,
      rows |-> [i \in DOMAIN firsts |-> Row(key[firsts[i]])]]

=============================================================================
