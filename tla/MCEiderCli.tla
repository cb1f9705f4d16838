----------------------------- MODULE MCEiderCli -----------------------------
(* Commands for TLC: what two processes may do to two files, and each       *)
(* command by itself in every mode.                                        *)
EXTENDS EiderCli

CONSTANTS c1, c2

MCProcs == {c1, c2}

Row(time, lat, lon, value) == [time |-> {time}, lat |-> {lat}, lon |-> {lon}, value |-> value]
Coordinates == <<Column("time", {"time"}, TRUE), Column("lat", {"lat"}, TRUE),
                 Column("lon", {"lon"}, TRUE)>>

(* Three latitudes and two longitudes, evenly spaced; a row is missing, two *)
(* are at one place, and a value is NULL.                                  *)
Grid == [columns |-> Append(Coordinates, Column("value", {}, TRUE)),
         rows |-> <<Row(10, 0, 5, {4}), Row(11, 0, 5, {6}), Row(10, 0, 7, {1}), Row(12, 3, 5, {2}),
                    Row(10, 6, 5, {}), Row(13, 6, 7, {9})>>]

(* A column of the vector file is taken for a latitude, or for a time.      *)
Plateau == [Grid EXCEPT !.columns = Append(@, Column("value", {"lat"}, TRUE))]
Dated == [columns |-> <<Column("time", {"time"}, FALSE)>> \o Tail(Coordinates)
                        \o <<Column("value", {"time"}, TRUE), Column("value", {}, TRUE)>>,
          rows |-> Grid.rows]
(* Nothing but coordinates.                                                *)
Bare == [columns |-> Coordinates, rows |-> Grid.rows]
Uneven == [Grid EXCEPT !.rows = Append(@, Row(14, 7, 5, {3}))]

Before(data) == [extracted |-> {[by |-> "before", data |-> data]}, resampled |-> {}]

Default == [name |-> "extract", json |-> FALSE, tty |-> FALSE, yes |-> FALSE, uri |-> {"u"},
            arrays |-> {""}, out |-> "a", input |-> "b", result |-> Grid,
            freq |-> {"month"}, agg |-> {"sum"}, period |-> 2,
            api |-> {"api"}, collection |-> {"c"}, collections |-> {"c"}, features |-> <<>>,
            bbox_parses |-> TRUE, chunks_parse |-> TRUE,
            type |-> {}, table |-> "extracted_data", value |-> {}, pin |-> <<>>]

Modes(c) == {[c EXCEPT !.json = json, !.tty = tty] : json, tty \in BOOLEAN}

-----------------------------------------------------------------------------
(* Two commands that write, on the same files.                             *)

Extracts == UNION {Modes([Default EXCEPT !.yes = yes]) : yes \in BOOLEAN}
Resamples == UNION {Modes([Default EXCEPT !.name = "resample", !.out = out, !.input = in])
                      : out \in {"a"}, in \in {"a", "b"}}
Fresh == Modes([Default EXCEPT !.name = "resample"])

Files == {
  [path |-> [a |-> 0, b |-> 1], db |-> <<Before(Grid)>>],
  [path |-> [a |-> 1, b |-> 2], db |-> <<Before(Grid), Before(Grid)>>] }

Together ==
  {[cmd |-> (c1 :> x) @@ (c2 :> y), path |-> f.path, db |-> f.db]
     : x \in {c \in Extracts \cup Fresh : c.json => ~c.tty},
       y \in {c \in Extracts \cup Resamples : c.json => ~c.tty}, f \in Files}

-----------------------------------------------------------------------------
(* A command by itself; the other process is a shell on another file.       *)

Feature(self, supported) == [self |-> self, supported |-> supported]
Good == Feature(TRUE, TRUE)

Singles == UNION {Modes(c) : c \in {
  [Default EXCEPT !.uri = {}],
  [Default EXCEPT !.out = ""],
  [Default EXCEPT !.arrays = {}],
  [Default EXCEPT !.arrays = {"x", "y"}],
  [Default EXCEPT !.name = "resample", !.freq = {}],
  [Default EXCEPT !.name = "resample", !.agg = {}],
  [Default EXCEPT !.name = "resample", !.agg = {"unknown"}],
  [Default EXCEPT !.name = "info"],
  [Default EXCEPT !.name = "info", !.arrays = {"x", "y"}],
  [Default EXCEPT !.name = "ingest"],
  [Default EXCEPT !.name = "ingest", !.input = "a"],
  [Default EXCEPT !.name = "ingest", !.chunks_parse = FALSE],
  [Default EXCEPT !.name = "export"],
  [Default EXCEPT !.name = "export", !.input = ""],
  [Default EXCEPT !.name = "search", !.api = {}],
  [Default EXCEPT !.name = "search", !.collection = {}],
  [Default EXCEPT !.name = "search", !.collection = {}, !.collections = {}],
  [Default EXCEPT !.name = "search", !.bbox_parses = FALSE, !.features = <<Good>>],
  [Default EXCEPT !.name = "search", !.features = <<Good, Feature(FALSE, TRUE)>>],
  [Default EXCEPT !.name = "search", !.features = <<Good, Good>>, !.arrays = {"x", "y"}],
  [Default EXCEPT !.name = "plot"],
  [Default EXCEPT !.name = "plot", !.input = "a"],
  [Default EXCEPT !.name = "plot", !.type = {"heatmap"}, !.table = "resampled_data"],
  [Default EXCEPT !.name = "plot", !.type = {"heatmap"}, !.pin = [time |-> 10]],
  [Default EXCEPT !.name = "plot", !.type = {"heatmap"}, !.pin = [time |-> 1]],
  [Default EXCEPT !.name = "plot", !.type = {"line"}, !.pin = [level |-> 0]],
  [Default EXCEPT !.name = "plot", !.type = {"line"}, !.value = {"nothing"}] }}

Pictures == UNION {Modes([Default EXCEPT !.name = "plot", !.type = {type}, !.value = value])
                     : type \in PlotTypes, value \in {{}, {"value"}}}

Alone ==
  {[cmd |-> (c1 :> x) @@ (c2 :> [Default EXCEPT !.name = "shell"]),
    path |-> [a |-> 0, b |-> 1, c |-> 0], db |-> <<Before(Grid)>>]
     : x \in Singles}
  \cup
  {[cmd |-> (c1 :> x) @@ (c2 :> [Default EXCEPT !.name = "resample", !.json = TRUE]),
    path |-> [a |-> 0, b |-> 1], db |-> <<Before(data)>>]
     : x \in Pictures, data \in {Grid, Plateau, Dated, Bare, Uneven}}

MCJobs == Together \cup Alone

=============================================================================
