------------------------------ MODULE EiderCli ------------------------------
(***************************************************************************)
(* The commands of eider, run by several processes on the same database     *)
(* files: extract, resample, info, search, ingest, export, plot and shell.  *)
(*                                                                         *)
(* A path leads to a file, or to none; a file that was unlinked lives on    *)
(* for the process that has it open, and a process that opens a file keeps  *)
(* every other process out of it.  A file holds at most one extracted_data  *)
(* and one resampled_data table, each with the process that wrote it.       *)
(*                                                                         *)
(* Whoever answers a prompt answers anything, or nothing.  The engine, the  *)
(* network and the disk may fail wherever they are used (Fail), and a       *)
(* process may be killed anywhere (Kill).  What the array library finds at  *)
(* a URI, what a STAC API answers and what an extraction yields are part of *)
(* the command; ReadGeoScan, StacSearch and ExportPipeline look inside.     *)
(***************************************************************************)
EXTENDS EiderPlot

CONSTANTS
  Procs,           (* one process for each command                         *)
  Jobs             (* initial commands, paths and files                    *)

VARIABLES
  cmd,             (* the command line of each process, and what it finds  *)
  path,            (* the file at each path, 0 being none                  *)
  db,              (* the files: their tables                              *)
  proc             (* the state of each process                            *)

vars == <<cmd, path, db, proc>>

Paths == DOMAIN path
Writers == {"extract", "resample"}
JsonDocument == Writers \cup {"info", "search", "ingest"}
Prompts == {"ask_dataset", "ask_overwrite", "ask_proceed", "ask_freq", "ask_agg",
            "ask_api", "ask_collection", "ask_item", "ask_plot"}
External == {"resolve", "remove", "open", "plan", "query", "attach", "detect", "describe",
             "collection", "find", "ingest", "upload", "draw"}

(* A job is a command line for each process, the file at each path and the   *)
(* files.  main.rs requires every path of a command but the output of       *)
(* extract and the database of export, "" if it is not given.  Two names of  *)
(* one file count as one path.                                             *)
ASSUME JobsAssumption ==
  \A job \in Jobs :
    LET paths == DOMAIN job.path
        files == DOMAIN job.db
    IN /\ job.db \in Seq({job.db[i] : i \in files})
       /\ \A i \in files : DOMAIN job.db[i] = {"extracted", "resampled"}
       /\ job.path \in [paths -> {0} \cup files] /\ "" \notin paths
       /\ \A f, g \in paths : job.path[f] = job.path[g] /\ job.path[f] # 0 => f = g
       /\ \A p \in Procs :
            LET c == job.cmd[p]
            IN /\ c.name \in JsonDocument \cup {"export", "plot", "shell"}
               /\ c.name = "extract" => c.out \in paths \cup {""}
               /\ c.name = "resample" => c.out \in paths
               /\ c.name \in {"resample", "ingest", "plot", "shell"} => c.input \in paths
               /\ c.name = "export" => c.input \in paths \cup {""}

First(name) ==
  CASE name = "extract" -> "stdin"
    [] name = "resample" -> "freq"
    [] name = "info" -> "resolve"
    [] name = "search" -> "api"
    [] name = "ingest" -> "ingest"
    [] name \in {"export", "plot"} -> "open"
    [] OTHER -> "shell"

mode(p) == IF cmd[p].json THEN "AgentJson" ELSE IF cmd[p].tty THEN "Human" ELSE "Agent"

Tables(i) == IF i = 0 THEN {} ELSE db[i].extracted \cup db[i].resampled

(* The file that is opened: where a result goes, or where data comes from. *)
Target(p) == IF cmd[p].name \in Writers THEN cmd[p].out ELSE cmd[p].input

Free(p, i) == \A q \in Procs \ {p} : i \notin proc[q].held

Init ==
  /\ \E job \in Jobs : cmd = job.cmd /\ path = job.path /\ db = job.db
  /\ proc = [p \in Procs |->
       [pc |-> First(cmd[p].name), held |-> {}, file |-> 0, source |-> 0, seen |-> {},
        agreed |-> FALSE, columns |-> {}, plot |-> {}, picture |-> {}, printed |-> 0,
        outcome |-> "none"]]

-----------------------------------------------------------------------------
(* Steps that every command has.                                           *)

Updated(state, changes) ==
  [x \in DOMAIN state |-> IF x \in DOMAIN changes THEN changes[x] ELSE state[x]]

Move(p, changes) == proc' = [proc EXCEPT ![p] = Updated(@, changes)]
Goto(p, pc) == Move(p, [pc |-> pc])

(* A command ends, and prints documents of JSON if it was asked for JSON.   *)
End(p, outcome, documents) ==
  Move(p, [pc |-> "end", outcome |-> outcome, held |-> {},
           printed |-> IF cmd[p].json THEN documents ELSE 0])

(* Faulty Error: the error is printed as text.                             *)
ErrorInText(p) == End(p, "error", 0)

(* main prints an error of any command as a document.                      *)
Error(p) == End(p, "error", 1)

(* inquire fails where there is no terminal.                               *)
Ask(p, prompt) == IF cmd[p].tty THEN Goto(p, prompt) ELSE Error(p)

(* Faulty Given: JSON output does not keep it from asking.                 *)
GivenOrAsked(p, flag, next, prompt) ==
  IF cmd[p][flag] # {} THEN Goto(p, next) ELSE Ask(p, prompt)

(* get_freq_and_agg: a flag that is not given is asked for.                *)
Given(p, flag, next, prompt) ==
  IF cmd[p][flag] # {} THEN Goto(p, next)
  ELSE IF cmd[p].json THEN Error(p)
  ELSE Ask(p, prompt)

Fail(p) == proc[p].pc \in External /\ Error(p) /\ UNCHANGED <<cmd, path, db>>

Cancel(p) == proc[p].pc \in Prompts /\ Error(p) /\ UNCHANGED <<cmd, path, db>>

Kill(p) == proc[p].pc # "end" /\ End(p, "killed", 0) /\ UNCHANGED <<cmd, path, db>>

-----------------------------------------------------------------------------
(* The dataset's URI, in extract, info and search.                         *)

ReadUri(p) ==
  /\ proc[p].pc = "stdin"
  /\ IF cmd[p].uri = {} THEN Error(p) ELSE Goto(p, "resolve")
  /\ UNCHANGED <<cmd, path, db>>

UriKnown(p) ==
  CASE cmd[p].name = "info" -> Goto(p, "describe")
    [] cmd[p].name = "search" -> End(p, "success", 0)
    [] OTHER -> IF cmd[p].out = "" THEN Error(p) ELSE Goto(p, "check")

(* Only a group, which holds more than itself, is asked about.             *)
prompt_zarr_uri(p) ==
  /\ proc[p].pc = "resolve"
  /\ IF cmd[p].arrays \subseteq {""} THEN UriKnown(p)
     ELSE IF mode(p) = "Human" THEN Goto(p, "ask_dataset")
     ELSE Error(p)
  /\ UNCHANGED <<cmd, path, db>>

AnswerDataset(p) ==
  /\ proc[p].pc = "ask_dataset"
  /\ UriKnown(p)
  /\ UNCHANGED <<cmd, path, db>>

-----------------------------------------------------------------------------
(* The database that extract and resample write.                           *)

(* Faulty check_overwrite_protection: JSON output goes on.                 *)
CheckLessInJson(p) ==
  LET Seen(pc, agreed) ==
        Move(p, [pc |-> pc, agreed |-> agreed, seen |-> Tables(path[cmd[p].out])])
  IN /\ proc[p].pc = "check"
     /\ IF path[cmd[p].out] = 0 \/ cmd[p].json THEN Seen("open", FALSE)
        ELSE IF cmd[p].name = "extract" /\ cmd[p].yes THEN Seen("remove", TRUE)
        ELSE IF cmd[p].tty THEN Seen("ask_overwrite", FALSE)
        ELSE Error(p)
     /\ UNCHANGED <<cmd, path, db>>

(* extract.rs, and run_resample without --yes.                             *)
check_overwrite_protection(p) ==
  LET there == path[cmd[p].out] # 0
      Seen(pc, agreed) ==
        Move(p, [pc |-> pc, agreed |-> agreed, seen |-> Tables(path[cmd[p].out])])
  IN /\ proc[p].pc = "check"
     /\ IF ~there THEN Seen("open", FALSE)
        ELSE IF cmd[p].json THEN Error(p)
        ELSE IF cmd[p].name = "extract" /\ cmd[p].yes THEN Seen("remove", TRUE)
        ELSE IF cmd[p].tty THEN Seen("ask_overwrite", FALSE)
        ELSE Error(p)
     /\ UNCHANGED <<cmd, path, db>>

AnswerOverwrite(p) ==
  /\ proc[p].pc = "ask_overwrite"
  /\ \/ Move(p, [pc |-> "remove", agreed |-> TRUE])
     \/ End(p, "declined", 0)
  /\ UNCHANGED <<cmd, path, db>>

RemoveOutput(p) ==
  LET f == cmd[p].out
  IN /\ proc[p].pc = "remove"
     /\ IF path[f] = 0 THEN Error(p) /\ UNCHANGED path
        ELSE Goto(p, "open") /\ path' = [path EXCEPT ![f] = 0]
     /\ UNCHANGED <<cmd, db>>

(* Faulty Attach: the file is created by the first table.                  *)
AttachLazily(p, f, field, pc) ==
  LET i == IF path[f] = 0 THEN Len(db) + 1 ELSE path[f]
  IN IF ~Free(p, i) \/ i \in proc[p].held
     THEN Error(p) /\ UNCHANGED <<path, db>>
     ELSE /\ path' = [path EXCEPT ![f] = i]
          /\ proc' = [proc EXCEPT ![p][field] = i, ![p].pc = pc, ![p].held = @ \cup {i}]
          /\ UNCHANGED db

(* The engine opens the file at a path, or creates one there; it keeps the  *)
(* file to this process.                                                   *)
Attach(p, f, field, pc) ==
  LET i == IF path[f] = 0 THEN Len(db) + 1 ELSE path[f]
  IN IF ~Free(p, i) \/ i \in proc[p].held
     THEN Error(p) /\ UNCHANGED <<path, db>>
     ELSE /\ path' = [path EXCEPT ![f] = i]
          /\ db' = IF path[f] = 0 THEN Append(db, [extracted |-> {}, resampled |-> {}]) ELSE db
          /\ proc' = [proc EXCEPT ![p][field] = i, ![p].pc = pc, ![p].held = @ \cup {i}]

AfterOpen(name) ==
  CASE name = "extract" -> "plan"
    [] name = "resample" -> "attach"
    [] name = "plot" -> "choose"
    [] OTHER -> "upload"

Open(p) ==
  LET f == Target(p)
  IN /\ proc[p].pc = "open"
     /\ IF f = "" THEN Goto(p, "upload") /\ UNCHANGED <<path, db>>
        ELSE IF cmd[p].name = "plot" /\ path[f] = 0 THEN Error(p) /\ UNCHANGED <<path, db>>
        ELSE Attach(p, f, "file", AfterOpen(cmd[p].name))
     /\ UNCHANGED cmd

(* The success message of extract, resample and ingest.                    *)
Report(p) ==
  /\ proc[p].pc = "report"
  /\ End(p, "success", 1)
  /\ UNCHANGED <<cmd, path, db>>

-----------------------------------------------------------------------------
(* extract                                                                 *)

(* The plan is printed; a terminal is asked unless --yes was given.        *)
print_extraction_plan(p) ==
  /\ proc[p].pc = "plan"
  /\ Goto(p, IF cmd[p].yes \/ mode(p) # "Human" THEN "query" ELSE "ask_proceed")
  /\ UNCHANGED <<cmd, path, db>>

AnswerProceed(p) ==
  /\ proc[p].pc = "ask_proceed"
  /\ Goto(p, "query") \/ End(p, "declined", 0)
  /\ UNCHANGED <<cmd, path, db>>

(* CREATE OR REPLACE TABLE extracted_data, whatever is there by now.       *)
Extract(p) ==
  /\ proc[p].pc = "query" /\ cmd[p].name = "extract"
  /\ db' = [db EXCEPT ![proc[p].file].extracted =
              {[by |-> p, data |-> cmd[p].result]}]
  /\ Goto(p, "report")
  /\ UNCHANGED <<cmd, path>>

-----------------------------------------------------------------------------
(* resample                                                                *)

GetFreq(p) ==
  /\ proc[p].pc = "freq"
  /\ Given(p, "freq", "agg", "ask_freq")
  /\ UNCHANGED <<cmd, path, db>>

AnswerFreq(p) ==
  /\ proc[p].pc = "ask_freq"
  /\ Goto(p, "agg")
  /\ UNCHANGED <<cmd, path, db>>

validate_agg(agg) == agg # "unknown"

GetAgg(p) ==
  /\ proc[p].pc = "agg"
  /\ IF \A agg \in cmd[p].agg : validate_agg(agg)
     THEN Given(p, "agg", "detect", "ask_agg")
     ELSE Error(p)
  /\ UNCHANGED <<cmd, path, db>>

AnswerAgg(p) ==
  /\ proc[p].pc = "ask_agg"
  /\ Goto(p, "detect")
  /\ UNCHANGED <<cmd, path, db>>

(* The input is opened, described, and closed again.                       *)
DetectColumns(p) ==
  LET i == path[cmd[p].input]
      found == IF i = 0 THEN {}
               ELSE UNION {detect_columns(t.data) : t \in db[i].extracted}
  IN /\ proc[p].pc = "detect"
     /\ IF i # 0 /\ Free(p, i) /\ found # {}
        THEN Move(p, [pc |-> "check", columns |-> found])
        ELSE Error(p)
     /\ UNCHANGED <<cmd, path, db>>

AttachInput(p) ==
  /\ proc[p].pc = "attach"
  /\ Attach(p, cmd[p].input, "source", "query")
  /\ UNCHANGED cmd

(* Faulty Resample: CREATE TABLE IF NOT EXISTS.                            *)
ResampleIfNotExists(p) ==
  LET tables == db[proc[p].source].extracted
      file == proc[p].file
  IN /\ proc[p].pc = "query" /\ cmd[p].name = "resample"
     /\ IF \E t \in tables : \A c \in proc[p].columns : CanResample(t.data, c)
        THEN /\ db' = IF db[file].resampled # {} THEN db
                      ELSE [db EXCEPT ![file].resampled =
                              {[by |-> p, data |-> Resampled(t.data, c, cmd[p].period)]
                                 : t \in tables, c \in proc[p].columns}]
             /\ Goto(p, "report")
        ELSE Error(p) /\ UNCHANGED db
     /\ UNCHANGED <<cmd, path>>

(* CREATE TABLE resampled_data of what the input holds by now, with the     *)
(* columns found before.                                                   *)
Resample(p) ==
  LET tables == db[proc[p].source].extracted
  IN /\ proc[p].pc = "query" /\ cmd[p].name = "resample"
     /\ IF /\ db[proc[p].file].resampled = {}
           /\ \E t \in tables : \A c \in proc[p].columns : CanResample(t.data, c)
        THEN /\ db' = [db EXCEPT ![proc[p].file].resampled =
                         {[by |-> p, data |-> Resampled(t.data, c, cmd[p].period)]
                            : t \in tables, c \in proc[p].columns}]
             /\ Goto(p, "report")
        ELSE Error(p) /\ UNCHANGED db
     /\ UNCHANGED <<cmd, path>>

-----------------------------------------------------------------------------
(* search                                                                  *)

GetApi(p) ==
  /\ proc[p].pc = "api"
  /\ IF cmd[p].api # {} THEN Goto(p, "collection")
     ELSE IF mode(p) = "Human" THEN Goto(p, "ask_api")
     ELSE Error(p)
  /\ UNCHANGED <<cmd, path, db>>

AnswerApi(p) ==
  /\ proc[p].pc = "ask_api"
  /\ Goto(p, "collection")
  /\ UNCHANGED <<cmd, path, db>>

(* Without a collection given, JSON gets the list of them and no search.   *)
GetCollection(p) ==
  /\ proc[p].pc = "collection"
  /\ IF cmd[p].collection # {} THEN Goto(p, "find")
     ELSE IF cmd[p].collections = {} THEN Error(p)
     ELSE IF mode(p) = "AgentJson" THEN End(p, "success", 1)
     ELSE IF mode(p) = "Human" THEN Goto(p, "ask_collection")
     ELSE Error(p)
  /\ UNCHANGED <<cmd, path, db>>

AnswerCollection(p) ==
  /\ proc[p].pc = "ask_collection"
  /\ Goto(p, "find")
  /\ UNCHANGED <<cmd, path, db>>

(* Items that have a link to themselves and an asset that can be read.      *)
parse_search_results(features) == SelectSeq(features, LAMBDA f : f.self /\ f.supported)

Find(p) ==
  LET found == parse_search_results(cmd[p].features)
  IN /\ proc[p].pc = "find"
     /\ IF ~cmd[p].bbox_parses THEN Error(p)
        ELSE IF mode(p) # "Human" THEN End(p, "success", 1)
        ELSE IF found = <<>> THEN Error(p)
        ELSE Goto(p, IF Len(found) = 1 THEN "resolve" ELSE "ask_item")
     /\ UNCHANGED <<cmd, path, db>>

AnswerItem(p) ==
  /\ proc[p].pc = "ask_item"
  /\ Goto(p, "resolve")
  /\ UNCHANGED <<cmd, path, db>>

-----------------------------------------------------------------------------
(* info, ingest, export and shell.                                         *)

Describe(p) ==
  /\ proc[p].pc = "describe"
  /\ End(p, "success", 1)
  /\ UNCHANGED <<cmd, path, db>>

Ingest(p) ==
  /\ proc[p].pc = "ingest"
  /\ IF path[cmd[p].input] # 0 /\ cmd[p].chunks_parse THEN Goto(p, "upload") ELSE Error(p)
  /\ UNCHANGED <<cmd, path, db>>

(* run_export, which ExportPipeline models; ingest reports, export does not. *)
Upload(p) ==
  /\ proc[p].pc = "upload"
  /\ IF cmd[p].name = "ingest" THEN Goto(p, "report") ELSE End(p, "success", 0)
  /\ UNCHANGED <<cmd, path, db>>

(* A chunk that cannot be stored exits the process, without a document.     *)
UploadExits(p) ==
  /\ proc[p].pc = "upload"
  /\ End(p, "exit", 0)
  /\ UNCHANGED <<cmd, path, db>>

(* The DuckDB CLI opens the file, or fails to; both are a success.  What its *)
(* user does in it is left out.                                            *)
Shell(p) ==
  /\ proc[p].pc = "shell"
  /\ \/ Free(p, path[cmd[p].input]) /\ Attach(p, cmd[p].input, "file", "close")
     \/ End(p, "success", 0) /\ UNCHANGED <<path, db>>
  /\ UNCHANGED cmd

(* The end of a shell, or of a plot that was drawn.                        *)
Close(p) ==
  /\ proc[p].pc = "close"
  /\ End(p, "success", 0)
  /\ UNCHANGED <<cmd, path, db>>

-----------------------------------------------------------------------------
(* plot                                                                    *)

Stored(p, table) ==
  IF table = "extracted_data" THEN db[proc[p].file].extracted ELSE db[proc[p].file].resampled

(* The picture of a command that names its type, on each table there is.   *)
Chosen(p) ==
  LET Plots(t) ==
        {[table |-> cmd[p].table, type |-> type, value |-> value, pin |-> cmd[p].pin]
           : type \in cmd[p].type,
             value \in IF cmd[p].value # {} THEN cmd[p].value ELSE detect_value_column(t.data)}
  IN UNION {Plots(t) : t \in Stored(p, cmd[p].table)}

(* Without a type the wizard asks, whatever the mode is.                   *)
Choose(p) ==
  /\ proc[p].pc = "choose"
  /\ IF cmd[p].type = {}
     THEN IF Tables(proc[p].file) = {} THEN Error(p) ELSE Ask(p, "ask_plot")
     ELSE IF Chosen(p) = {} THEN Error(p)
     ELSE Move(p, [pc |-> "draw", plot |-> Chosen(p)])
  /\ UNCHANGED <<cmd, path, db>>

(* The wizard: a table, columns of which the last is the value, and a type. *)
AnswerPlot(p) ==
  /\ proc[p].pc = "ask_plot"
  /\ \/ End(p, "success", 0)
     \/ \E table \in {"extracted_data", "resampled_data"}, type \in PlotTypes :
          \E t \in Stored(p, table) : \E column \in ToSet(t.data.columns) :
            Move(p, [pc |-> "draw", plot |-> {[table |-> table, type |-> type,
                                              value |-> column.name, pin |-> <<>>]}])
  /\ UNCHANGED <<cmd, path, db>>

(* The picture itself is what Histogram, Line and Heatmap make of the rows. *)
Drawing(p) ==
  {[data |-> t.data, plot |-> plot]
     : t \in UNION {Stored(p, c.table) : c \in proc[p].plot}, plot \in proc[p].plot}

Draw(p) ==
  /\ proc[p].pc = "draw"
  /\ IF \A c \in Drawing(p) : CanDraw(c.data, c.plot)
     THEN Move(p, [pc |-> "close", picture |-> Drawing(p)])
     ELSE Error(p)
  /\ UNCHANGED <<cmd, path, db>>

-----------------------------------------------------------------------------
(* What a process does by itself, what its user answers, and what happens   *)
(* to it.                                                                  *)
Run(p) ==
  \/ ReadUri(p) \/ prompt_zarr_uri(p)
  \/ check_overwrite_protection(p) \/ RemoveOutput(p) \/ Open(p) \/ Report(p)
  \/ print_extraction_plan(p) \/ Extract(p)
  \/ GetFreq(p) \/ GetAgg(p) \/ DetectColumns(p) \/ AttachInput(p) \/ Resample(p)
  \/ GetApi(p) \/ GetCollection(p) \/ Find(p)
  \/ Describe(p) \/ Ingest(p) \/ Upload(p) \/ UploadExits(p) \/ Shell(p) \/ Choose(p) \/ Draw(p) \/ Close(p)

Answer(p) ==
  \/ AnswerDataset(p) \/ AnswerOverwrite(p) \/ AnswerProceed(p) \/ AnswerFreq(p) \/ AnswerAgg(p)
  \/ AnswerApi(p) \/ AnswerCollection(p) \/ AnswerItem(p) \/ AnswerPlot(p)

Ended == (\A p \in Procs : proc[p].pc = "end") /\ UNCHANGED vars

Next ==
  \/ \E p \in Procs : Run(p) \/ Answer(p) \/ Fail(p) \/ Cancel(p) \/ Kill(p)
  \/ Ended

Spec == Init /\ [][Next]_vars

(* A process goes on by itself; nobody has to answer it.                   *)
FairSpec == Spec /\ \A p \in Procs : WF_vars(Run(p))

-----------------------------------------------------------------------------
(* Processes have only the steps of their command, a file they opened is    *)
(* one that exists, no two have one open, and nothing is printed twice.     *)
TypeOK ==
  /\ path \in [Paths -> 0 .. Len(db)]
  /\ \A p \in Procs :
       /\ proc[p].pc \in Prompts \cup External \cup {"stdin", "check", "api", "freq", "agg", "report",
            "choose", "shell", "close", "end"}
       /\ proc[p].held \subseteq 1 .. Len(db)
       /\ \A q \in Procs \ {p} : proc[p].held \cap proc[q].held = {}
       /\ proc[p].printed \in {0, 1} /\ proc[p].agreed \in BOOLEAN
       /\ proc[p].pc = "end" <=> proc[p].outcome # "none"

(* extract.rs, resample.rs: a table that was in the output when a command   *)
(* looked for it is lost by that command only after its user agreed, with   *)
(* --yes or at the prompt.  (A table that another command wrote after the   *)
(* look is not protected.)                                                 *)
Reachable == UNION {Tables(path[f]) : f \in Paths}

LostOnlyIfAgreed ==
  [][\A p \in Procs : proc'[p] # proc[p] /\ ~proc[p].agreed =>
       proc[p].seen \cap Reachable \subseteq Reachable']_vars

(* A command that reports success has left its table in its file, where     *)
(* only another extract on that path can replace it; and the path it was    *)
(* told leads to that file, unless another command was allowed to remove it. *)
SuccessHasResult ==
  \A p \in Procs :
    cmd[p].name \in Writers /\ (proc[p].pc = "report" \/ proc[p].outcome = "success") =>
      LET out == cmd[p].out
          Others == {q \in Procs \ {p} : cmd[q].name \in Writers /\ cmd[q].out = out}
      IN /\ \/ \E t \in Tables(proc[p].file) : t.by = p
            \/ proc[p].pc = "end" /\ \E q \in Others, t \in db[proc[p].file].extracted : t.by = q
         /\ path[out] = proc[p].file \/ \E q \in Others : proc[q].agreed

(* main.rs, docs: a command that prints JSON never waits for a user and     *)
(* ends, but for plot without a type, which starts the wizard.             *)
JsonEnds ==
  \A p \in Procs :
    (cmd[p].json /\ (cmd[p].name = "plot" => cmd[p].type # {})) ~> proc[p].pc = "end"

(* main.rs: with JSON output a command that ends in an error prints one      *)
(* document, and one that succeeds prints one if it is extract, resample,    *)
(* info, search or ingest; export, plot and shell print none when they      *)
(* succeed, and neither does a command that is killed nor an upload that     *)
(* exits at a chunk it cannot store (stream.rs).  Nothing is printed before  *)
(* the end, and no command is declined: that would print no document, too.  *)
Documents(p, outcome) ==
  IF outcome = "error" \/ (outcome = "success" /\ cmd[p].name \in JsonDocument) THEN 1 ELSE 0

OneDocument ==
  \A p \in Procs :
    cmd[p].json =>
      proc[p].outcome # "declined" /\ proc[p].printed = Documents(p, proc[p].outcome)

(* plot.rs: on evenly spaced axes that fit the terminal, and without NULL   *)
(* coordinates, each cell of a heatmap shows the average of exactly the     *)
(* rows at its latitude and longitude, and nothing where there are none.    *)
Drawn(type) == UNION {{c \in proc[p].picture : c.plot.type = type} : p \in Procs}

Even(values) ==
  \A v \in values : (v - Min(values)) * (Cardinality(values) - 1)
                     = (Max(values) - Min(values)) * Cardinality({w \in values : w < v})

Rank(v, values) == Cardinality({w \in values : w < Max(v)})

HeatmapTrue ==
  \A c \in Drawn("heatmap") :
    \A lat \in LastNamed(Like(c.data, "lat")), lon \in LastNamed(Like(c.data, "lon")) :
      LET rows == Pinned(c.data, c.plot.pin)
          lats == Values(rows, lat)
          lons == Values(rows, lon)
          shown == Heatmap(rows, lat, lon, c.plot.value)
          At(cell) == SelectSeq(rows, LAMBDA r : /\ Rank(r[lat], lats) = cell[1]
                                                /\ Rank(r[lon], lons) = cell[2])
      IN (/\ \A i \in DOMAIN rows : {} \notin {rows[i][lat], rows[i][lon]}
          /\ Cardinality(lats) \in 1 .. MaxRows /\ Cardinality(lons) \in 1 .. MaxCols
          /\ Even(lats) /\ Even(lons))
         => shown = [cell \in (0 .. Cardinality(lats) - 1) \X (0 .. Cardinality(lons) - 1) |->
                       {Average(At(cell), c.plot.value)} \ {[sum |-> 0, count |-> 0]}]

(* plot.rs: every row is in exactly one bin of a histogram, of which there  *)
(* is one more than Bins, for the greatest value.  A line has at most       *)
(* MaxPoints points, and every value is in exactly one of their averages.   *)
PictureWhole ==
  /\ \A c \in Drawn("hist") :
       LET rows == Pinned(c.data, c.plot.pin)
           shown == Histogram(rows, c.plot.value)
       IN /\ DOMAIN shown \subseteq 0 .. Bins
          /\ FoldFunction(+, 0, shown) = Len(rows)
  /\ \A c \in Drawn("line") : \A time \in Named(Like(c.data, "time")) :
       LET rows == Pinned(c.data, c.plot.pin)
           shown == Line(rows, time, c.plot.value)
       IN /\ Len(shown) \in 1 .. MaxPoints
          /\ FoldLeft(LAMBDA a, b : [sum |-> a.sum + b.sum, count |-> a.count + b.count],
                      [sum |-> 0, count |-> 0], shown) = Average(rows, c.plot.value)

=============================================================================
