--------------------------- MODULE EiderCliProofs ---------------------------
(***************************************************************************)
(* Proof that eider loses no table its user was not asked about, for any    *)
(* processes, commands and files.                                          *)
(***************************************************************************)
EXTENDS EiderCli, SequenceTheorems, TLAPS

(* What a command may do to a file it saw.  It deletes a file only after    *)
(* consent; and without consent it has seen no table in its output, or it   *)
(* waits for the answer, or it has ended.                                   *)
Shaped ==
  /\ DOMAIN proc = Procs
  /\ \A p \in Procs : {"pc", "seen", "agreed"} \subseteq DOMAIN proc[p]

Consent(p) ==
  /\ proc[p].pc = "remove" => proc[p].agreed = TRUE
  /\ \/ proc[p].agreed = TRUE
     \/ proc[p].seen = {}
     \/ proc[p].pc \in {"ask_overwrite", "end"}

Inv == Shaped /\ \A p \in Procs : Consent(p)

(* The step that LostOnlyIfAgreed is about.                                *)
Kept ==
  \A p \in Procs : proc'[p] # proc[p] /\ ~proc[p].agreed =>
    proc[p].seen \cap Reachable \subseteq Reachable'

(* Move changes the state of its process, and only the fields it is given.  *)
LEMMA MoveFields ==
  ASSUME Shaped, NEW p \in Procs, NEW c, Move(p, c)
  PROVE  /\ Shaped'
         /\ \A q \in Procs \ {p} : proc'[q] = proc[q]
         /\ \A x \in {"pc", "seen", "agreed"} :
              proc'[p][x] = IF x \in DOMAIN c THEN c[x] ELSE proc[p][x]
<1>1. /\ DOMAIN proc' = Procs
      /\ proc'[p] = Updated(proc[p], c)
      /\ \A q \in Procs \ {p} : proc'[q] = proc[q]
  BY DEF Move, Shaped
<1>2. /\ DOMAIN Updated(proc[p], c) = DOMAIN proc[p]
      /\ \A x \in DOMAIN proc[p] :
           Updated(proc[p], c)[x] = IF x \in DOMAIN c THEN c[x] ELSE proc[p][x]
  BY DEF Updated
<1> QED
  BY <1>1, <1>2 DEF Shaped

(* A step of p that keeps what p has seen and was told, and does not go to  *)
(* the deletion, keeps the invariant; so does one that asks or ends.        *)
LEMMA StepKeepsInv ==
  ASSUME Inv, NEW p \in Procs, Shaped',
         \A q \in Procs \ {p} : proc'[q] = proc[q],
         Consent(p)'
  PROVE  Inv'
  BY DEF Inv, Consent

(* A process that asks, goes on or ends.                                   *)
Plain(p) ==
  \E c : /\ Move(p, c)
         /\ DOMAIN c \cap {"seen", "agreed"} = {} /\ "pc" \in DOMAIN c
         /\ c["pc"] # "remove"
         /\ proc[p].pc \in {"ask_overwrite", "end"} => c["pc"] = "end"

(* A plain step keeps the invariant, and the state of every other process.  *)
LEMMA PlainKeepsInv ==
  ASSUME Inv, NEW p \in Procs, Plain(p)
  PROVE  Inv' /\ \A q \in Procs \ {p} : proc'[q] = proc[q]
<1>1. PICK c : /\ Move(p, c)
               /\ DOMAIN c \cap {"seen", "agreed"} = {} /\ "pc" \in DOMAIN c
               /\ c["pc"] # "remove"
               /\ proc[p].pc \in {"ask_overwrite", "end"} => c["pc"] = "end"
  BY DEF Plain
<1>2. /\ Shaped' /\ \A q \in Procs \ {p} : proc'[q] = proc[q]
      /\ proc'[p].pc = c["pc"] /\ proc'[p].seen = proc[p].seen
      /\ proc'[p].agreed = proc[p].agreed
  BY <1>1, MoveFields DEF Inv
<1>3. Consent(p)'
  BY <1>1, <1>2 DEF Inv, Consent
<1> QED
  BY <1>2, <1>3, StepKeepsInv

(* Every end of a command is such a step.                                  *)
LEMMA EndIsPlain ==
  ASSUME NEW p \in Procs, NEW outcome, NEW documents, End(p, outcome, documents)
  PROVE  Plain(p)
<1> DEFINE c == [pc |-> "end", outcome |-> outcome, held |-> {},
                 printed |-> IF cmd[p].json THEN documents ELSE 0]
<1>1. Move(p, c)
  BY DEF End
<1>2. DOMAIN c = {"pc", "outcome", "held", "printed"} /\ c["pc"] = "end"
  OBVIOUS
<1> HIDE DEF c
<1> QED
  BY <1>1, <1>2 DEF Plain

(* So is going on to another step of the command, but for the deletion.     *)
LEMMA GotoIsPlain ==
  ASSUME NEW p \in Procs, NEW pc, Goto(p, pc), pc # "remove",
         proc[p].pc \notin {"ask_overwrite", "end"}
  PROVE  Plain(p)
<1> DEFINE c == [pc |-> pc]
<1>1. Move(p, c)
  BY DEF Goto
<1>2. DOMAIN c = {"pc"} /\ c["pc"] = pc
  OBVIOUS
<1> HIDE DEF c
<1> QED
  BY <1>1, <1>2 DEF Plain

(* So is going on with columns, a plot or a picture found.                 *)
LEMMA MoveIsPlain ==
  ASSUME NEW p \in Procs, NEW pc, NEW value, pc # "remove",
         proc[p].pc \notin {"ask_overwrite", "end"},
         \/ Move(p, [pc |-> pc, columns |-> value])
         \/ Move(p, [pc |-> pc, plot |-> value])
         \/ Move(p, [pc |-> pc, picture |-> value])
  PROVE  Plain(p)
<1> DEFINE c == [pc |-> pc, columns |-> value]
           d == [pc |-> pc, plot |-> value]
           e == [pc |-> pc, picture |-> value]
<1>1. /\ DOMAIN c = {"pc", "columns"} /\ c["pc"] = pc
      /\ DOMAIN d = {"pc", "plot"} /\ d["pc"] = pc
      /\ DOMAIN e = {"pc", "picture"} /\ e["pc"] = pc
  OBVIOUS
<1>2. Move(p, c) \/ Move(p, d) \/ Move(p, e)
  OBVIOUS
<1> HIDE DEF c, d, e
<1> QED
  BY <1>1, <1>2 DEF Plain

(* The steps of a process that leave every file as it is, but for those of  *)
(* the overwrite protection.                                               *)
Quiet(p) ==
  \/ ReadUri(p) \/ prompt_zarr_uri(p) \/ Report(p) \/ print_extraction_plan(p)
  \/ GetFreq(p) \/ GetAgg(p) \/ DetectColumns(p) \/ GetApi(p) \/ GetCollection(p) \/ Find(p)
  \/ Describe(p) \/ Ingest(p) \/ Upload(p) \/ UploadExits(p) \/ Choose(p) \/ Draw(p) \/ Close(p)
  \/ AnswerDataset(p) \/ AnswerProceed(p) \/ AnswerFreq(p) \/ AnswerAgg(p)
  \/ AnswerApi(p) \/ AnswerCollection(p) \/ AnswerItem(p) \/ AnswerPlot(p)
  \/ Fail(p) \/ Cancel(p) \/ Kill(p)

(* Every action in Quiet is a plain step and leaves paths and files alone.  *)
LEMMA QuietIsPlain ==
  ASSUME NEW p \in Procs, Quiet(p)
  PROVE  Plain(p) /\ UNCHANGED <<path, db>>
<1>1. CASE ReadUri(p)
  BY <1>1, EndIsPlain, GotoIsPlain DEF ReadUri, Error
<1>2. CASE prompt_zarr_uri(p)
  BY <1>2, EndIsPlain, GotoIsPlain DEF prompt_zarr_uri, UriKnown, Error
<1>3. CASE Report(p)
  BY <1>3, EndIsPlain DEF Report
<1>4. CASE print_extraction_plan(p)
  BY <1>4, GotoIsPlain DEF print_extraction_plan
<1>5. CASE GetFreq(p)
  BY <1>5, EndIsPlain, GotoIsPlain DEF GetFreq, Given, Ask, Error
<1>6. CASE GetAgg(p)
  BY <1>6, EndIsPlain, GotoIsPlain DEF GetAgg, Given, Ask, Error
<1>7. CASE DetectColumns(p)
  BY <1>7, EndIsPlain, MoveIsPlain DEF DetectColumns, Error
<1>8. CASE GetApi(p)
  BY <1>8, EndIsPlain, GotoIsPlain DEF GetApi, Error
<1>9. CASE GetCollection(p)
  BY <1>9, EndIsPlain, GotoIsPlain DEF GetCollection, Error
<1>10. CASE Find(p)
  BY <1>10, EndIsPlain, GotoIsPlain DEF Find, Error
<1>11. CASE Describe(p)
  BY <1>11, EndIsPlain DEF Describe
<1>12. CASE Ingest(p)
  BY <1>12, EndIsPlain, GotoIsPlain DEF Ingest, Error
<1>13. CASE Upload(p)
  BY <1>13, EndIsPlain, GotoIsPlain DEF Upload
<1>14. CASE UploadExits(p)
  BY <1>14, EndIsPlain DEF UploadExits
<1>15. CASE Choose(p)
  BY <1>15, EndIsPlain, GotoIsPlain, MoveIsPlain DEF Choose, Ask, Error
<1>16. CASE Draw(p)
  BY <1>16, EndIsPlain, MoveIsPlain DEF Draw, Error
<1>17. CASE Close(p)
  BY <1>17, EndIsPlain DEF Close
<1>18. CASE AnswerDataset(p)
  BY <1>18, EndIsPlain, GotoIsPlain DEF AnswerDataset, UriKnown, Error
<1>19. CASE AnswerProceed(p)
  BY <1>19, EndIsPlain, GotoIsPlain DEF AnswerProceed
<1>20. CASE AnswerFreq(p) \/ AnswerAgg(p)
  BY <1>20, GotoIsPlain DEF AnswerFreq, AnswerAgg
<1>21. CASE AnswerApi(p) \/ AnswerCollection(p) \/ AnswerItem(p)
  BY <1>21, GotoIsPlain DEF AnswerApi, AnswerCollection, AnswerItem
<1>22. CASE AnswerPlot(p)
  BY <1>22, EndIsPlain, MoveIsPlain DEF AnswerPlot
<1>23. CASE Fail(p) \/ Cancel(p) \/ Kill(p)
  BY <1>23, EndIsPlain DEF Fail, Cancel, Kill, Error
<1> QED
  BY <1>1, <1>2, <1>3, <1>4, <1>5, <1>6, <1>7, <1>8, <1>9, <1>10, <1>11, <1>12, <1>13, <1>14,
     <1>15, <1>16, <1>17, <1>18, <1>19, <1>20, <1>21, <1>22, <1>23
     DEF Quiet

-----------------------------------------------------------------------------
(* The overwrite protection.                                               *)

(* check_overwrite_protection keeps the invariant: JSON output and a missing *)
(* terminal end the command, and only --yes or no file at all skip the prompt. *)
LEMMA CheckKeepsInv ==
  ASSUME Inv, NEW p \in Procs, check_overwrite_protection(p)
  PROVE  Inv' /\ UNCHANGED <<path, db>>
<1> DEFINE seen == Tables(path[cmd[p].out])
<1>1. UNCHANGED <<path, db>> /\ proc[p].pc = "check"
  BY DEF check_overwrite_protection
<1>2. CASE Error(p)
  BY <1>1, <1>2, EndIsPlain, PlainKeepsInv DEF Error
<1>3. ASSUME NEW pc, NEW agreed \in BOOLEAN,
             Move(p, [pc |-> pc, agreed |-> agreed, seen |-> seen]),
             agreed = TRUE \/ seen = {} \/ pc = "ask_overwrite",
             pc = "remove" => agreed = TRUE
      PROVE  Inv'
  <2> DEFINE c == [pc |-> pc, agreed |-> agreed, seen |-> seen]
  <2>1. /\ DOMAIN c = {"pc", "agreed", "seen"}
        /\ c["pc"] = pc /\ c["agreed"] = agreed /\ c["seen"] = seen
    OBVIOUS
  <2>2. Move(p, c)
    BY <1>3
  <2> HIDE DEF c, seen
  <2>3. /\ Shaped' /\ \A q \in Procs \ {p} : proc'[q] = proc[q]
        /\ proc'[p].pc = pc /\ proc'[p].seen = seen /\ proc'[p].agreed = agreed
    BY <2>1, <2>2, MoveFields DEF Inv
  <2>4. Consent(p)'
    BY <2>3, <1>3 DEF Consent
  <2> QED
    BY <2>3, <2>4, StepKeepsInv
<1>4. path[cmd[p].out] = 0 => seen = {}
  BY DEF Tables
<1>5. \/ Error(p)
      \/ Move(p, [pc |-> "open", agreed |-> FALSE, seen |-> seen]) /\ seen = {}
      \/ Move(p, [pc |-> "remove", agreed |-> TRUE, seen |-> seen])
      \/ Move(p, [pc |-> "ask_overwrite", agreed |-> FALSE, seen |-> seen])
  BY <1>4 DEF check_overwrite_protection
<1> HIDE DEF seen
<1>6. Inv'
  <2>1. CASE Error(p)
    BY <2>1, <1>2
  <2>2. CASE Move(p, [pc |-> "open", agreed |-> FALSE, seen |-> seen]) /\ seen = {}
    <3>1. /\ Move(p, [pc |-> "open", agreed |-> FALSE, seen |-> seen])
          /\ FALSE \in BOOLEAN /\ seen = {} /\ "open" # "remove"
      BY <2>2
    <3> QED
      BY <3>1, <1>3
  <2>3. CASE Move(p, [pc |-> "remove", agreed |-> TRUE, seen |-> seen])
    <3>1. TRUE \in BOOLEAN
      OBVIOUS
    <3> QED
      BY <2>3, <3>1, <1>3
  <2>4. CASE Move(p, [pc |-> "ask_overwrite", agreed |-> FALSE, seen |-> seen])
    <3>1. FALSE \in BOOLEAN /\ "ask_overwrite" # "remove"
      OBVIOUS
    <3> QED
      BY <2>4, <3>1, <1>3
  <2> QED
    BY <1>5, <2>1, <2>2, <2>3, <2>4
<1> QED
  BY <1>1, <1>6

(* An answer to the prompt is consent, or ends the command.                *)
LEMMA AnswerOverwriteKeepsInv ==
  ASSUME Inv, NEW p \in Procs, AnswerOverwrite(p)
  PROVE  Inv' /\ UNCHANGED <<path, db>>
<1> DEFINE c == [pc |-> "remove", agreed |-> TRUE]
<1>1. UNCHANGED <<path, db>>
  BY DEF AnswerOverwrite
<1>2. CASE End(p, "declined", 0)
  BY <1>1, <1>2, EndIsPlain, PlainKeepsInv
<1>3. CASE Move(p, c)
  <2>1. DOMAIN c = {"pc", "agreed"} /\ c["pc"] = "remove" /\ c["agreed"] = TRUE
    OBVIOUS
  <2> HIDE DEF c
  <2>2. /\ Shaped' /\ \A q \in Procs \ {p} : proc'[q] = proc[q]
        /\ proc'[p].pc = "remove" /\ proc'[p].agreed = TRUE
    BY <2>1, <1>3, MoveFields DEF Inv
  <2>3. Consent(p)'
    BY <2>2 DEF Consent
  <2> QED
    BY <1>1, <2>2, <2>3, StepKeepsInv
<1> QED
  BY <1>2, <1>3 DEF AnswerOverwrite

-----------------------------------------------------------------------------
(* The steps that change files: each needs consent, or has seen nothing.    *)

Entitled(p) == proc[p].agreed = TRUE \/ proc[p].seen = {}

(* Opening a file keeps the invariant.                                     *)
LEMMA AttachKeepsInv ==
  ASSUME Inv, NEW p \in Procs, NEW f, NEW field, NEW pc, Attach(p, f, field, pc),
         field \notin {"pc", "seen", "agreed"}, pc # "remove",
         proc[p].pc \notin {"ask_overwrite", "end"}
  PROVE  Inv' /\ \A q \in Procs \ {p} : proc'[q] = proc[q]
<1>1. CASE Error(p)
  BY <1>1, EndIsPlain, PlainKeepsInv DEF Error
<1>2. ASSUME NEW i,
             proc' = [proc EXCEPT ![p][field] = i, ![p].pc = pc, ![p].held = @ \cup {i}]
      PROVE  Inv' /\ \A q \in Procs \ {p} : proc'[q] = proc[q]
  <2>1. /\ Shaped' /\ \A q \in Procs \ {p} : proc'[q] = proc[q]
        /\ proc'[p].pc = pc /\ proc'[p].seen = proc[p].seen /\ proc'[p].agreed = proc[p].agreed
    BY <1>2 DEF Inv, Shaped
  <2>2. Consent(p)'
    BY <2>1 DEF Inv, Consent
  <2> QED
    BY <2>1, <2>2, StepKeepsInv
<1> QED
  BY <1>1, <1>2 DEF Attach

(* A process that deletes, creates or writes a file may: its user agreed, or *)
(* it saw no table there.                                                  *)
LEMMA WriterIsEntitled ==
  ASSUME Inv, NEW p \in Procs,
         \/ RemoveOutput(p) \/ Open(p) \/ AttachInput(p) \/ Shell(p)
         \/ Extract(p) \/ Resample(p)
  PROVE  /\ Inv' /\ Entitled(p)
         /\ \A q \in Procs \ {p} : proc'[q] = proc[q]
<1>1. Consent(p)
  BY DEF Inv
<1>2. CASE RemoveOutput(p)
  <2>1. Entitled(p)
    BY <1>1, <1>2 DEF RemoveOutput, Consent, Entitled
  <2>2. Plain(p)
    BY <1>2, EndIsPlain, GotoIsPlain DEF RemoveOutput, Error
  <2> QED
    BY <2>1, <2>2, PlainKeepsInv
<1>3. CASE Open(p)
  <2>1. Entitled(p) /\ proc[p].pc = "open"
    BY <1>1, <1>3 DEF Open, Consent, Entitled
  <2>2. CASE Goto(p, "upload") \/ Error(p)
    BY <2>1, <2>2, EndIsPlain, GotoIsPlain, PlainKeepsInv DEF Error
  <2>3. CASE Attach(p, Target(p), "file", AfterOpen(cmd[p].name))
    <3>1. AfterOpen(cmd[p].name) # "remove"
      BY DEF AfterOpen
    <3> QED
      BY <2>1, <2>3, <3>1, AttachKeepsInv
  <2> QED
    BY <1>3, <2>2, <2>3 DEF Open
<1>4. CASE AttachInput(p)
  <2>1. Entitled(p)
    BY <1>1, <1>4 DEF AttachInput, Consent, Entitled
  <2> QED
    BY <1>4, <2>1, AttachKeepsInv DEF AttachInput
<1>5. CASE Shell(p)
  <2>1. Entitled(p) /\ proc[p].pc = "shell"
    BY <1>1, <1>5 DEF Shell, Consent, Entitled
  <2>2. CASE End(p, "success", 0)
    BY <2>1, <2>2, EndIsPlain, PlainKeepsInv
  <2>3. CASE Attach(p, cmd[p].input, "file", "close")
    BY <2>1, <2>3, AttachKeepsInv
  <2> QED
    BY <1>5, <2>2, <2>3 DEF Shell
<1>6. CASE Extract(p)
  <2>1. Entitled(p)
    BY <1>1, <1>6 DEF Extract, Consent, Entitled
  <2>2. Plain(p)
    BY <1>6, GotoIsPlain DEF Extract
  <2> QED
    BY <2>1, <2>2, PlainKeepsInv
<1>7. CASE Resample(p)
  <2>1. Entitled(p)
    BY <1>1, <1>7 DEF Resample, Consent, Entitled
  <2>2. Plain(p)
    BY <1>7, EndIsPlain, GotoIsPlain DEF Resample, Error
  <2> QED
    BY <2>1, <2>2, PlainKeepsInv
<1> QED
  BY <1>2, <1>3, <1>4, <1>5, <1>6, <1>7

-----------------------------------------------------------------------------
(* A step that changes no file loses no table.                              *)
LEMMA FilesKept ==
  ASSUME UNCHANGED <<path, db>>
  PROVE  Kept
<1>1. Reachable' = Reachable
  BY DEF Reachable, Tables, Paths
<1> QED
  BY <1>1 DEF Kept

(* A step of a process that may touch its file loses nothing unasked.       *)
LEMMA EntitledKeeps ==
  ASSUME NEW p \in Procs, Entitled(p), \A q \in Procs \ {p} : proc'[q] = proc[q]
  PROVE  Kept
  BY DEF Entitled, Kept

(* No command starts at the deletion, or has seen anything.                *)
LEMMA InitEstablishesInv ==
  ASSUME Init
  PROVE  Inv
<1>1. ASSUME NEW name
      PROVE  First(name) # "remove"
  BY DEF First
<1> QED
  BY <1>1 DEF Init, Inv, Shaped, Consent

(* Every step keeps the invariant and loses nothing unasked.                *)
LEMMA NextKeepsInv ==
  ASSUME Inv, [Next]_vars
  PROVE  Inv' /\ Kept
<1>1. CASE UNCHANGED vars
  <2>1. Inv'
    BY <1>1 DEF vars, Inv, Shaped, Consent
  <2> QED
    BY <1>1, <2>1, FilesKept DEF vars
<1>2. ASSUME NEW p \in Procs, Run(p) \/ Answer(p) \/ Fail(p) \/ Cancel(p) \/ Kill(p)
      PROVE  Inv' /\ Kept
  <2>1. CASE Quiet(p)
    BY <2>1, QuietIsPlain, PlainKeepsInv, FilesKept
  <2>2. CASE check_overwrite_protection(p)
    BY <2>2, CheckKeepsInv, FilesKept
  <2>3. CASE AnswerOverwrite(p)
    BY <2>3, AnswerOverwriteKeepsInv, FilesKept
  <2>4. CASE \/ RemoveOutput(p) \/ Open(p) \/ AttachInput(p) \/ Shell(p)
             \/ Extract(p) \/ Resample(p)
    BY <2>4, WriterIsEntitled, EntitledKeeps
  <2> QED
    BY <1>2, <2>1, <2>2, <2>3, <2>4 DEF Run, Answer, Quiet
<1> QED
  BY <1>1, <1>2 DEF Next, Ended

(* A table that was in the output when a command looked for it is lost by   *)
(* that command only after its user agreed.                                *)
THEOREM NothingLostUnasked ==
  Spec => LostOnlyIfAgreed
<1>1. Init => Inv
  BY InitEstablishesInv
<1>2. Inv /\ [Next]_vars => Inv' /\ Kept
  BY NextKeepsInv
<1>3. Kept => [Kept]_vars
  OBVIOUS
<1>4. Spec => [][Kept]_vars
  BY <1>1, <1>2, PTL DEF Spec
<1> QED
  BY <1>4, PTL DEF LostOnlyIfAgreed, Kept
-----------------------------------------------------------------------------
(* The commands, the files they have open, and what they leave.             *)

Commands == JsonDocument \cup {"export", "plot", "shell"}

(* The commands that have a step.                                          *)
Of(pc) ==
  CASE pc \in {"stdin", "plan", "ask_proceed"} -> {"extract"}
    [] pc \in {"resolve", "ask_dataset"} -> {"extract", "info", "search"}
    [] pc \in {"freq", "ask_freq", "agg", "ask_agg", "detect", "attach"} -> {"resample"}
    [] pc \in {"check", "ask_overwrite", "remove", "query"} -> Writers
    [] pc = "open" -> Writers \cup {"export", "plot"}
    [] pc = "report" -> Writers \cup {"ingest"}
    [] pc = "describe" -> {"info"}
    [] pc \in {"api", "ask_api", "collection", "ask_collection", "find", "ask_item"} -> {"search"}
    [] pc = "ingest" -> {"ingest"}
    [] pc = "upload" -> {"ingest", "export"}
    [] pc \in {"choose", "ask_plot", "draw"} -> {"plot"}
    [] pc = "shell" -> {"shell"}
    [] pc = "close" -> {"plot", "shell"}
    [] pc = "end" -> Commands
    [] OTHER -> {}

Checking == {"check", "ask_overwrite", "remove", "open"}
Opened == {"plan", "ask_proceed", "attach", "query", "report"}

(* A command is at a step of its own.  With JSON output it waits at no       *)
(* prompt but the wizard of plot, and a search does not resolve what it      *)
(* found; extract looks only at an output that was named; and resample goes  *)
(* on only with columns.                                                   *)
OnItsWay(p) ==
  /\ cmd[p].name \in Of(proc[p].pc)
  /\ cmd[p].json => proc[p].pc \notin Prompts \ {"ask_plot"}
  /\ cmd[p].json /\ cmd[p].name = "search" => proc[p].pc # "resolve"
  /\ cmd[p].name = "extract" /\ proc[p].pc \in Checking => cmd[p].out # ""
  /\ cmd[p].name = "resample" /\ proc[p].pc \in Checking \cup Opened => proc[p].columns # {}

(* Only a command that checks its output and is past that is agreed to.      *)
Agreed(p) ==
  /\ proc[p].agreed \in BOOLEAN
  /\ proc[p].pc = "remove" => proc[p].agreed = TRUE
  /\ proc[p].agreed = TRUE =>
       /\ cmd[p].name \in Writers
       /\ proc[p].pc \in {"remove", "open", "end"} \cup Opened

(* How a command ended, and how many documents it printed.                  *)
Ending(p) ==
  /\ proc[p].pc = "end" <=> proc[p].outcome # "none"
  /\ proc[p].printed \in {0, 1}
  /\ cmd[p].json =>
       proc[p].outcome # "declined" /\ proc[p].printed = Documents(p, proc[p].outcome)

Proper(p) == OnItsWay(p) /\ Agreed(p) /\ Ending(p)

IsSequence(d) == d \in Seq({d[i] : i \in DOMAIN d})

(* The files.  No two paths lead to one.                                    *)
Stocked ==
  /\ IsSequence(db)
  /\ \A i \in DOMAIN db : DOMAIN db[i] = {"extracted", "resampled"}
  /\ path \in [Paths -> {0} \cup DOMAIN db]
  /\ \A f, g \in Paths : path[f] = path[g] /\ path[f] # 0 => f = g

(* The files that processes have open.  A file that one opened as its own     *)
(* stays that of its path, whoever else opens it.                           *)
Locked ==
  /\ \A p \in Procs :
       /\ proc[p].held \subseteq DOMAIN db
       /\ proc[p].file \in {0} \cup DOMAIN db
       /\ cmd[p].name \in Writers /\ proc[p].pc \in Opened => proc[p].file \in proc[p].held
       /\ \A f \in Paths : path[f] = proc[p].file /\ path[f] # 0 => f = Target(p)
  /\ \A p \in Procs : \A q \in Procs \ {p} :
       /\ proc[p].held \cap proc[q].held = {}
       /\ proc[p].file = proc[q].file /\ proc[p].file # 0 => Target(p) = Target(q)

(* The file of a command that writes, from its opening on.                  *)
Others(p) == {q \in Procs \ {p} : cmd[q].name \in Writers /\ cmd[q].out = cmd[p].out}
Holds(p) == proc[p].pc \in Opened \/ proc[p].outcome = "success"

InPlace(p) ==
  /\ proc[p].file # 0 /\ cmd[p].out \in Paths
  /\ path[cmd[p].out] = proc[p].file \/ \E q \in Others(p) : proc[q].agreed = TRUE

Wrote(p) == \E t \in Tables(proc[p].file) : t.by = p
Replaced(p) == \E q \in Others(p) : \E t \in db[proc[p].file].extracted : t.by = q

Results ==
  \A p \in Procs :
    cmd[p].name \in Writers =>
      /\ Holds(p) => InPlace(p)
      /\ proc[p].pc = "report" => Wrote(p)
      /\ proc[p].outcome = "success" => Wrote(p) \/ Replaced(p)

Fields == {"pc", "held", "file", "source", "seen", "agreed", "columns", "plot", "picture",
           "printed", "outcome"}
AllFields == DOMAIN proc = Procs /\ \A p \in Procs : DOMAIN proc[p] = Fields

(* The command lines are complete.                                         *)
Told ==
  /\ "" \notin Paths
  /\ \A p \in Procs :
       /\ cmd[p].name \in Commands
       /\ cmd[p].name = "extract" => cmd[p].out \in Paths \cup {""}
       /\ cmd[p].name = "resample" => cmd[p].out \in Paths
       /\ cmd[p].name \in {"resample", "ingest", "plot", "shell"} => cmd[p].input \in Paths
       /\ cmd[p].name = "export" => cmd[p].input \in Paths \cup {""}

FileInv ==
  /\ AllFields /\ Told
  /\ \A p \in Procs : Proper(p)
  /\ Stocked /\ Locked /\ Results

(* Steps that leave the files alone.                                        *)

Alone(p) == AllFields' /\ \A q \in Procs \ {p} : proc'[q] = proc[q]

(* Move changes the state of its process, and only the fields it is given.  *)
LEMMA MoveChanges ==
  ASSUME AllFields, NEW p \in Procs, NEW c, Move(p, c)
  PROVE  /\ Alone(p)
         /\ \A x \in Fields : proc'[p][x] = IF x \in DOMAIN c THEN c[x] ELSE proc[p][x]
<1>1. /\ DOMAIN proc' = Procs
      /\ proc'[p] = Updated(proc[p], c)
      /\ \A q \in Procs \ {p} : proc'[q] = proc[q]
  BY DEF Move, AllFields
<1>2. /\ DOMAIN Updated(proc[p], c) = DOMAIN proc[p]
      /\ \A x \in DOMAIN proc[p] :
           Updated(proc[p], c)[x] = IF x \in DOMAIN c THEN c[x] ELSE proc[p][x]
  BY DEF Updated
<1> QED
  BY <1>1, <1>2 DEF AllFields, Alone

(* A process goes on to another step, with columns, and agreed to or not;    *)
(* or it ends.                                                             *)
GoesOn(p, pc, columns, agreed) ==
  /\ Alone(p)
  /\ proc'[p].pc = pc /\ proc'[p].columns = columns /\ proc'[p].agreed = agreed
  /\ proc'[p].held = proc[p].held /\ proc'[p].file = proc[p].file
  /\ proc'[p].outcome = proc[p].outcome /\ proc'[p].printed = proc[p].printed

Ends(p, outcome, documents) ==
  /\ Alone(p)
  /\ proc'[p].pc = "end" /\ proc'[p].outcome = outcome /\ proc'[p].held = {}
  /\ proc'[p].printed = IF cmd[p].json THEN documents ELSE 0
  /\ proc'[p].columns = proc[p].columns /\ proc'[p].agreed = proc[p].agreed
  /\ proc'[p].file = proc[p].file

(* Goto and the other moves are the former.                                *)
LEMMA GotoGoesOn ==
  ASSUME AllFields, NEW p \in Procs, NEW pc, Goto(p, pc)
  PROVE  GoesOn(p, pc, proc[p].columns, proc[p].agreed)
<1> DEFINE c == [pc |-> pc]
<1>1. Move(p, c)
  BY DEF Goto
<1>2. DOMAIN c = {"pc"} /\ c["pc"] = pc
  OBVIOUS
<1> HIDE DEF c
<1> QED
  BY <1>1, <1>2, MoveChanges DEF GoesOn, Fields

(* A move that takes along columns, a plot or a picture goes on.             *)
LEMMA MoveGoesOn ==
  ASSUME AllFields, NEW p \in Procs, NEW pc, NEW value
  PROVE  /\ Move(p, [pc |-> pc, columns |-> value]) => GoesOn(p, pc, value, proc[p].agreed)
         /\ Move(p, [pc |-> pc, plot |-> value])
              => GoesOn(p, pc, proc[p].columns, proc[p].agreed)
         /\ Move(p, [pc |-> pc, picture |-> value])
              => GoesOn(p, pc, proc[p].columns, proc[p].agreed)
<1> DEFINE c == [pc |-> pc, columns |-> value]
           d == [pc |-> pc, plot |-> value]
           e == [pc |-> pc, picture |-> value]
<1>1. /\ DOMAIN c = {"pc", "columns"} /\ c["pc"] = pc /\ c["columns"] = value
      /\ DOMAIN d = {"pc", "plot"} /\ d["pc"] = pc
      /\ DOMAIN e = {"pc", "picture"} /\ e["pc"] = pc
  OBVIOUS
<1> HIDE DEF c, d, e
<1>2. Move(p, c) => GoesOn(p, pc, value, proc[p].agreed)
  BY <1>1, MoveChanges DEF GoesOn, Fields
<1>3. Move(p, d) => GoesOn(p, pc, proc[p].columns, proc[p].agreed)
  BY <1>1, MoveChanges DEF GoesOn, Fields
<1>4. Move(p, e) => GoesOn(p, pc, proc[p].columns, proc[p].agreed)
  BY <1>1, MoveChanges DEF GoesOn, Fields
<1> QED
  BY <1>2, <1>3, <1>4 DEF c, d, e

(* The overwrite protection decides whether the user agreed.                *)
LEMMA CheckGoesOn ==
  ASSUME AllFields, NEW p \in Procs, NEW pc, NEW agreed, NEW seen
  PROVE  /\ Move(p, [pc |-> pc, agreed |-> agreed, seen |-> seen])
              => GoesOn(p, pc, proc[p].columns, agreed)
         /\ Move(p, [pc |-> pc, agreed |-> agreed]) => GoesOn(p, pc, proc[p].columns, agreed)
<1> DEFINE c == [pc |-> pc, agreed |-> agreed, seen |-> seen]
           d == [pc |-> pc, agreed |-> agreed]
<1>1. /\ DOMAIN c = {"pc", "agreed", "seen"} /\ c["pc"] = pc /\ c["agreed"] = agreed
      /\ DOMAIN d = {"pc", "agreed"} /\ d["pc"] = pc /\ d["agreed"] = agreed
  OBVIOUS
<1> HIDE DEF c, d
<1>2. Move(p, c) => GoesOn(p, pc, proc[p].columns, agreed)
  BY <1>1, MoveChanges DEF GoesOn, Fields
<1>3. Move(p, d) => GoesOn(p, pc, proc[p].columns, agreed)
  BY <1>1, MoveChanges DEF GoesOn, Fields
<1> QED
  BY <1>2, <1>3 DEF c, d

(* End is the latter.                                                      *)
LEMMA EndEnds ==
  ASSUME AllFields, NEW p \in Procs, NEW outcome, NEW documents, End(p, outcome, documents)
  PROVE  Ends(p, outcome, documents)
<1> DEFINE n == IF cmd[p].json THEN documents ELSE 0
           c == [pc |-> "end", outcome |-> outcome, held |-> {}, printed |-> n]
<1>1. Move(p, c)
  BY DEF End
<1>2. /\ DOMAIN c = {"pc", "outcome", "held", "printed"}
      /\ c["pc"] = "end" /\ c["outcome"] = outcome /\ c["held"] = {} /\ c["printed"] = n
  OBVIOUS
<1> HIDE DEF c
<1> QED
  BY <1>1, <1>2, MoveChanges DEF Ends, Fields

(* When a process may go on, and when it may end.                          *)
Ready(p, pc, columns, agreed) ==
  /\ proc[p].pc # "end" /\ pc # "end"
  /\ cmd[p].name \in Of(pc)
  /\ cmd[p].json => pc \notin Prompts \ {"ask_plot"}
  /\ cmd[p].json /\ cmd[p].name = "search" => pc # "resolve"
  /\ cmd[p].name = "extract" /\ pc \in Checking => cmd[p].out # ""
  /\ cmd[p].name = "resample" /\ pc \in Checking \cup Opened => columns # {}
  /\ agreed \in BOOLEAN /\ (proc[p].agreed = TRUE => agreed = TRUE)
  /\ pc = "remove" => agreed = TRUE
  /\ agreed = TRUE => cmd[p].name \in Writers /\ pc \in {"remove", "open"} \cup Opened

MayEnd(p, outcome, documents) ==
  /\ proc[p].pc # "end" /\ outcome # "none" /\ documents \in {0, 1}
  /\ cmd[p].json => outcome # "declined" /\ documents = Documents(p, outcome)
  /\ cmd[p].name \in Writers /\ outcome = "success" => proc[p].pc = "report"

(* Then it stays a proper process.                                         *)
LEMMA ReadyIsProper ==
  ASSUME FileInv, NEW p \in Procs, NEW pc, NEW columns, NEW agreed, UNCHANGED cmd,
         Ready(p, pc, columns, agreed), proc'[p].pc = pc, proc'[p].columns = columns,
         proc'[p].agreed = agreed, proc'[p].outcome = proc[p].outcome,
         proc'[p].printed = proc[p].printed
  PROVE  Proper(p)'
<1>1. Proper(p)
  BY DEF FileInv
<1>2. OnItsWay(p)'
  BY DEF Ready, OnItsWay
<1>3. Agreed(p)'
  BY DEF Ready, Agreed
<1>4. Ending(p)'
  BY <1>1 DEF Ready, Proper, Ending, Documents
<1> QED
  BY <1>2, <1>3, <1>4 DEF Proper

(* And so does one that ends.                                              *)
LEMMA EndIsProper ==
  ASSUME FileInv, NEW p \in Procs, NEW outcome, NEW documents, UNCHANGED cmd,
         MayEnd(p, outcome, documents), Ends(p, outcome, documents)
  PROVE  Proper(p)'
<1>1. Proper(p) /\ cmd[p].name \in Commands
  BY DEF FileInv, Told
<1>2. OnItsWay(p)'
  BY <1>1 DEF Ends, OnItsWay, Of, Prompts, Checking, Opened
<1>3. Agreed(p)'
  BY <1>1 DEF Ends, Proper, Agreed
<1>4. Ending(p)'
  BY <1>1 DEF MayEnd, Ends, Ending, Documents
<1> QED
  BY <1>2, <1>3, <1>4 DEF Proper

(* A step of p without an effect on the files keeps the invariant, if p      *)
(* stays proper, opens nothing and claims no result it did not have.        *)
LEMMA NoEffect ==
  ASSUME FileInv, NEW p \in Procs, UNCHANGED <<cmd, path, db>>, Alone(p), Proper(p)',
         proc'[p].file = proc[p].file, proc'[p].held \subseteq proc[p].held,
         proc[p].agreed = TRUE => proc'[p].agreed = TRUE,
         cmd[p].name \in Writers /\ proc'[p].pc \in Opened =>
           /\ proc[p].pc \in Opened /\ proc'[p].held = proc[p].held
           /\ proc'[p].pc = "report" => proc[p].pc = "report",
         cmd[p].name \in Writers /\ proc'[p].outcome = "success" =>
           proc[p].pc = "report" \/ proc[p].outcome = "success"
  PROVE  FileInv'
<1>1. AllFields' /\ \A q \in Procs \ {p} : proc'[q] = proc[q]
  BY DEF Alone
<1>2. Told'
  BY DEF FileInv, Told, Paths
<1>3. \A q \in Procs : Proper(q)'
  <2>1. ASSUME NEW q \in Procs, q # p
        PROVE  Proper(q)'
    <3>1. Proper(q) /\ proc'[q] = proc[q] /\ cmd' = cmd
      BY <1>1, <2>1 DEF FileInv
    <3>2. OnItsWay(q)'
      BY <3>1 DEF Proper, OnItsWay
    <3>3. Agreed(q)'
      BY <3>1 DEF Proper, Agreed
    <3>4. Ending(q)'
      BY <3>1 DEF Proper, Ending, Documents
    <3> QED
      BY <3>2, <3>3, <3>4 DEF Proper
  <2> QED
    BY <2>1
<1>4. Stocked'
  BY DEF FileInv, Stocked, Paths
<1>5. \A q \in Procs : /\ proc'[q].file = proc[q].file /\ proc'[q].held \subseteq proc[q].held
                       /\ proc[q].agreed = TRUE => proc'[q].agreed = TRUE
  BY <1>1
<1>6. \A q \in Procs : cmd[q].name \in Writers =>
        /\ proc'[q].pc \in Opened => proc[q].pc \in Opened /\ proc'[q].held = proc[q].held
        /\ proc'[q].pc = "report" => proc[q].pc = "report"
        /\ proc'[q].outcome = "success" => proc[q].pc = "report" \/ proc[q].outcome = "success"
  BY <1>1 DEF Opened
<1>7. Locked'
  <2>1. Locked
    BY DEF FileInv
  <2>2. \A q \in Procs : Target(q)' = Target(q)
    BY DEF Target
  <2> QED
    BY <2>1, <2>2, <1>5, <1>6 DEF Locked, Paths
<1>8. Results'
  <2>1. Results
    BY DEF FileInv
  <2>2. \A q \in Procs : /\ Others(q)' = Others(q) /\ Tables(proc[q].file)' = Tables(proc[q].file)'
                         /\ (Wrote(q) => Wrote(q)') /\ (Replaced(q) => Replaced(q)')
                         /\ (InPlace(q) => InPlace(q)')
    <3>1. \A q \in Procs : Others(q)' = Others(q)
      BY DEF Others
    <3>2. \A i : Tables(i)' = Tables(i)
      BY DEF Tables
    <3>3. \A q \in Procs : Wrote(q) => Wrote(q)'
      BY <1>5, <3>2 DEF Wrote, Tables
    <3>4. \A q \in Procs : Replaced(q) => Replaced(q)'
      BY <1>5, <3>1 DEF Replaced
    <3>5. \A q \in Procs : InPlace(q) => InPlace(q)'
      BY <1>5, <3>1 DEF InPlace, Paths, Others
    <3> QED
      BY <3>1, <3>3, <3>4, <3>5
  <2> QED
    BY <2>1, <2>2, <1>6 DEF Results, Holds, Opened
<1> QED
  BY <1>1, <1>2, <1>3, <1>4, <1>7, <1>8 DEF FileInv

(* Going on to a step before the opening, or between the opening and the     *)
(* report, keeps the invariant.                                            *)
LEMMA GoingOnKeeps ==
  ASSUME FileInv, NEW p \in Procs, NEW pc, NEW columns, NEW agreed,
         UNCHANGED <<cmd, path, db>>,
         GoesOn(p, pc, columns, agreed), Ready(p, pc, columns, agreed),
         cmd[p].name \in Writers /\ pc \in Opened => proc[p].pc \in Opened /\ pc # "report"
  PROVE  FileInv'
<1>1. Proper(p)'
  BY ReadyIsProper DEF GoesOn
<1> QED
  BY <1>1, NoEffect DEF GoesOn, Ready

(* Ending keeps it.                                                        *)
LEMMA EndingKeeps ==
  ASSUME FileInv, NEW p \in Procs, NEW outcome, NEW documents, UNCHANGED <<cmd, path, db>>,
         End(p, outcome, documents), MayEnd(p, outcome, documents)
  PROVE  FileInv'
<1>1. Ends(p, outcome, documents)
  BY EndEnds DEF FileInv
<1>2. Proper(p)'
  BY <1>1, EndIsProper
<1>3. "end" \notin Opened
  BY DEF Opened
<1> QED
  BY <1>1, <1>2, <1>3, NoEffect DEF Ends, MayEnd

(* An error can be met at every step.                                       *)
LEMMA ErrorKeeps ==
  ASSUME FileInv, NEW p \in Procs, UNCHANGED <<cmd, path, db>>, Error(p), proc[p].pc # "end"
  PROVE  FileInv'
<1>1. MayEnd(p, "error", 1)
  BY DEF MayEnd, Documents
<1> QED
  BY <1>1, EndingKeeps DEF Error

-----------------------------------------------------------------------------
(* Where each step leads.                                                   *)

(* Going on from one step of a command to another.                         *)
May(p, pc) ==
  /\ Ready(p, pc, proc[p].columns, proc[p].agreed)
  /\ cmd[p].name \in Writers /\ pc \in Opened => proc[p].pc \in Opened /\ pc # "report"

(* extract, before it looks at its output, and info.                       *)
LEMMA RoutesOfUri ==
  ASSUME NEW p \in Procs, Proper(p)
  PROVE  /\ proc[p].pc = "stdin" => May(p, "resolve")
         /\ proc[p].pc = "resolve" /\ mode(p) = "Human" => May(p, "ask_dataset")
         /\ proc[p].pc \in {"resolve", "ask_dataset"} =>
              /\ cmd[p].name \in {"extract", "info", "search"}
              /\ cmd[p].name = "info" => May(p, "describe")
              /\ cmd[p].name = "search" => ~cmd[p].json
              /\ cmd[p].name = "extract" /\ cmd[p].out # "" => May(p, "check")
<1> USE DEF Proper, OnItsWay, Agreed, May, Ready, Of, Checking, Opened, Prompts, Writers
<1>1. proc[p].pc = "stdin" => May(p, "resolve")
  OBVIOUS
<1>2. proc[p].pc = "resolve" /\ mode(p) = "Human" => May(p, "ask_dataset")
  BY DEF mode
<1>3. ASSUME proc[p].pc \in {"resolve", "ask_dataset"}
      PROVE  /\ cmd[p].name \in {"extract", "info", "search"}
             /\ cmd[p].name = "info" => May(p, "describe")
             /\ cmd[p].name = "search" => ~cmd[p].json
             /\ cmd[p].name = "extract" /\ cmd[p].out # "" => May(p, "check")
  BY <1>3
<1> QED
  BY <1>1, <1>2, <1>3

(* extract after the opening; resample before it looks at its output.        *)
LEMMA RoutesOfWriters ==
  ASSUME NEW p \in Procs, Proper(p)
  PROVE  /\ proc[p].pc = "plan" => May(p, "query") /\ (mode(p) = "Human" => May(p, "ask_proceed"))
         /\ proc[p].pc = "ask_proceed" => May(p, "query") /\ ~cmd[p].json
         /\ proc[p].pc \in {"freq", "ask_freq"} => May(p, "agg")
         /\ proc[p].pc = "freq" /\ ~cmd[p].json => May(p, "ask_freq")
         /\ proc[p].pc \in {"agg", "ask_agg"} => May(p, "detect")
         /\ proc[p].pc = "agg" /\ ~cmd[p].json => May(p, "ask_agg")
         /\ proc[p].pc = "detect" => \A columns :
              columns # {} => Ready(p, "check", columns, proc[p].agreed)
<1> USE DEF Proper, OnItsWay, Agreed, May, Ready, Of, Checking, Opened, Prompts, Writers
<1>1. proc[p].pc = "plan" => May(p, "query") /\ (mode(p) = "Human" => May(p, "ask_proceed"))
  BY DEF mode
<1>2. proc[p].pc = "ask_proceed" => May(p, "query") /\ ~cmd[p].json
  OBVIOUS
<1>3. proc[p].pc \in {"freq", "ask_freq"} => May(p, "agg")
  OBVIOUS
<1>4. proc[p].pc = "freq" /\ ~cmd[p].json => May(p, "ask_freq")
  OBVIOUS
<1>5. proc[p].pc \in {"agg", "ask_agg"} => May(p, "detect")
  OBVIOUS
<1>6. proc[p].pc = "agg" /\ ~cmd[p].json => May(p, "ask_agg")
  OBVIOUS
<1>7. proc[p].pc = "detect" => \A columns :
        columns # {} => Ready(p, "check", columns, proc[p].agreed)
  OBVIOUS
<1> QED
  BY <1>1, <1>2, <1>3, <1>4, <1>5, <1>6, <1>7

(* search, ingest, export and plot.                                        *)
LEMMA RoutesOfOthers ==
  ASSUME NEW p \in Procs, Proper(p)
  PROVE  /\ proc[p].pc \in {"api", "ask_api"} => May(p, "collection")
         /\ proc[p].pc = "api" /\ mode(p) = "Human" => May(p, "ask_api")
         /\ proc[p].pc \in {"collection", "ask_collection"} => May(p, "find")
         /\ proc[p].pc = "collection" /\ mode(p) = "Human" => May(p, "ask_collection")
         /\ proc[p].pc = "find" /\ mode(p) = "Human" => May(p, "resolve") /\ May(p, "ask_item")
         /\ proc[p].pc = "ask_item" => May(p, "resolve")
         /\ proc[p].pc = "ingest" => May(p, "upload")
         /\ proc[p].pc = "upload" /\ cmd[p].name = "ingest" => May(p, "report")
         /\ proc[p].pc = "choose" => May(p, "ask_plot") /\ May(p, "draw")
         /\ proc[p].pc = "ask_plot" => May(p, "draw")
         /\ proc[p].pc = "draw" => May(p, "close")
         /\ proc[p].pc = "open" /\ cmd[p].name = "export" => May(p, "upload")
<1> USE DEF Proper, OnItsWay, Agreed, May, Ready, Of, Checking, Opened, Prompts, Writers
<1>1. proc[p].pc \in {"api", "ask_api"} => May(p, "collection")
  OBVIOUS
<1>2. proc[p].pc = "api" /\ mode(p) = "Human" => May(p, "ask_api")
  BY DEF mode
<1>3. proc[p].pc \in {"collection", "ask_collection"} => May(p, "find")
  OBVIOUS
<1>4. proc[p].pc = "collection" /\ mode(p) = "Human" => May(p, "ask_collection")
  BY DEF mode
<1>5. proc[p].pc = "find" /\ mode(p) = "Human" => May(p, "resolve") /\ May(p, "ask_item")
  BY DEF mode
<1>6. proc[p].pc = "ask_item" => May(p, "resolve")
  OBVIOUS
<1>7. proc[p].pc = "ingest" => May(p, "upload")
  OBVIOUS
<1>8. proc[p].pc = "upload" /\ cmd[p].name = "ingest" => May(p, "report")
  OBVIOUS
<1>9. proc[p].pc = "choose" => May(p, "ask_plot") /\ May(p, "draw")
  OBVIOUS
<1>10. proc[p].pc = "ask_plot" => May(p, "draw")
  OBVIOUS
<1>11. proc[p].pc = "draw" => May(p, "close")
  OBVIOUS
<1>12. proc[p].pc = "open" /\ cmd[p].name = "export" => May(p, "upload")
  OBVIOUS
<1> QED
  BY <1>1, <1>2, <1>3, <1>4, <1>5, <1>6, <1>7, <1>8, <1>9, <1>10, <1>11, <1>12

(* A step that may be taken keeps the invariant.                            *)
LEMMA GotoKeeps ==
  ASSUME FileInv, NEW p \in Procs, NEW pc, UNCHANGED <<cmd, path, db>>, May(p, pc), Goto(p, pc)
  PROVE  FileInv'
<1>1. GoesOn(p, pc, proc[p].columns, proc[p].agreed)
  BY GotoGoesOn DEF FileInv
<1> QED
  BY <1>1, GoingOnKeeps DEF May

(* So does one that takes a plot or a picture along.                        *)
LEMMA MoveKeeps ==
  ASSUME FileInv, NEW p \in Procs, NEW pc, NEW value, UNCHANGED <<cmd, path, db>>, May(p, pc),
         \/ Move(p, [pc |-> pc, plot |-> value])
         \/ Move(p, [pc |-> pc, picture |-> value])
  PROVE  FileInv'
<1>1. AllFields
  BY DEF FileInv
<1>2. GoesOn(p, pc, proc[p].columns, proc[p].agreed)
  BY <1>1, MoveGoesOn
<1> QED
  BY <1>2, GoingOnKeeps DEF May

-----------------------------------------------------------------------------
(* The actions that leave the files alone.                                  *)

(* A command that has its answer says so in one document; a process may be   *)
(* killed; a search ends where it would ask a script.                       *)
LEMMA EndsProperly ==
  ASSUME NEW p \in Procs, Proper(p), proc[p].pc # "end"
  PROVE  /\ MayEnd(p, "killed", 0) /\ MayEnd(p, "exit", 0)
         /\ ~cmd[p].json => MayEnd(p, "declined", 0)
         /\ proc[p].pc = "report" => MayEnd(p, "success", 1)
         /\ cmd[p].name \in {"search", "info"} => MayEnd(p, "success", 1)
         /\ cmd[p].name = "search" /\ ~cmd[p].json => MayEnd(p, "success", 0)
         /\ cmd[p].name \in {"export", "plot", "shell"} => MayEnd(p, "success", 0)
<1> USE DEF Proper, OnItsWay, MayEnd, Documents, JsonDocument, Writers
<1>1. MayEnd(p, "killed", 0) /\ MayEnd(p, "exit", 0) /\ (~cmd[p].json => MayEnd(p, "declined", 0))
  OBVIOUS
<1>2. proc[p].pc = "report" => MayEnd(p, "success", 1)
  BY DEF Of
<1>3. cmd[p].name \in {"search", "info"} => MayEnd(p, "success", 1)
  OBVIOUS
<1>4. cmd[p].name = "search" /\ ~cmd[p].json => MayEnd(p, "success", 0)
  OBVIOUS
<1>5. cmd[p].name \in {"export", "plot", "shell"} => MayEnd(p, "success", 0)
  OBVIOUS
<1> QED
  BY <1>1, <1>2, <1>3, <1>4, <1>5

(* The last step of resolving the URI keeps the invariant.                  *)
LEMMA UriKnownKeeps ==
  ASSUME FileInv, NEW p \in Procs, UNCHANGED <<cmd, path, db>>,
         proc[p].pc \in {"resolve", "ask_dataset"}, UriKnown(p)
  PROVE  FileInv'
<1>1. Proper(p)
  BY DEF FileInv
<1>2. CASE cmd[p].name = "info"
  BY <1>1, <1>2, RoutesOfUri, GotoKeeps DEF UriKnown
<1>3. CASE cmd[p].name = "search"
  <2>1. End(p, "success", 0) /\ MayEnd(p, "success", 0)
    BY <1>1, <1>3, RoutesOfUri, EndsProperly DEF UriKnown
  <2> QED
    BY <2>1, EndingKeeps
<1>4. CASE cmd[p].name = "extract"
  <2>1. IF cmd[p].out = "" THEN Error(p) ELSE Goto(p, "check")
    BY <1>4 DEF UriKnown
  <2> QED
    BY <1>1, <1>4, <2>1, RoutesOfUri, GotoKeeps, ErrorKeeps
<1> QED
  BY <1>1, <1>2, <1>3, <1>4, RoutesOfUri

(* Every action in Quiet keeps the invariant.                               *)
LEMMA QuietKeeps ==
  ASSUME FileInv, NEW p \in Procs, Quiet(p)
  PROVE  FileInv'
<1>a. Proper(p)
  BY DEF FileInv
<1>1. CASE ReadUri(p)
  BY <1>a, <1>1, RoutesOfUri, GotoKeeps, ErrorKeeps DEF ReadUri
<1>2. CASE prompt_zarr_uri(p)
  BY <1>a, <1>2, RoutesOfUri, GotoKeeps, ErrorKeeps, UriKnownKeeps DEF prompt_zarr_uri
<1>3. CASE Report(p)
  BY <1>a, <1>3, EndsProperly, EndingKeeps DEF Report
<1>4. CASE print_extraction_plan(p)
  BY <1>a, <1>4, RoutesOfWriters, GotoKeeps DEF print_extraction_plan
<1>5. CASE GetFreq(p)
  BY <1>a, <1>5, RoutesOfWriters, GotoKeeps, ErrorKeeps DEF GetFreq, Given, Ask
<1>6. CASE GetAgg(p)
  BY <1>a, <1>6, RoutesOfWriters, GotoKeeps, ErrorKeeps DEF GetAgg, Given, Ask
<1>7. CASE DetectColumns(p)
  <2> DEFINE i == path[cmd[p].input]
             found == IF i = 0 THEN {} ELSE UNION {detect_columns(t.data) : t \in db[i].extracted}
  <2>1. /\ proc[p].pc = "detect" /\ UNCHANGED <<cmd, path, db>>
        /\ Error(p) \/ (found # {} /\ Move(p, [pc |-> "check", columns |-> found]))
    BY <1>7 DEF DetectColumns
  <2> HIDE DEF found
  <2>2. CASE Error(p)
    BY <2>1, <2>2, ErrorKeeps
  <2>3. CASE found # {} /\ Move(p, [pc |-> "check", columns |-> found])
    <3>1. GoesOn(p, "check", found, proc[p].agreed)
      BY <2>3, MoveGoesOn DEF FileInv
    <3>2. Ready(p, "check", found, proc[p].agreed) /\ "check" \notin Opened
      BY <1>a, <2>1, <2>3, RoutesOfWriters DEF Opened
    <3> QED
      BY <2>1, <3>1, <3>2, GoingOnKeeps
  <2> QED
    BY <2>1, <2>2, <2>3
<1>8. CASE GetApi(p)
  BY <1>a, <1>8, RoutesOfOthers, GotoKeeps, ErrorKeeps DEF GetApi
<1>9. CASE GetCollection(p)
  <2>1. cmd[p].name = "search" /\ proc[p].pc # "end" /\ UNCHANGED <<cmd, path, db>>
    BY <1>a, <1>9 DEF GetCollection, Proper, OnItsWay, Of
  <2> QED
    BY <1>a, <1>9, <2>1, RoutesOfOthers, EndsProperly, GotoKeeps, EndingKeeps, ErrorKeeps
    DEF GetCollection
<1>10. CASE Find(p)
  <2>1. cmd[p].name = "search" /\ proc[p].pc # "end" /\ UNCHANGED <<cmd, path, db>>
    BY <1>a, <1>10 DEF Find, Proper, OnItsWay, Of
  <2>2. \/ Error(p) \/ End(p, "success", 1)
        \/ mode(p) = "Human" /\ (Goto(p, "resolve") \/ Goto(p, "ask_item"))
    BY <1>10 DEF Find
  <2> QED
    BY <1>a, <1>10, <2>1, <2>2, RoutesOfOthers, EndsProperly, GotoKeeps, EndingKeeps, ErrorKeeps
    DEF Find
<1>11. CASE Describe(p)
  <2>1. cmd[p].name = "info" /\ proc[p].pc # "end"
    BY <1>a, <1>11 DEF Describe, Proper, OnItsWay, Of
  <2> QED
    BY <1>a, <1>11, <2>1, EndsProperly, EndingKeeps DEF Describe
<1>12. CASE Ingest(p)
  BY <1>a, <1>12, RoutesOfOthers, GotoKeeps, ErrorKeeps DEF Ingest
<1>13. CASE Upload(p)
  <2>1. cmd[p].name \in {"ingest", "export"} /\ proc[p].pc = "upload"
    BY <1>a, <1>13 DEF Upload, Proper, OnItsWay, Of
  <2> QED
    BY <1>a, <1>13, <2>1, RoutesOfOthers, EndsProperly, GotoKeeps, EndingKeeps DEF Upload
<1>14. CASE UploadExits(p) \/ Kill(p)
  BY <1>a, <1>14, EndsProperly, EndingKeeps DEF UploadExits, Kill
<1>15. CASE Choose(p)
  BY <1>a, <1>15, RoutesOfOthers, GotoKeeps, MoveKeeps, ErrorKeeps DEF Choose, Ask
<1>16. CASE Draw(p)
  BY <1>a, <1>16, RoutesOfOthers, MoveKeeps, ErrorKeeps DEF Draw
<1>17. CASE Close(p)
  <2>1. cmd[p].name \in {"plot", "shell"} /\ proc[p].pc = "close"
    BY <1>a, <1>17 DEF Close, Proper, OnItsWay, Of
  <2> QED
    BY <1>a, <1>17, <2>1, EndsProperly, EndingKeeps DEF Close
<1>18. CASE AnswerDataset(p)
  BY <1>18, UriKnownKeeps DEF AnswerDataset
<1>19. CASE AnswerProceed(p)
  BY <1>a, <1>19, RoutesOfWriters, EndsProperly, GotoKeeps, EndingKeeps DEF AnswerProceed
<1>20. CASE AnswerFreq(p) \/ AnswerAgg(p)
  BY <1>a, <1>20, RoutesOfWriters, GotoKeeps DEF AnswerFreq, AnswerAgg
<1>21. CASE AnswerApi(p) \/ AnswerCollection(p) \/ AnswerItem(p)
  BY <1>a, <1>21, RoutesOfOthers, GotoKeeps DEF AnswerApi, AnswerCollection, AnswerItem
<1>22. CASE AnswerPlot(p)
  <2>1. cmd[p].name = "plot" /\ proc[p].pc = "ask_plot"
    BY <1>a, <1>22 DEF AnswerPlot, Proper, OnItsWay, Of
  <2> QED
    BY <1>a, <1>22, <2>1, RoutesOfOthers, EndsProperly, MoveKeeps, EndingKeeps DEF AnswerPlot
<1>23. CASE Fail(p) \/ Cancel(p)
  BY <1>23, ErrorKeeps DEF Fail, Cancel, External, Prompts
<1> QED
  BY <1>1, <1>2, <1>3, <1>4, <1>5, <1>6, <1>7, <1>8, <1>9, <1>10, <1>11, <1>12, <1>13, <1>14,
     <1>15, <1>16, <1>17, <1>18, <1>19, <1>20, <1>21, <1>22, <1>23
     DEF Quiet

-----------------------------------------------------------------------------
(* The overwrite protection and the files.                                  *)

(* The check and its answer keep the invariant: only consent leads to the    *)
(* deletion.                                                               *)
LEMMA ProtectionKeeps ==
  ASSUME FileInv, NEW p \in Procs, check_overwrite_protection(p) \/ AnswerOverwrite(p)
  PROVE  FileInv'
<1> DEFINE columns == proc[p].columns
           seen == Tables(path[cmd[p].out])
<1>1. UNCHANGED <<cmd, path, db>> /\ AllFields /\ Proper(p)
  BY DEF FileInv, check_overwrite_protection, AnswerOverwrite
<1>2. ASSUME NEW agreed \in BOOLEAN, NEW pc \in {"open", "remove", "ask_overwrite"},
             GoesOn(p, pc, columns, agreed), Ready(p, pc, columns, agreed)
      PROVE  FileInv'
  <2>1. pc \notin Opened
    BY DEF Opened
  <2> QED
    BY <1>1, <1>2, <2>1, GoingOnKeeps
<1>3. CASE check_overwrite_protection(p)
  <2>1. /\ proc[p].pc = "check"
        /\ \/ Error(p)
           \/ Move(p, [pc |-> "open", agreed |-> FALSE, seen |-> seen])
           \/ Move(p, [pc |-> "remove", agreed |-> TRUE, seen |-> seen])
           \/ ~cmd[p].json /\ Move(p, [pc |-> "ask_overwrite", agreed |-> FALSE, seen |-> seen])
    BY <1>3 DEF check_overwrite_protection
  <2> HIDE DEF seen
  <2>2. \/ Error(p)
        \/ GoesOn(p, "open", columns, FALSE)
        \/ GoesOn(p, "remove", columns, TRUE)
        \/ ~cmd[p].json /\ GoesOn(p, "ask_overwrite", columns, FALSE)
    BY <1>1, <2>1, CheckGoesOn
  <2>3. /\ Ready(p, "open", columns, FALSE)
        /\ Ready(p, "remove", columns, TRUE)
        /\ ~cmd[p].json => Ready(p, "ask_overwrite", columns, FALSE)
    BY <1>1, <2>1
    DEF Proper, OnItsWay, Agreed, Ready, Of, Checking, Opened, Prompts, Writers
  <2> QED
    BY <1>1, <1>2, <2>1, <2>2, <2>3, ErrorKeeps
<1>4. CASE AnswerOverwrite(p)
  <2>1. /\ proc[p].pc = "ask_overwrite"
        /\ \/ Move(p, [pc |-> "remove", agreed |-> TRUE])
           \/ End(p, "declined", 0)
    BY <1>4 DEF AnswerOverwrite
  <2>2. ~cmd[p].json /\ Ready(p, "remove", columns, TRUE)
    BY <1>1, <2>1
    DEF Proper, OnItsWay, Agreed, Ready, Of, Checking, Opened, Prompts, Writers
  <2>3. CASE End(p, "declined", 0)
    BY <1>1, <2>1, <2>2, <2>3, EndsProperly, EndingKeeps
  <2>4. CASE Move(p, [pc |-> "remove", agreed |-> TRUE])
    BY <1>1, <1>2, <2>2, <2>4, CheckGoesOn
  <2> QED
    BY <2>1, <2>3, <2>4
<1> QED
  BY <1>3, <1>4

(* A step of p leaves what the others are, have open and know.              *)
LEMMA OthersStay ==
  ASSUME FileInv, NEW p \in Procs, Alone(p), UNCHANGED cmd, DOMAIN path' = DOMAIN path
  PROVE  /\ AllFields' /\ Told'
         /\ \A q \in Procs : Target(q)' = Target(q) /\ Others(q)' = Others(q)
         /\ \A q \in Procs \ {p} : Proper(q)' /\ Holds(q)' = Holds(q) /\ proc'[q] = proc[q]
<1>1. AllFields' /\ \A q \in Procs \ {p} : proc'[q] = proc[q]
  BY DEF Alone
<1>2. Told'
  BY DEF FileInv, Told, Paths
<1>3. \A q \in Procs : Target(q)' = Target(q) /\ Others(q)' = Others(q)
  BY DEF Target, Others
<1>4. ASSUME NEW q \in Procs \ {p}
      PROVE  Proper(q)' /\ Holds(q)' = Holds(q)
  <2>1. Proper(q) /\ proc'[q] = proc[q]
    BY <1>1 DEF FileInv
  <2> QED
    BY <2>1 DEF Proper, OnItsWay, Agreed, Ending, Documents, Holds
<1> QED
  BY <1>1, <1>2, <1>3, <1>4

(* The deletion keeps the invariant: p was agreed to, so every other command *)
(* that writes to the path it deletes has another that was agreed to.       *)
LEMMA RemoveKeeps ==
  ASSUME FileInv, NEW p \in Procs, RemoveOutput(p)
  PROVE  FileInv'
<1> DEFINE f == cmd[p].out
<1>1. /\ proc[p].pc = "remove" /\ UNCHANGED <<cmd, db>> /\ Proper(p) /\ AllFields
      /\ Stocked /\ Locked /\ Results
  BY DEF FileInv, RemoveOutput
<1>2. CASE Error(p) /\ UNCHANGED path
  BY <1>1, <1>2, ErrorKeeps
<1>3. CASE Goto(p, "open") /\ path' = [path EXCEPT ![f] = 0]
  <2>1. GoesOn(p, "open", proc[p].columns, proc[p].agreed)
    BY <1>1, <1>3, GotoGoesOn
  <2>2. Ready(p, "open", proc[p].columns, proc[p].agreed) /\ cmd[p].name \in Writers
    BY <1>1 DEF Proper, OnItsWay, Agreed, Ready, Of, Checking, Opened, Prompts, Writers
  <2>3. proc[p].agreed = TRUE /\ proc[p].outcome = "none"
    BY <1>1 DEF Proper, Agreed, Ending
  <2>4. Proper(p)'
    BY <1>1, <2>1, <2>2, ReadyIsProper DEF GoesOn
  <2>5. DOMAIN path' = DOMAIN path /\ Alone(p)
    BY <1>3, <2>1 DEF GoesOn
  <2>6. /\ AllFields' /\ Told'
        /\ \A q \in Procs : Target(q)' = Target(q) /\ Others(q)' = Others(q)
        /\ \A q \in Procs \ {p} : Proper(q)' /\ Holds(q)' = Holds(q) /\ proc'[q] = proc[q]
    BY <1>1, <2>5, OthersStay
  <2>7. \A g \in Paths : path'[g] = path[g] \/ path'[g] = 0
    BY <1>1, <1>3 DEF Stocked
  <2>8. Stocked'
    BY <1>1, <1>3, <2>7 DEF Stocked, Paths
  <2>9. \A q \in Procs : /\ proc'[q].file = proc[q].file /\ proc'[q].held = proc[q].held
                         /\ proc'[q].pc \in Opened => proc[q].pc \in Opened
    BY <2>1, <2>6 DEF GoesOn, Opened
  <2>10. Locked'
    BY <1>1, <2>5, <2>6, <2>7, <2>9 DEF Locked, Paths
  <2>11. ASSUME NEW q \in Procs, cmd[q].name \in Writers
         PROVE  /\ Holds(q)' => InPlace(q)'
                /\ proc'[q].pc = "report" => Wrote(q)'
                /\ proc'[q].outcome = "success" => (Wrote(q) \/ Replaced(q))'
    <3>1. CASE q = p
      BY <2>1, <2>3, <3>1 DEF GoesOn, Holds, Opened
    <3>2. CASE q # p
      <4>1. /\ Holds(q) => InPlace(q)
            /\ proc[q].pc = "report" => Wrote(q)
            /\ proc[q].outcome = "success" => Wrote(q) \/ Replaced(q)
        BY <1>1, <2>11 DEF Results
      <4>2. proc'[q] = proc[q] /\ Holds(q)' = Holds(q) /\ Others(q)' = Others(q)
        BY <2>6, <3>2
      <4>3. (Wrote(q) => Wrote(q)') /\ (Replaced(q) => Replaced(q)')
        BY <1>1, <4>2 DEF Wrote, Replaced, Tables
      <4>4. ASSUME InPlace(q)
            PROVE  InPlace(q)'
        <5>1. proc'[q].file # 0 /\ cmd'[q].out \in Paths'
          BY <1>1, <2>5, <4>2, <4>4 DEF InPlace, Paths
        <5>2. CASE cmd[q].out = f
          <6>1. p \in Others(q)' /\ proc'[p].agreed = TRUE
            BY <2>1, <2>2, <2>3, <3>2, <4>2, <5>2 DEF Others, GoesOn
          <6> QED
            BY <5>1, <6>1 DEF InPlace
        <5>3. CASE cmd[q].out # f
          <6>1. path'[cmd'[q].out] = path[cmd[q].out]
            BY <1>1, <1>3, <4>4, <5>3 DEF Stocked, InPlace
          <6>2. ASSUME NEW r \in Others(q), proc[r].agreed = TRUE
                PROVE  r \in Others(q)' /\ proc'[r].agreed = TRUE
            BY <2>1, <2>6, <6>2 DEF GoesOn, Others
          <6> QED
            BY <4>2, <4>4, <5>1, <6>1, <6>2 DEF InPlace
        <5> QED
          BY <5>2, <5>3
      <4> QED
        BY <4>1, <4>2, <4>3, <4>4
    <3> QED
      BY <3>1, <3>2
  <2>12. Results'
    BY <1>1, <2>11 DEF Results
  <2> QED
    BY <2>4, <2>6, <2>8, <2>10, <2>12 DEF FileInv
<1> QED
  BY <1>2, <1>3 DEF RemoveOutput

-----------------------------------------------------------------------------
(* Opening and writing.                                                     *)

Grown(d, file) ==
  /\ IsSequence(d)
  /\ DOMAIN d = DOMAIN db \cup {Len(db) + 1} /\ d[Len(db) + 1] = file
  /\ \A i \in DOMAIN db : d[i] = db[i]

(* A file more, or one file replaced, and the files are still a sequence.    *)
LEMMA FilesAreSequence ==
  ASSUME Stocked
  PROVE  /\ DOMAIN db = 1 .. Len(db) /\ Len(db) \in Nat
         /\ \A file : Grown(Append(db, file), file)
         /\ \A i \in DOMAIN db : \A file : IsSequence([db EXCEPT ![i] = file])
<1> DEFINE S == {db[i] : i \in DOMAIN db}
<1>1. db \in Seq(S)
  BY DEF Stocked, IsSequence
<1> HIDE DEF S
<1>2. DOMAIN db = 1 .. Len(db) /\ Len(db) \in Nat /\ db \in [1 .. Len(db) -> S]
  BY <1>1
<1>3. ASSUME NEW file
      PROVE  Grown(Append(db, file), file)
  <2> DEFINE d == Append(db, file)
             T == S \cup {file}
             U == {d[i] : i \in DOMAIN d}
  <2>1. db \in Seq(T)
    BY <1>2
  <2>2. /\ d \in Seq(T) /\ Len(d) = Len(db) + 1
        /\ \A i \in 1 .. Len(db) : d[i] = db[i]
        /\ d[Len(db) + 1] = file
    BY <2>1, AppendProperties
  <2> HIDE DEF d
  <2>3. DOMAIN d = 1 .. Len(db) + 1 /\ d \in [1 .. Len(db) + 1 -> T]
    BY <1>2, <2>2
  <2>4. DOMAIN d = DOMAIN db \cup {Len(db) + 1}
    BY <1>2, <2>3
  <2>5. d \in [1 .. Len(db) + 1 -> U]
    BY <2>3
  <2> HIDE DEF U
  <2>6. d \in Seq(U)
    BY <1>2, <2>5
  <2> QED
    BY <1>2, <2>2, <2>4, <2>6 DEF d, U, Grown, IsSequence
<1>4. ASSUME NEW i \in DOMAIN db, NEW file
      PROVE  IsSequence([db EXCEPT ![i] = file])
  <2> DEFINE d == [db EXCEPT ![i] = file]
             U == {d[k] : k \in DOMAIN d}
  <2>1. d \in [1 .. Len(db) -> U]
    BY <1>2
  <2> HIDE DEF U, d
  <2>2. d \in Seq(U)
    BY <1>2, <2>1
  <2> QED
    BY <2>2 DEF U, d, IsSequence
<1> QED
  BY <1>2, <1>3, <1>4

(* The engine opens file i at path f: it was there, or it is new.            *)
Opening(f, i) ==
  /\ f \in Paths /\ i # 0
  /\ i \in DOMAIN db => path[f] = i
  /\ path[f] # 0 => path[f] = i
  /\ DOMAIN path' = DOMAIN path
  /\ \A g \in Paths : path'[g] = IF g = f THEN i ELSE path[g]
  /\ DOMAIN db' = DOMAIN db \cup {i}
  /\ \A k \in DOMAIN db : db'[k] = db[k]

(* What Attach does to the files.                                          *)
LEMMA AttachStocks ==
  ASSUME Stocked, NEW f \in Paths, NEW i,
         i = IF path[f] = 0 THEN Len(db) + 1 ELSE path[f],
         path' = [path EXCEPT ![f] = i],
         db' = IF path[f] = 0 THEN Append(db, [extracted |-> {}, resampled |-> {}]) ELSE db
  PROVE  Stocked' /\ Opening(f, i)
<1> DEFINE file == [extracted |-> {}, resampled |-> {}]
<1>1. DOMAIN db = 1 .. Len(db) /\ Len(db) \in Nat
  BY FilesAreSequence
<1>2. DOMAIN file = {"extracted", "resampled"}
  OBVIOUS
<1>3. path \in [Paths -> {0} \cup DOMAIN db] /\ Paths' = Paths /\ DOMAIN path' = DOMAIN path
      /\ \A g \in Paths : path'[g] = IF g = f THEN i ELSE path[g]
  BY DEF Stocked, Paths
<1> HIDE DEF file
<1>4. CASE path[f] = 0
  <2>1. i = Len(db) + 1 /\ i \notin DOMAIN db /\ i # 0
    BY <1>1, <1>4
  <2>2. db' = Append(db, file)
    BY <1>4 DEF file
  <2>3. /\ IsSequence(db')
        /\ DOMAIN db' = DOMAIN db \cup {i} /\ db'[i] = file
        /\ \A k \in DOMAIN db : db'[k] = db[k]
    BY <2>1, <2>2, FilesAreSequence DEF Grown
  <2>4. \A k \in DOMAIN db' : DOMAIN db'[k] = {"extracted", "resampled"}
    BY <1>2, <2>3 DEF Stocked
  <2>5. path' \in [Paths' -> {0} \cup DOMAIN db']
    BY <1>3, <2>3
  <2>6. \A g, h \in Paths' : path'[g] = path'[h] /\ path'[g] # 0 => g = h
    BY <1>3, <2>1 DEF Stocked
  <2> QED
    BY <1>3, <1>4, <2>1, <2>3, <2>4, <2>5, <2>6 DEF Stocked, Opening
<1>5. CASE path[f] # 0
  <2>1. i = path[f] /\ i \in DOMAIN db /\ db' = db
    BY <1>3, <1>5
  <2>2. \A g \in Paths : path'[g] = path[g]
    BY <1>3, <2>1
  <2>3. path' = path
    <3>1. path' = [path EXCEPT ![f] = path[f]] /\ path \in [Paths -> {0} \cup DOMAIN db]
      BY <1>3, <2>1
    <3> QED
      BY <3>1
  <2> QED
    BY <1>3, <1>5, <2>1, <2>2, <2>3 DEF Stocked, Opening
<1> QED
  BY <1>4, <1>5

(* Opening keeps what every command has written in its file.                *)
LEMMA OpeningKeepsResults ==
  ASSUME FileInv, NEW p \in Procs, NEW f, NEW i, Alone(p), UNCHANGED cmd, Opening(f, i),
         proc'[p].agreed = proc[p].agreed, NEW q \in Procs, proc'[q].file = proc[q].file
  PROVE  /\ InPlace(q) => InPlace(q)'
         /\ proc[q].file # 0 => (Wrote(q) => Wrote(q)') /\ (Replaced(q) => Replaced(q)')
<1>1. /\ Others(q)' = Others(q) /\ Stocked /\ Locked
      /\ \A r \in Procs : proc[r].agreed = TRUE => proc'[r].agreed = TRUE
  BY OthersStay DEF Opening, FileInv, Alone
<1>2. proc[q].file \in {0} \cup DOMAIN db
  BY <1>1 DEF Locked
<1>3. ASSUME InPlace(q)
      PROVE  InPlace(q)'
  <2>1. cmd'[q].out \in Paths' /\ proc'[q].file # 0
    BY <1>3 DEF InPlace, Paths, Opening
  <2>2. path[cmd[q].out] = proc[q].file => path'[cmd'[q].out] = proc'[q].file
    BY <1>3 DEF InPlace, Opening
  <2>3. \A r \in Others(q) : proc[r].agreed = TRUE => proc'[r].agreed = TRUE
    BY <1>1 DEF Others
  <2> QED
    BY <1>1, <1>3, <2>1, <2>2, <2>3 DEF InPlace
<1>4. ASSUME proc[q].file # 0
      PROVE  (Wrote(q) => Wrote(q)') /\ (Replaced(q) => Replaced(q)')
  <2>1. db'[proc'[q].file] = db[proc[q].file]
    BY <1>2, <1>4 DEF Opening
  <2> QED
    BY <1>1, <1>4, <2>1 DEF Wrote, Replaced, Tables
<1> QED
  BY <1>3, <1>4

(* The state of a process that opened file i.                              *)
Opens(p, i, file, pc) ==
  /\ Alone(p)
  /\ proc'[p].pc = pc /\ proc'[p].held = proc[p].held \cup {i} /\ proc'[p].file = file
  /\ proc'[p].columns = proc[p].columns /\ proc'[p].agreed = proc[p].agreed
  /\ proc'[p].outcome = proc[p].outcome /\ proc'[p].printed = proc[p].printed

(* Opening a file that no other process has open keeps the invariant, whether *)
(* it is the process's own, at its target, or the input of resample.         *)
LEMMA OpeningKeeps ==
  ASSUME FileInv, NEW p \in Procs, NEW f, NEW i, NEW file, NEW pc, UNCHANGED cmd,
         Stocked', Opening(f, i), Free(p, i), Opens(p, i, file, pc),
         Ready(p, pc, proc[p].columns, proc[p].agreed), pc # "report",
         \/ /\ file = i /\ f = Target(p) /\ proc[p].pc \notin Opened
         \/ file = proc[p].file /\ (cmd[p].name \in Writers => proc[p].pc \in Opened)
  PROVE  FileInv'
<1>1. Proper(p) /\ Stocked /\ Locked /\ Results /\ Alone(p)
  BY DEF FileInv, Opens
<1>2. /\ AllFields' /\ Told'
      /\ \A q \in Procs : Target(q)' = Target(q) /\ Others(q)' = Others(q)
      /\ \A q \in Procs \ {p} : Proper(q)' /\ Holds(q)' = Holds(q) /\ proc'[q] = proc[q]
  BY <1>1, OthersStay DEF Opening
<1>3. Proper(p)'
  BY ReadyIsProper DEF Opens
<1>4. /\ \A q \in Procs : proc[q].held \subseteq DOMAIN db /\ proc[q].file \in {0} \cup DOMAIN db
      /\ \A q \in Procs : \A g \in Paths : path[g] = proc[q].file /\ path[g] # 0 => g = Target(q)
      /\ f \in Paths /\ i # 0 /\ Paths' = Paths
      /\ path \in [Paths -> {0} \cup DOMAIN db]
      /\ \A g \in Paths \ {f} : path'[g] = path[g] /\ path[g] # i
  <2>1. /\ \A q \in Procs : proc[q].held \subseteq DOMAIN db /\ proc[q].file \in {0} \cup DOMAIN db
        /\ \A q \in Procs : \A g \in Paths : path[g] = proc[q].file /\ path[g] # 0 => g = Target(q)
    BY <1>1 DEF Locked
  <2>2. f \in Paths /\ i # 0 /\ Paths' = Paths /\ path \in [Paths -> {0} \cup DOMAIN db]
    BY <1>1 DEF Opening, Paths, Stocked
  <2>3. \A g \in Paths \ {f} : path'[g] = path[g] /\ path[g] # i
    BY <1>1, <2>2 DEF Opening, Stocked
  <2> QED
    BY <2>1, <2>2, <2>3
<1>5. \A q \in Procs : proc[q].file = i => Target(q) = f
  <2>1. ASSUME NEW q \in Procs, proc[q].file = i
        PROVE  Target(q) = f
    <3>1. i \in DOMAIN db
      BY <1>4, <2>1
    <3>2. path[f] = i
      BY <3>1 DEF Opening
    <3> QED
      BY <1>4, <2>1, <3>2
  <2> QED
    BY <2>1
<1>6. Locked'
  <2>1. ASSUME NEW q \in Procs
        PROVE  /\ proc'[q].held \subseteq DOMAIN db'
               /\ proc'[q].file \in {0} \cup DOMAIN db'
               /\ (cmd'[q].name \in Writers /\ proc'[q].pc \in Opened => proc'[q].file \in proc'[q].held)
               /\ \A g \in Paths' : path'[g] = proc'[q].file /\ path'[g] # 0 => g = Target(q)'
    <3>1. CASE q # p
      <4>1. proc'[q] = proc[q] /\ Target(q)' = Target(q)
        BY <1>2, <3>1
      <4>2. proc[q].file = i => Target(q) = f
        BY <1>5
      <4>3. path'[f] = i
        BY <1>4 DEF Opening
      <4>4. \A g \in Paths' : path'[g] = proc'[q].file /\ path'[g] # 0 => g = Target(q)'
        BY <1>4, <4>1, <4>2, <4>3
      <4>5. cmd'[q].name \in Writers /\ proc'[q].pc \in Opened => proc'[q].file \in proc'[q].held
        BY <1>1, <4>1 DEF Locked
      <4> QED
        BY <1>4, <4>1, <4>4, <4>5 DEF Opening
    <3>2. CASE q = p
      <4>1. proc'[p].held = proc[p].held \cup {i} /\ proc'[p].file = file /\ proc'[p].pc = pc
        BY DEF Opens
      <4>2. Target(p)' = Target(p) /\ path'[f] = i /\ DOMAIN db' = DOMAIN db \cup {i}
        BY <1>2, <1>4 DEF Opening
      <4>3. CASE file = i /\ f = Target(p)
        BY <1>4, <3>2, <4>1, <4>2, <4>3
      <4>4. CASE file = proc[p].file /\ (cmd[p].name \in Writers => proc[p].pc \in Opened)
        <5>1. cmd[p].name \in Writers => proc[p].file \in proc[p].held
          BY <1>1, <4>4 DEF Locked
        <5>2. proc[p].file = i => Target(p) = f
          BY <1>5
        <5>3. \A g \in Paths' : path'[g] = file /\ path'[g] # 0 => g = Target(p)
          BY <1>4, <4>2, <4>4, <5>2
        <5> QED
          BY <1>4, <3>2, <4>1, <4>2, <4>4, <5>1, <5>3
      <4> QED
        BY <4>3, <4>4
    <3> QED
      BY <3>1, <3>2
  <2>2. ASSUME NEW q \in Procs, NEW r \in Procs \ {q}
        PROVE  /\ proc'[q].held \cap proc'[r].held = {}
               /\ proc'[q].file = proc'[r].file /\ proc'[q].file # 0 => Target(q)' = Target(r)'
    <3>1. /\ proc[q].held \cap proc[r].held = {}
          /\ proc[q].file = proc[r].file /\ proc[q].file # 0 => Target(q) = Target(r)
      BY <1>1 DEF Locked
    <3>2. \A s \in Procs \ {p} : proc'[s] = proc[s] /\ i \notin proc[s].held
      BY <1>2 DEF Free
    <3>3. \A s \in Procs : Target(s)' = Target(s) /\ (proc[s].file = i => Target(s) = f)
      BY <1>2, <1>5
    <3>4. proc'[p].held = proc[p].held \cup {i} /\ proc'[p].file = file
      BY DEF Opens
    <3>5. proc'[q].held \cap proc'[r].held = {}
      <4>1. \A s \in Procs : proc'[s].held = IF s = p THEN proc[p].held \cup {i} ELSE proc[s].held
        BY <3>2, <3>4
      <4> QED
        BY <3>1, <3>2, <4>1
    <3>6. proc'[q].file = proc'[r].file /\ proc'[q].file # 0 => Target(q)' = Target(r)'
      <4>1. \A s \in Procs : proc'[s].file = IF s = p THEN file ELSE proc[s].file
        BY <3>2, <3>4
      <4> QED
        BY <3>1, <3>3, <4>1
    <3> QED
      BY <3>5, <3>6
  <2> QED
    BY <2>1, <2>2 DEF Locked
<1>7. ASSUME NEW q \in Procs, cmd[q].name \in Writers
      PROVE  /\ Holds(q)' => InPlace(q)'
             /\ proc'[q].pc = "report" => Wrote(q)'
             /\ proc'[q].outcome = "success" => (Wrote(q) \/ Replaced(q))'
  <2>1. /\ Holds(q) => InPlace(q)
        /\ proc[q].pc = "report" => Wrote(q)
        /\ proc[q].outcome = "success" => Wrote(q) \/ Replaced(q)
    BY <1>1, <1>7 DEF Results
  <2>2. proc'[p].agreed = proc[p].agreed
    BY DEF Opens
  <2>3. proc[p].outcome = "none" /\ proc'[p].outcome = "none" /\ proc'[p].pc # "report"
    BY <1>1 DEF Proper, Ending, Documents, Ready, Opens
  <2>4. CASE q # p
    <3>1. proc'[q] = proc[q] /\ Holds(q)' = Holds(q)
      BY <1>2, <2>4
    <3>2. Holds(q) => proc[q].file # 0
      BY <2>1 DEF InPlace
    <3>3. (proc[q].pc = "report" => Holds(q)) /\ (proc[q].outcome = "success" => Holds(q))
      BY DEF Holds, Opened
    <3> QED
      BY <1>1, <2>1, <2>2, <3>1, <3>2, <3>3, OpeningKeepsResults
  <2>5. CASE q = p /\ file = i /\ f = Target(p)
    <3>1. path'[cmd'[p].out] = i /\ proc'[p].file = i /\ cmd'[p].out \in Paths'
      BY <1>4, <1>7, <2>5 DEF Target, Opens, Opening
    <3>2. InPlace(p)'
      BY <1>4, <3>1 DEF InPlace
    <3> QED
      BY <2>3, <2>5, <3>2
  <2>6. CASE q = p /\ file = proc[p].file /\ (cmd[p].name \in Writers => proc[p].pc \in Opened)
    <3>1. InPlace(p) /\ proc'[p].file = proc[p].file
      BY <1>7, <2>1, <2>6 DEF Holds, Opens
    <3>2. InPlace(p)'
      BY <1>1, <2>2, <3>1, OpeningKeepsResults
    <3> QED
      BY <2>3, <2>6, <3>2
  <2> QED
    BY <2>4, <2>5, <2>6
<1>8. Results'
  BY <1>7 DEF Results
<1> QED
  BY <1>2, <1>3, <1>6, <1>8 DEF FileInv

(* Attach fails without an effect, or opens the file at a path.              *)
LEMMA AttachOpens ==
  ASSUME FileInv, NEW p \in Procs, NEW f \in Paths, NEW field \in {"file", "source"}, NEW pc,
         UNCHANGED cmd, Attach(p, f, field, pc)
  PROVE  \/ Error(p) /\ UNCHANGED <<path, db>>
         \/ \E i : /\ Stocked' /\ Opening(f, i) /\ Free(p, i)
                   /\ Opens(p, i, IF field = "file" THEN i ELSE proc[p].file, pc)
<1> DEFINE i == IF path[f] = 0 THEN Len(db) + 1 ELSE path[f]
<1>1. CASE ~Free(p, i) \/ i \in proc[p].held
  BY <1>1 DEF Attach
<1>2. CASE Free(p, i) /\ i \notin proc[p].held
  <2>1. /\ path' = [path EXCEPT ![f] = i]
        /\ db' = IF path[f] = 0 THEN Append(db, [extracted |-> {}, resampled |-> {}]) ELSE db
        /\ proc' = [proc EXCEPT ![p][field] = i, ![p].pc = pc, ![p].held = @ \cup {i}]
    BY <1>2 DEF Attach
  <2>2. Stocked /\ AllFields
    BY DEF FileInv
  <2>4. PICK j : j = i
    OBVIOUS
  <2>5. Stocked' /\ Opening(f, j)
    BY <2>1, <2>2, <2>4, AttachStocks
  <2>6. proc' = [proc EXCEPT ![p][field] = j, ![p].pc = pc, ![p].held = @ \cup {j}]
    BY <2>1, <2>4
  <2>7. Free(p, j)
    BY <1>2, <2>4
  <2> HIDE DEF i
  <2>8. Opens(p, j, IF field = "file" THEN j ELSE proc[p].file, pc)
    <3>1. /\ DOMAIN proc' = Procs /\ \A q \in Procs \ {p} : proc'[q] = proc[q]
          /\ proc'[p] = [[[proc[p] EXCEPT ![field] = j] EXCEPT !.pc = pc]
                           EXCEPT !.held = proc[p].held \cup {j}]
      BY <2>2, <2>6 DEF AllFields, Fields
    <3>2. DOMAIN proc'[p] = Fields /\ proc'[p].pc = pc /\ proc'[p].held = proc[p].held \cup {j}
      BY <2>2, <3>1 DEF AllFields, Fields
    <3>3. \A x \in Fields \ {field, "pc", "held"} : proc'[p][x] = proc[p][x]
      BY <2>2, <3>1 DEF AllFields
    <3>4. proc'[p].file = IF field = "file" THEN j ELSE proc[p].file
      BY <2>2, <3>1 DEF AllFields, Fields
    <3>5. AllFields'
      BY <2>2, <3>1, <3>2 DEF AllFields
    <3> QED
      BY <3>1, <3>2, <3>3, <3>4, <3>5 DEF Opens, Alone, Fields
  <2> QED
    BY <2>5, <2>7, <2>8
<1> QED
  BY <1>1, <1>2

(* Opening the target keeps the invariant; without one, export goes on with  *)
(* a database in memory.                                                   *)
LEMMA OpenKeeps ==
  ASSUME FileInv, NEW p \in Procs, Open(p)
  PROVE  FileInv'
<1> DEFINE f == Target(p)
           pc == AfterOpen(cmd[p].name)
<1>1. proc[p].pc = "open" /\ UNCHANGED cmd /\ Proper(p) /\ Told
  BY DEF Open, FileInv
<1>2. cmd[p].name \in {"extract", "resample", "export", "plot"}
  BY <1>1 DEF Proper, OnItsWay, Of, Writers
<1>3. /\ f # "" => f \in Paths
      /\ f = "" => cmd[p].name = "export"
  BY <1>1, <1>2 DEF Told, Target, Writers, Proper, OnItsWay, Checking
<1>4. CASE f = ""
  <2>1. Goto(p, "upload") /\ UNCHANGED <<cmd, path, db>> /\ May(p, "upload")
    BY <1>1, <1>3, <1>4, RoutesOfOthers DEF Open
  <2> QED
    BY <2>1, GotoKeeps
<1>5. CASE f # ""
  <2>1. \/ Error(p) /\ UNCHANGED <<path, db>>
        \/ Attach(p, f, "file", pc)
    BY <1>5 DEF Open
  <2>2. Ready(p, pc, proc[p].columns, proc[p].agreed) /\ pc # "report"
    BY <1>1, <1>2, SMTT(10), ZenonT(60)
    DEF AfterOpen, Proper, OnItsWay, Agreed, Ready, Of, Checking, Opened, Prompts, Writers
  <2>3. proc[p].pc \notin Opened
    BY <1>1 DEF Opened
  <2> HIDE DEF f, pc
  <2>4. CASE Error(p) /\ UNCHANGED <<path, db>>
    BY <1>1, <2>4, ErrorKeeps
  <2>5. CASE Attach(p, f, "file", pc)
    <3>1. \/ Error(p) /\ UNCHANGED <<path, db>>
          \/ \E i : Stocked' /\ Opening(f, i) /\ Free(p, i) /\ Opens(p, i, i, pc)
      BY <1>1, <1>3, <1>5, <2>5, AttachOpens
    <3>2. CASE \E i : Stocked' /\ Opening(f, i) /\ Free(p, i) /\ Opens(p, i, i, pc)
      <4>1. PICK i : Stocked' /\ Opening(f, i) /\ Free(p, i) /\ Opens(p, i, i, pc)
        BY <3>2
      <4>2. f = Target(p)
        BY DEF f
      <4> QED
        BY <1>1, <2>2, <2>3, <4>1, <4>2, OpeningKeeps
    <3> QED
      BY <2>4, <3>1, <3>2
  <2> QED
    BY <2>1, <2>4, <2>5
<1> QED
  BY <1>4, <1>5

(* So does opening the input of resample beside its output.                 *)
LEMMA AttachInputKeeps ==
  ASSUME FileInv, NEW p \in Procs, AttachInput(p)
  PROVE  FileInv'
<1> DEFINE f == cmd[p].input
<1>1. proc[p].pc = "attach" /\ UNCHANGED cmd /\ Proper(p) /\ Told /\ Attach(p, f, "source", "query")
  BY DEF AttachInput, FileInv
<1>2. cmd[p].name = "resample" /\ f \in Paths
  BY <1>1 DEF Proper, OnItsWay, Of, Told
<1>3. Ready(p, "query", proc[p].columns, proc[p].agreed) /\ proc[p].pc \in Opened
  BY <1>1 DEF Proper, OnItsWay, Agreed, Ready, Of, Checking, Opened, Prompts, Writers
<1> HIDE DEF f
<1>4. \/ Error(p) /\ UNCHANGED <<path, db>>
      \/ \E i : Stocked' /\ Opening(f, i) /\ Free(p, i) /\ Opens(p, i, proc[p].file, "query")
  BY <1>1, <1>2, AttachOpens
<1>5. CASE Error(p) /\ UNCHANGED <<path, db>>
  BY <1>1, <1>5, ErrorKeeps
<1>6. CASE \E i : Stocked' /\ Opening(f, i) /\ Free(p, i) /\ Opens(p, i, proc[p].file, "query")
  <2>1. PICK i : Stocked' /\ Opening(f, i) /\ Free(p, i) /\ Opens(p, i, proc[p].file, "query")
    BY <1>6
  <2> QED
    BY <1>1, <1>3, <2>1, OpeningKeeps
<1> QED
  BY <1>4, <1>5, <1>6

(* And so does a shell, whether it opens its file or not.                   *)
LEMMA ShellKeeps ==
  ASSUME FileInv, NEW p \in Procs, Shell(p)
  PROVE  FileInv'
<1> DEFINE f == cmd[p].input
<1>1. proc[p].pc = "shell" /\ UNCHANGED cmd /\ Proper(p) /\ Told
  BY DEF Shell, FileInv
<1>2. cmd[p].name = "shell" /\ f \in Paths /\ f = Target(p) /\ proc[p].pc \notin Opened
  BY <1>1 DEF Proper, OnItsWay, Of, Told, Target, Writers, Opened
<1>3. Ready(p, "close", proc[p].columns, proc[p].agreed)
  BY <1>1 DEF Proper, OnItsWay, Agreed, Ready, Of, Checking, Opened, Prompts, Writers
<1>4. CASE End(p, "success", 0) /\ UNCHANGED <<path, db>>
  BY <1>1, <1>2, <1>4, EndsProperly, EndingKeeps
<1>5. CASE Attach(p, f, "file", "close")
  <2> HIDE DEF f
  <2>1. \/ Error(p) /\ UNCHANGED <<path, db>>
        \/ \E i : Stocked' /\ Opening(f, i) /\ Free(p, i) /\ Opens(p, i, i, "close")
    BY <1>1, <1>2, <1>5, AttachOpens
  <2>2. CASE Error(p) /\ UNCHANGED <<path, db>>
    BY <1>1, <2>2, ErrorKeeps
  <2>3. CASE \E i : Stocked' /\ Opening(f, i) /\ Free(p, i) /\ Opens(p, i, i, "close")
    <3>1. PICK i : Stocked' /\ Opening(f, i) /\ Free(p, i) /\ Opens(p, i, i, "close")
      BY <2>3
    <3> QED
      BY <1>1, <1>2, <1>3, <3>1, OpeningKeeps
  <2> QED
    BY <2>1, <2>2, <2>3
<1> QED
  BY <1>4, <1>5 DEF Shell

(* Writing a table keeps the invariant: no other command has that file open;  *)
(* and one that has closed it loses its table only to an extract with the    *)
(* same output, since resample finds no table where it writes.               *)
LEMMA WritingKeeps ==
  ASSUME FileInv, NEW p \in Procs, NEW file, NEW i, i = proc[p].file,
         UNCHANGED <<cmd, path>>, db' = [db EXCEPT ![i] = file],
         DOMAIN file = {"extracted", "resampled"},
         proc[p].pc = "query", cmd[p].name \in Writers, Goto(p, "report"),
         \E t \in file.extracted \cup file.resampled : t.by = p,
         \/ file.resampled = db[i].resampled /\ \E t \in file.extracted : t.by = p
         \/ file.extracted = db[i].extracted /\ db[i].resampled = {}
  PROVE  FileInv'
<1>1. Proper(p) /\ AllFields /\ Stocked /\ Locked /\ Results
  BY DEF FileInv
<1>2. GoesOn(p, "report", proc[p].columns, proc[p].agreed)
  BY <1>1, GotoGoesOn
<1>3. Ready(p, "report", proc[p].columns, proc[p].agreed)
  BY <1>1 DEF Proper, OnItsWay, Agreed, Ready, Of, Checking, Opened, Prompts, Writers
<1>4. /\ AllFields' /\ Told'
      /\ \A q \in Procs : Target(q)' = Target(q) /\ Others(q)' = Others(q)
      /\ \A q \in Procs \ {p} : Proper(q)' /\ Holds(q)' = Holds(q) /\ proc'[q] = proc[q]
  BY <1>2, OthersStay DEF GoesOn
<1>5. Proper(p)'
  BY <1>2, <1>3, ReadyIsProper DEF GoesOn
<1>6. i \in proc[p].held /\ proc[p].held \subseteq DOMAIN db /\ i # 0
  <2>1. i \in proc[p].held /\ proc[p].held \subseteq DOMAIN db
    BY <1>1 DEF Locked, Opened
  <2>2. DOMAIN db = 1 .. Len(db) /\ Len(db) \in Nat
    BY <1>1, FilesAreSequence
  <2> QED
    BY <2>1, <2>2
<1>7. /\ DOMAIN db' = DOMAIN db /\ db'[i] = file
      /\ \A k \in DOMAIN db \ {i} : db'[k] = db[k]
      /\ IsSequence(db')
  <2>1. db = [k \in DOMAIN db |-> db[k]]
    BY <1>1 DEF Stocked, IsSequence
  <2>2. IsSequence([db EXCEPT ![i] = file])
    BY <1>1, <1>6, FilesAreSequence
  <2> QED
    BY <1>6, <2>1, <2>2
<1>8. Stocked'
  BY <1>1, <1>7 DEF Stocked, Paths
<1>9. \A q \in Procs : /\ proc'[q].file = proc[q].file /\ proc'[q].held = proc[q].held
                       /\ proc'[q].agreed = proc[q].agreed
                       /\ proc'[q].pc \in Opened => proc[q].pc \in Opened
  <2>1. proc[p].pc \in Opened
    BY DEF Opened
  <2> QED
    BY <1>2, <1>4, <2>1 DEF GoesOn
<1>10. Locked'
  BY <1>1, <1>4, <1>7, <1>9 DEF Locked, Paths
<1>11. \A q \in Procs : InPlace(q) => InPlace(q)'
  BY <1>4, <1>9 DEF InPlace, Paths, Others
<1>12. ASSUME NEW q \in Procs, cmd[q].name \in Writers
       PROVE  /\ Holds(q)' => InPlace(q)'
              /\ proc'[q].pc = "report" => Wrote(q)'
              /\ proc'[q].outcome = "success" => (Wrote(q) \/ Replaced(q))'
  <2>1. /\ Holds(q) => InPlace(q)
        /\ proc[q].pc = "report" => Wrote(q)
        /\ proc[q].outcome = "success" => Wrote(q) \/ Replaced(q)
    BY <1>1, <1>12 DEF Results
  <2>2. CASE q = p
    <3>1. Holds(p) /\ proc[p].outcome = "none" /\ proc'[p].outcome = "none"
      BY <1>1, <1>2 DEF Holds, Opened, Proper, Ending, GoesOn
    <3>2. Wrote(p)'
      BY <1>6, <1>7, <1>9 DEF Wrote, Tables
    <3> QED
      BY <1>11, <2>1, <2>2, <3>1, <3>2
  <2>3. CASE q # p
    <3>1. proc'[q] = proc[q] /\ Holds(q)' = Holds(q) /\ Others(q)' = Others(q)
      BY <1>4, <2>3
    <3>2. /\ proc[q].file \in {0} \cup DOMAIN db
          /\ proc[q].pc = "report" => proc[q].file # i
      <4>1. /\ proc[q].file \in {0} \cup DOMAIN db /\ proc[q].held \cap proc[p].held = {}
            /\ proc[q].pc \in Opened => proc[q].file \in proc[q].held
        BY <1>1, <1>12, <2>3 DEF Locked
      <4> QED
        BY <1>6, <4>1 DEF Opened
    <3>3. CASE proc[q].file # i
      <4>1. Tables(proc[q].file)' = Tables(proc[q].file)
        BY <1>7, <3>1, <3>2, <3>3 DEF Tables
      <4>2. Wrote(q) => Wrote(q)'
        BY <1>7, <3>1, <3>2, <3>3 DEF Wrote, Tables
      <4>3. proc[q].outcome = "success" => proc[q].file # 0
        BY <2>1 DEF Holds, InPlace
      <4>4. proc[q].file # 0 => (Replaced(q) => Replaced(q)')
        BY <1>7, <3>1, <3>2, <3>3 DEF Replaced
      <4> QED
        BY <1>11, <2>1, <3>1, <4>2, <4>3, <4>4
    <3>4. CASE proc[q].file = i
      <4>1. cmd[p].out = cmd[q].out /\ p \in Others(q)
        BY <1>1, <1>6, <1>12, <2>3, <3>4 DEF Locked, Target, Others
      <4>2. proc[q].pc # "report" /\ db'[proc'[q].file] = file /\ db[proc[q].file] = db[i]
            /\ proc'[q].file = i
        BY <1>7, <3>1, <3>2, <3>4
      <4>3. Wrote(q) \/ Replaced(q) => Wrote(q)' \/ Replaced(q)'
        <5>1. CASE \E t \in file.extracted : t.by = p
          BY <3>1, <4>1, <4>2, <5>1 DEF Replaced
        <5>2. CASE file.extracted = db[i].extracted /\ db[i].resampled = {}
          <6>1. Replaced(q) => Replaced(q)'
            BY <3>1, <4>2, <5>2 DEF Replaced
          <6>2. Wrote(q) => Wrote(q)'
            BY <1>6, <3>1, <4>2, <5>2 DEF Wrote, Tables
          <6> QED
            BY <6>1, <6>2
        <5> QED
          BY <5>1, <5>2
      <4> QED
        BY <1>11, <2>1, <3>1, <4>2, <4>3
    <3> QED
      BY <3>3, <3>4
  <2> QED
    BY <2>2, <2>3
<1>13. Results'
  BY <1>12 DEF Results
<1> QED
  BY <1>4, <1>5, <1>8, <1>10, <1>13 DEF FileInv

(* CREATE OR REPLACE TABLE extracted_data keeps the invariant.               *)
LEMMA ExtractKeeps ==
  ASSUME FileInv, NEW p \in Procs, Extract(p)
  PROVE  FileInv'
<1> DEFINE i == proc[p].file
           table == {[by |-> p, data |-> cmd[p].result]}
           file == [db[i] EXCEPT !.extracted = table]
<1>1. /\ proc[p].pc = "query" /\ cmd[p].name = "extract" /\ UNCHANGED <<cmd, path>>
      /\ Goto(p, "report") /\ db' = [db EXCEPT ![i].extracted = table]
  BY DEF Extract
<1>2. i \in DOMAIN db /\ DOMAIN db[i] = {"extracted", "resampled"}
  BY <1>1 DEF FileInv, Locked, Stocked, Opened, Writers
<1>3. db' = [db EXCEPT ![i] = file]
  BY <1>1
<1>4. \A t \in table : t.by = p
  OBVIOUS
<1>5. table # {}
  OBVIOUS
<1> HIDE DEF table
<1>6. /\ DOMAIN file = {"extracted", "resampled"}
      /\ file.resampled = db[i].resampled /\ file.extracted = table
  BY <1>2
<1> HIDE DEF file
<1>7. \E t \in file.extracted : t.by = p
  BY <1>4, <1>5, <1>6
<1>8. \E t \in file.extracted \cup file.resampled : t.by = p
  BY <1>7
<1>9. cmd[p].name \in Writers
  BY <1>1 DEF Writers
<1> QED
  BY <1>1, <1>3, <1>6, <1>7, <1>8, <1>9, WritingKeeps

(* CREATE TABLE resampled_data keeps it, and fails where there is a table.   *)
LEMMA ResampleKeeps ==
  ASSUME FileInv, NEW p \in Procs, Resample(p)
  PROVE  FileInv'
<1> DEFINE i == proc[p].file
           tables == db[proc[p].source].extracted
           Table(t, c) == [by |-> p, data |-> Resampled(t.data, c, cmd[p].period)]
           table == {Table(t, c) : t \in tables, c \in proc[p].columns}
           file == [db[i] EXCEPT !.resampled = table]
<1>1. /\ proc[p].pc = "query" /\ cmd[p].name = "resample" /\ UNCHANGED <<cmd, path>>
  BY DEF Resample
<1>2. CASE Error(p) /\ UNCHANGED db
  BY <1>1, <1>2, ErrorKeeps
<1>3. CASE /\ db[i].resampled = {} /\ tables # {}
           /\ db' = [db EXCEPT ![i].resampled = table] /\ Goto(p, "report")
  <2>1. i \in DOMAIN db /\ DOMAIN db[i] = {"extracted", "resampled"}
    BY <1>1 DEF FileInv, Locked, Stocked, Opened, Writers
  <2>2. db' = [db EXCEPT ![i] = file]
    BY <1>3
  <2>3. PICK c : c \in proc[p].columns
    BY <1>1 DEF FileInv, Proper, OnItsWay, Opened
  <2>4. PICK t : t \in tables
    BY <1>3
  <2>5. Table(t, c) \in table /\ Table(t, c).by = p
    BY <2>3, <2>4
  <2> HIDE DEF table
  <2>6. /\ DOMAIN file = {"extracted", "resampled"}
        /\ file.resampled = table /\ file.extracted = db[i].extracted
    BY <2>1
  <2> HIDE DEF file, Table
  <2>7. \E x \in file.extracted \cup file.resampled : x.by = p
    BY <2>5, <2>6
  <2>8. cmd[p].name \in Writers
    BY <1>1 DEF Writers
  <2> QED
    BY <1>1, <1>3, <2>2, <2>6, <2>7, <2>8, WritingKeeps
<1> QED
  BY <1>2, <1>3 DEF Resample

-----------------------------------------------------------------------------
(* The theorems about results.                                              *)

(* Every command starts properly, with no file open.                        *)
LEMMA InitEstablishesFileInv ==
  ASSUME Init
  PROVE  FileInv
<1>1. PICK job \in Jobs : cmd = job.cmd /\ path = job.path /\ db = job.db
  BY DEF Init
<1>8. /\ job.db \in Seq({job.db[i] : i \in DOMAIN job.db})
      /\ \A i \in DOMAIN job.db : DOMAIN job.db[i] = {"extracted", "resampled"}
      /\ job.path \in [DOMAIN job.path -> {0} \cup DOMAIN job.db]
      /\ "" \notin DOMAIN job.path
      /\ \A f, g \in DOMAIN job.path : job.path[f] = job.path[g] /\ job.path[f] # 0 => f = g
  BY <1>1, JobsAssumption
<1>9. ASSUME NEW p \in Procs
      PROVE  /\ job.cmd[p].name \in JsonDocument \cup {"export", "plot", "shell"}
             /\ job.cmd[p].name = "extract" => job.cmd[p].out \in DOMAIN job.path \cup {""}
             /\ job.cmd[p].name = "resample" => job.cmd[p].out \in DOMAIN job.path
             /\ job.cmd[p].name \in {"resample", "ingest", "plot", "shell"}
                  => job.cmd[p].input \in DOMAIN job.path
             /\ job.cmd[p].name = "export" => job.cmd[p].input \in DOMAIN job.path \cup {""}
  BY <1>1, JobsAssumption
<1>10. Stocked
  <2>1. IsSequence(db)
    BY <1>1, <1>8 DEF IsSequence
  <2> QED
    BY <1>1, <1>8, <2>1 DEF Stocked, Paths
<1>11. Told
  BY <1>1, <1>8, <1>9 DEF Told, Paths, Commands
<1>2. Stocked /\ Told
  BY <1>10, <1>11
<1>3. /\ DOMAIN proc = Procs
      /\ \A p \in Procs :
           /\ DOMAIN proc[p] = Fields
           /\ proc[p].pc = First(cmd[p].name) /\ proc[p].held = {} /\ proc[p].file = 0
           /\ proc[p].agreed = FALSE /\ proc[p].printed = 0 /\ proc[p].outcome = "none"
  BY DEF Init, Fields
<1>4. ASSUME NEW p \in Procs
      PROVE  /\ cmd[p].name \in Of(First(cmd[p].name))
             /\ First(cmd[p].name) \in {"stdin", "freq", "resolve", "api", "ingest", "open", "shell"}
             /\ First(cmd[p].name) = "open" => cmd[p].name \in {"export", "plot"}
  <2>1. cmd[p].name \in {"extract", "resample", "info", "search", "ingest", "export", "plot", "shell"}
    <3>1. cmd[p].name \in Commands
      BY <1>2 DEF Told
    <3> QED
      BY <3>1 DEF Commands, JsonDocument, Writers
  <2>2. /\ "extract" \in Of("stdin") /\ "resample" \in Of("freq") /\ "info" \in Of("resolve")
        /\ "search" \in Of("api") /\ "ingest" \in Of("ingest")
        /\ {"export", "plot"} \subseteq Of("open") /\ "shell" \in Of("shell")
    BY DEF Of
  <2>3. /\ First("extract") = "stdin" /\ First("resample") = "freq" /\ First("info") = "resolve"
        /\ First("search") = "api" /\ First("ingest") = "ingest"
        /\ First("export") = "open" /\ First("plot") = "open" /\ First("shell") = "shell"
    BY DEF First
  <2> QED
    BY <2>1, <2>2, <2>3
<1>5. ASSUME NEW p \in Procs
      PROVE  Proper(p)
  <2>5. /\ proc[p].pc \in {"stdin", "freq", "resolve", "api", "ingest", "open", "shell"}
        /\ cmd[p].name \in Of(proc[p].pc)
    BY <1>3, <1>4
  <2>6. /\ proc[p].pc \notin Opened \cup Prompts
        /\ proc[p].pc \in Checking => cmd[p].name \in {"export", "plot"}
    BY <1>3, <1>4, <2>5 DEF Checking, Opened, Prompts
  <2>7. cmd[p].name = "search" => proc[p].pc = "api"
    BY <1>3 DEF First
  <2>1. OnItsWay(p)
    BY <2>5, <2>6, <2>7 DEF OnItsWay
  <2>2. Agreed(p)
    BY <1>3, <1>4 DEF Agreed
  <2>3. Ending(p)
    BY <1>3, <1>4 DEF Ending, Documents
  <2> QED
    BY <2>1, <2>2, <2>3 DEF Proper
<1>6. Locked
  <2>1. \A p \in Procs : proc[p].pc \notin Opened
    BY <1>3, <1>4 DEF Opened
  <2> QED
    BY <1>3, <2>1 DEF Locked
<1>7. Results
  BY <1>3, <1>4 DEF Results, Holds, Opened
<1> QED
  BY <1>2, <1>3, <1>5, <1>6, <1>7 DEF FileInv, AllFields

(* Every step keeps the invariant.                                         *)
LEMMA NextKeepsFileInv ==
  ASSUME FileInv, [Next]_vars
  PROVE  FileInv'
<1>1. CASE UNCHANGED vars
  <2>1. cmd' = cmd /\ path' = path /\ db' = db /\ proc' = proc
    BY <1>1 DEF vars
  <2>2. Paths' = Paths
    BY <2>1 DEF Paths
  <2>6. AllFields' /\ Told'
    BY <2>1, <2>2 DEF FileInv, AllFields, Told
  <2>7. Stocked'
    <3>1. IsSequence(db')
      BY <2>1 DEF FileInv, Stocked
    <3> QED
      BY <2>1, <2>2, <3>1 DEF FileInv, Stocked
  <2>3. \A p \in Procs : Proper(p)'
    BY <2>1 DEF FileInv, Proper, OnItsWay, Agreed, Ending, Documents
  <2>4. Locked'
    BY <2>1 DEF FileInv, Locked, Target, Paths
  <2>5. Results'
    BY <2>1 DEF FileInv, Results, Holds, InPlace, Wrote, Replaced, Others, Tables, Paths
  <2> QED
    BY <2>3, <2>4, <2>5, <2>6, <2>7 DEF FileInv
<1>2. ASSUME NEW p \in Procs, Run(p) \/ Answer(p) \/ Fail(p) \/ Cancel(p) \/ Kill(p)
      PROVE  FileInv'
  <2>1. CASE Quiet(p)
    BY <2>1, QuietKeeps
  <2>2. CASE check_overwrite_protection(p) \/ AnswerOverwrite(p)
    BY <2>2, ProtectionKeeps
  <2>3. CASE RemoveOutput(p)
    BY <2>3, RemoveKeeps
  <2>4. CASE Open(p) \/ AttachInput(p) \/ Shell(p)
    BY <2>4, OpenKeeps, AttachInputKeeps, ShellKeeps
  <2>5. CASE Extract(p) \/ Resample(p)
    BY <2>5, ExtractKeeps, ResampleKeeps
  <2> QED
    BY <1>2, <2>1, <2>2, <2>3, <2>4, <2>5 DEF Run, Answer, Quiet
<1> QED
  BY <1>1, <1>2 DEF Next, Ended

(* It is an invariant of the commands.                                      *)
LEMMA FileInvHolds == Spec => []FileInv
  BY InitEstablishesFileInv, NextKeepsFileInv, PTL DEF Spec

(* Processes have only the steps of their command, a file they opened exists *)
(* and is open in no other process, and nothing is printed twice.            *)
THEOREM CommandsTyped == Spec => []TypeOK
<1>1. FileInv => TypeOK
  <2> SUFFICES ASSUME FileInv
               PROVE  TypeOK
    OBVIOUS
  <2>1. Stocked /\ Locked /\ \A p \in Procs : Proper(p)
    BY DEF FileInv
  <2>2. DOMAIN db = 1 .. Len(db) /\ Len(db) \in Nat
    BY <2>1, FilesAreSequence
  <2>3. path \in [Paths -> 0 .. Len(db)]
    BY <2>1, <2>2 DEF Stocked
  <2>4. ASSUME NEW p \in Procs
        PROVE  proc[p].pc \in Prompts \cup External \cup {"stdin", "check", "api", "freq", "agg",
                 "report", "choose", "shell", "close", "end"}
    BY <2>1 DEF Proper, OnItsWay, Of, Prompts, External
  <2>5. \A p \in Procs : proc[p].held \subseteq 1 .. Len(db)
    BY <2>1, <2>2 DEF Locked
  <2>6. \A p \in Procs : \A q \in Procs \ {p} : proc[p].held \cap proc[q].held = {}
    BY <2>1 DEF Locked
  <2>7. \A p \in Procs : /\ proc[p].printed \in {0, 1} /\ proc[p].agreed \in BOOLEAN
                         /\ proc[p].pc = "end" <=> proc[p].outcome # "none"
    BY <2>1 DEF Proper, Agreed, Ending
  <2> QED
    BY <2>3, <2>4, <2>5, <2>6, <2>7 DEF TypeOK
<1> QED
  BY <1>1, FileInvHolds, PTL

(* A command that reports success has left its table in its file, where      *)
(* only another extract on that path can replace it; and the path it was     *)
(* told leads to that file, unless another command was allowed to remove it.  *)
THEOREM SuccessMeansResult == Spec => []SuccessHasResult
<1>1. FileInv => SuccessHasResult
  <2> SUFFICES ASSUME FileInv, NEW p \in Procs, cmd[p].name \in Writers,
                      proc[p].pc = "report" \/ proc[p].outcome = "success"
               PROVE  /\ \/ \E t \in Tables(proc[p].file) : t.by = p
                         \/ /\ proc[p].pc = "end"
                            /\ \E q \in Others(p), t \in db[proc[p].file].extracted : t.by = q
                      /\ \/ path[cmd[p].out] = proc[p].file
                         \/ \E q \in Others(p) : proc[q].agreed
    BY DEF SuccessHasResult, Others
  <2>1. /\ Holds(p) => InPlace(p)
        /\ proc[p].pc = "report" => Wrote(p)
        /\ proc[p].outcome = "success" => Wrote(p) \/ Replaced(p)
    BY DEF FileInv, Results
  <2>2. Holds(p) /\ (proc[p].outcome = "success" => proc[p].pc = "end")
    BY DEF FileInv, Proper, Ending, Holds, Opened
  <2>3. path[cmd[p].out] = proc[p].file \/ \E q \in Others(p) : proc[q].agreed
    BY <2>1, <2>2 DEF InPlace
  <2>4. \/ \E t \in Tables(proc[p].file) : t.by = p
        \/ /\ proc[p].pc = "end"
           /\ \E q \in Others(p), t \in db[proc[p].file].extracted : t.by = q
    BY <2>1, <2>2 DEF Wrote, Replaced
  <2> QED
    BY <2>3, <2>4
<1> QED
  BY <1>1, FileInvHolds, PTL

(* With JSON output a command prints one document when it ends in an error,  *)
(* one when it succeeds and is extract, resample, info, search or ingest,   *)
(* and none otherwise: before its end, when it is killed, when its upload    *)
(* exits, and when export, plot or shell succeeds.  It is never declined.    *)
THEOREM OneDocumentEach == Spec => []OneDocument
<1>1. FileInv => OneDocument
  BY DEF FileInv, Proper, Ending, OneDocument
<1> QED
  BY <1>1, FileInvHolds, PTL

=============================================================================
