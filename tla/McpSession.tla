----------------------------- MODULE McpSession -----------------------------
(***************************************************************************)
(* eider-mcp (mcp/src): concurrent tool calls over one DuckDB session.     *)
(*                                                                         *)
(* EiderServer::run takes the session's mutex, spawns a watchdog task for  *)
(* the call, runs the tool's statements synchronously on the session, and   *)
(* aborts the watchdog.  The session outlives the calls: its temp tables    *)
(* are the handles of earlier results, zonal_stats passes a bounding box    *)
(* from one statement to the next in a session variable, and an interrupt   *)
(* hits whatever statement the session runs when it arrives.                *)
(*                                                                         *)
(* DuckDB, tokio and the clients are external.  An interrupt sets a flag    *)
(* of the session that the next statement to start clears.  The runtime     *)
(* polls a task on any worker that is free; abort() takes effect only       *)
(* between two polls.  Of a table only its writer and the box it was        *)
(* computed from are kept.                                                 *)
(***************************************************************************)
EXTENDS Integers, Sequences, FiniteSets

CONSTANTS
  Calls,      (* the tool calls that arrive                                *)
  Tool,       (* the tool of each call, as the statements it executes      *)
  Runaway,    (* calls whose result table may take for ever to compute     *)
  Progress,   (* calls made with a progress token                          *)
  Readers,    (* calls whose client reads the progress it is sent          *)
  ScriptNames, (* numbers n such that run_sql creates mcp_result_n         *)
  Panics,     (* calls with a result row whose conversion panics           *)
  Parallel    (* the runtime has a second worker thread                    *)

VARIABLES
  holder,      (* the call that holds the session's mutex, or NoCall        *)
  pc,          (* each call: "waiting" for the mutex, "ready" between       *)
               (* statements, "running" one, "returned", "aborted", then    *)
               (* "done" or "panicked"                                      *)
  step,        (* the statement of its tool a call is at                   *)
  answer,      (* "none", "ok", or "error"                                 *)
  handle,      (* the number n of the call's mcp_result_n, or -1           *)
  seen,        (* the writers of the tables a call's statements read       *)
  result_seq,  (* RESULT_SEQ                                               *)
  tables,      (* the session's temp tables mcp_result_n, by n             *)
  z_bbox,      (* the session variable _z_bbox: the call that set it       *)
  interrupted, (* the session's interrupt flag                             *)
  watchdog,    (* each call's watchdog task, see Watchdogs                 *)
  late,        (* TOOL_TIMEOUT has elapsed since the call's watchdog began *)
  cut          (* calls one of whose statements was interrupted            *)

vars == <<holder, pc, step, answer, handle, seen, result_seq, tables,
          z_bbox, interrupted, watchdog, late, cut>>
session == <<result_seq, tables, z_bbox, interrupted>>
result == <<answer, handle, seen>>
timer == <<watchdog, late>>

NoCall == "no call"

(* "ticking": in interval.tick().await; "notifying": in notify_progress;   *)
(* "firing": past the elapsed test, before interrupt().                    *)
Watchdogs == {"off", "ticking", "notifying", "firing", "fired", "aborted"}

-----------------------------------------------------------------------------
(* The tools, as the statements they send to the session: "query",          *)
(* "set_box", "create", "count", "head", "script".                         *)

Materialize == <<"create", "count", "head">>

DescribeDataset == <<"query">>
EstimateCost == <<"query">>
ListTables == <<"query">>
DescribeTable == <<"query", "query">>
ReadRegion == Materialize
ZonalStats == <<"set_box">> \o Materialize
ExtractPointTimeseries == <<"query">> \o Materialize

(* run_sql: what ensure_read_only lets through is a query, or one of SET    *)
(* VARIABLE and CREATE [OR REPLACE] TEMP, which are executed directly.     *)
RunSqlQuery == Materialize
RunSqlDirect == <<"script">>

Tools ==
  {DescribeDataset, EstimateCost, ListTables, DescribeTable, ReadRegion, ZonalStats,
   ExtractPointTimeseries, RunSqlQuery, RunSqlDirect}

ASSUME McpAssumption ==
  /\ Tool \in [Calls -> Tools] /\ NoCall \notin Calls
  /\ Runaway \subseteq Calls
  /\ Progress \subseteq Calls /\ Readers \subseteq Calls
  /\ ScriptNames \subseteq Nat
  /\ Panics \subseteq Calls /\ Parallel \in BOOLEAN

Statement(c) == Tool[c][step[c]]

-----------------------------------------------------------------------------
Init ==
  /\ holder = NoCall
  /\ pc = [c \in Calls |-> "waiting"]
  /\ step = [c \in Calls |-> 1]
  /\ answer = [c \in Calls |-> "none"]
  /\ handle = [c \in Calls |-> -1]
  /\ seen = [c \in Calls |-> {}]
  /\ result_seq = 0
  /\ tables = <<>>
  /\ z_bbox = NoCall
  /\ interrupted = FALSE
  /\ watchdog = [c \in Calls |-> "off"]
  /\ late = [c \in Calls |-> FALSE]
  /\ cut = {}

(* A statement that may never end by itself; a table that exists already is *)
(* not computed.                                                           *)
RunsOn(c) ==
  /\ pc[c] = "running" /\ Statement(c) = "create"
  /\ c \in Runaway /\ handle[c] \notin DOMAIN tables

Goto(c, label) == pc' = [pc EXCEPT ![c] = label]

InTool(c) == pc[c] \in {"ready", "running", "returned"}

(* A worker is free for a watchdog: the tool blocks the one it runs on.    *)
CanPoll == Parallel \/ \A c \in Calls : ~InTool(c)

(* Faulty Lock: the session is shared as it is.                            *)
LockNotExclusive(c) ==
  /\ pc[c] = "waiting"
  /\ holder' = c
  /\ watchdog' = [watchdog EXCEPT ![c] = "ticking"]
  /\ Goto(c, "ready")
  /\ UNCHANGED <<step, result, session, late, cut>>

(* run takes the mutex and spawns the watchdog.                            *)
Lock(c) ==
  /\ pc[c] = "waiting" /\ holder = NoCall
  /\ Parallel \/ \A w \in Calls : watchdog[w] # "firing"
  /\ holder' = c
  /\ watchdog' = [watchdog EXCEPT ![c] = "ticking"]
  /\ Goto(c, "ready")
  /\ UNCHANGED <<step, result, session, late, cut>>

(* Faulty Begin: the sequence number is read and not advanced.             *)
BeginLoadsSeq(c) ==
  /\ pc[c] = "ready"
  /\ interrupted' = FALSE
  /\ handle' = IF Statement(c) = "create" THEN [handle EXCEPT ![c] = result_seq] ELSE handle
  /\ Goto(c, "running")
  /\ UNCHANGED <<holder, step, answer, seen, result_seq, tables, z_bbox, timer, cut>>

(* A statement starts.  materialize numbers its table before creating it.  *)
Begin(c) ==
  /\ pc[c] = "ready"
  /\ interrupted' = FALSE
  /\ IF Statement(c) = "create"
     THEN /\ handle' = [handle EXCEPT ![c] = result_seq]
          /\ result_seq' = result_seq + 1
     ELSE UNCHANGED <<handle, result_seq>>
  /\ Goto(c, "running")
  /\ UNCHANGED <<holder, step, answer, seen, tables, z_bbox, timer, cut>>

(* The tool returns.                                                       *)
ToolReturns(c, with) ==
  /\ answer' = [answer EXCEPT ![c] = with]
  /\ Goto(c, "returned")

WithTable(n, entry) ==
  [m \in DOMAIN tables \cup {n} |-> IF m = n THEN entry ELSE tables[m]]

(* The calls whose table had this name, to be replaced by another.         *)
Replaced(n) ==
  IF n \in DOMAIN tables THEN {tables[n].by} \cup tables[n].over ELSE {}

(* What a statement that succeeds does.  materialize creates without OR    *)
(* REPLACE: it succeeds only when the table does not exist.                *)
Effect(c) ==
  LET n == handle[c]
  IN \/ /\ Statement(c) = "query" /\ UNCHANGED <<tables, z_bbox, seen>>
     \/ /\ Statement(c) = "set_box" /\ z_bbox' = c /\ UNCHANGED <<tables, seen>>
     \/ /\ Statement(c) = "create" /\ n \notin DOMAIN tables
        /\ tables' = WithTable(n, [by |-> c, box |-> z_bbox, over |-> {}])
        /\ UNCHANGED <<z_bbox, seen>>
     \/ /\ Statement(c) \in {"count", "head"} /\ n \in DOMAIN tables
        /\ seen' = [seen EXCEPT ![c] = @ \cup {tables[n].by}]
        /\ UNCHANGED <<tables, z_bbox>>
     \/ /\ Statement(c) = "script"
        /\ \/ z_bbox' = c /\ tables' = tables
           \/ /\ \E m \in ScriptNames :
                   tables' = WithTable(m, [by |-> c, box |-> NoCall, over |-> Replaced(m)])
              /\ z_bbox' = z_bbox
        /\ seen' = seen

(* A statement ends, perhaps before it noticed an interrupt.               *)
Finish(c) ==
  /\ pc[c] = "running"
  /\ Effect(c)
  /\ IF step[c] = Len(Tool[c])
     THEN ToolReturns(c, "ok") /\ step' = step
     ELSE /\ step' = [step EXCEPT ![c] = @ + 1]
          /\ Goto(c, "ready") /\ answer' = answer
  /\ UNCHANGED <<holder, handle, result_seq, interrupted, timer, cut>>

(* Faulty Fail: the error of a statement is dropped.                       *)
FailIgnored(c) ==
  /\ pc[c] = "running"
  /\ IF step[c] = Len(Tool[c])
     THEN ToolReturns(c, "ok") /\ step' = step
     ELSE /\ step' = [step EXCEPT ![c] = @ + 1]
          /\ Goto(c, "ready") /\ answer' = answer
  /\ UNCHANGED <<holder, handle, seen, session, timer, cut>>

(* A statement fails: the tool returns its error and undoes nothing.       *)
Fail(c) ==
  /\ pc[c] = "running"
  /\ ToolReturns(c, "error")
  /\ UNCHANGED <<holder, step, handle, seen, session, timer, cut>>

(* A statement notices the interrupt and fails.                            *)
Interrupted(c) ==
  /\ pc[c] = "running" /\ interrupted
  /\ ToolReturns(c, "error")
  /\ cut' = cut \cup {c}
  /\ UNCHANGED <<holder, step, handle, seen, session, timer>>

(* The tool panics over a row: the mutex is released while unwinding, and  *)
(* the watchdog is not aborted.                                            *)
Panic(c) ==
  /\ c \in Panics
  /\ pc[c] = "running" /\ Statement(c) \in {"query", "head"}
  /\ holder' = NoCall
  /\ Goto(c, "panicked")
  /\ UNCHANGED <<step, result, session, timer, cut>>

(* Faulty Abort: the watchdog is left alone.                               *)
AbortForgotten(c) ==
  /\ pc[c] = "returned"
  /\ Goto(c, "aborted")
  /\ UNCHANGED <<holder, step, result, session, timer, cut>>

(* watchdog.abort(): a task past its elapsed test still fires.             *)
Abort(c) ==
  /\ pc[c] = "returned"
  /\ watchdog' = [watchdog EXCEPT ![c] =
       IF @ \in {"ticking", "notifying"} THEN "aborted" ELSE @]
  /\ Goto(c, "aborted")
  /\ UNCHANGED <<holder, step, result, session, late, cut>>

(* run returns and releases the mutex.                                     *)
Unlock(c) ==
  /\ pc[c] = "aborted"
  /\ holder' = NoCall
  /\ Goto(c, "done")
  /\ UNCHANGED <<step, result, session, timer, cut>>

-----------------------------------------------------------------------------
(* The watchdog of call c.                                                 *)

Alive(c) == watchdog[c] \in {"ticking", "notifying"}

(* TOOL_TIMEOUT elapses while a statement runs, this call's or, for a      *)
(* watchdog that outlived its call, another one's.                         *)
TimeElapses(c) ==
  /\ Alive(c) /\ ~late[c]
  /\ \E d \in Calls : pc[d] = "running"
  /\ late' = [late EXCEPT ![c] = TRUE]
  /\ UNCHANGED <<holder, pc, step, result, session, watchdog, cut>>

(* A tick: the time is not up, and the progress is sent to the client.     *)
Notify(c) ==
  /\ CanPoll /\ c \in Progress
  /\ watchdog[c] = "ticking" /\ ~late[c]
  /\ watchdog' = [watchdog EXCEPT ![c] = "notifying"]
  /\ UNCHANGED <<holder, pc, step, result, session, late, cut>>

(* The client took the notification.                                       *)
Notified(c) ==
  /\ CanPoll
  /\ watchdog[c] = "notifying"
  /\ watchdog' = [watchdog EXCEPT ![c] = "ticking"]
  /\ UNCHANGED <<holder, pc, step, result, session, late, cut>>

(* Faulty Expire: a watchdog interrupts only if nobody waits to be sent    *)
(* progress.                                                               *)
ExpireWithoutProgress(c) ==
  /\ CanPoll /\ c \notin Progress
  /\ watchdog[c] = "ticking" /\ late[c]
  /\ watchdog' = [watchdog EXCEPT ![c] = "firing"]
  /\ UNCHANGED <<holder, pc, step, result, session, late, cut>>

(* A tick: the time is up.                                                 *)
Expire(c) ==
  /\ CanPoll
  /\ watchdog[c] = "ticking" /\ late[c]
  /\ watchdog' = [watchdog EXCEPT ![c] = "firing"]
  /\ UNCHANGED <<holder, pc, step, result, session, late, cut>>

(* interrupt(), and the watchdog ends.                                     *)
Fire(c) ==
  /\ watchdog[c] = "firing"
  /\ interrupted' = TRUE
  /\ watchdog' = [watchdog EXCEPT ![c] = "fired"]
  /\ UNCHANGED <<holder, pc, step, result, result_seq, tables, z_bbox, late, cut>>

-----------------------------------------------------------------------------
Run(c) ==
  \/ Lock(c) \/ Begin(c) \/ Finish(c) \/ Fail(c) \/ Interrupted(c)
  \/ Abort(c) \/ Unlock(c)
Watch(c) == Expire(c) \/ Fire(c)

Answered == \A c \in Calls : pc[c] \in {"done", "panicked"}
Idle == Answered /\ UNCHANGED vars

Next ==
  \/ \E c \in Calls :
       \/ Run(c) \/ Panic(c)
       \/ Watch(c) \/ Notify(c) \/ Notified(c) \/ TimeElapses(c)
  \/ Idle

Spec == Init /\ [][Next]_vars

(* The mutex goes to a call that waits for it; a statement ends, unless it  *)
(* runs away, and one that was interrupted notices; time passes; a reader   *)
(* takes the progress it is sent; and the runtime polls a task when a       *)
(* worker is free.                                                         *)
FairSpec ==
  /\ Spec
  /\ \A c \in Calls :
       /\ WF_vars(~RunsOn(c) /\ Run(c)) /\ WF_vars(Interrupted(c))
       /\ WF_vars(Watch(c)) /\ WF_vars(TimeElapses(c))
       /\ c \in Readers => WF_vars(Notified(c))

-----------------------------------------------------------------------------
(* Properties                                                              *)

TypeOK ==
  /\ holder \in Calls \cup {NoCall}
  /\ \A c \in Calls :
       /\ pc[c] \in {"waiting", "ready", "running", "returned", "aborted", "done",
                     "panicked"}
       /\ step[c] \in 1 .. Len(Tool[c])
       /\ handle[c] \in -1 .. result_seq - 1
       /\ watchdog[c] \in Watchdogs
       /\ answer[c] = "none" <=> pc[c] \notin {"returned", "aborted", "done"}
  /\ result_seq \in Nat

(* A call's statements work on the session as if it were alone: the count   *)
(* and the rows of its answer are those of the table it created, and a     *)
(* zonal result was computed from the box of its own polygons, although    *)
(* the box and the table are state of the session between the statements.  *)
Zonal(c) == \E i \in DOMAIN Tool[c] : Tool[c][i] = "set_box"

AnswerOwn ==
  \A c \in Calls : answer[c] = "ok" =>
    /\ seen[c] \subseteq {c}
    /\ Zonal(c) => \A n \in DOMAIN tables : tables[n].by = c => tables[n].box = c

(* Handles stay valid: the table an answered call named is still the one it *)
(* created, unless run_sql replaced that very table by name; a table that    *)
(* run_sql created under the next number makes materialize fail and never   *)
(* answer with another's table.                                            *)
HandleHolds ==
  \A c \in Calls : (answer[c] = "ok" /\ handle[c] >= 0) =>
    /\ handle[c] \in DOMAIN tables
    /\ c \in {tables[handle[c]].by} \cup tables[handle[c]].over

(* A watchdog that can still fire belongs to the call that holds the        *)
(* session, to one that panicked, or passed its elapsed test too late to be *)
(* aborted.                                                                *)
WatchdogOfHolder ==
  \A c \in Calls : Alive(c) => (holder = c /\ InTool(c)) \/ pc[c] = "panicked"

(* The three ways in which the session can be wedged for good by a runaway  *)
(* statement, although each call has a watchdog: there is no worker to poll *)
(* it; it has fired its only interrupt while an earlier statement of the    *)
(* call was ending, and the start of the runaway one cleared it; or it      *)
(* waits for a client to read the progress.                                *)
Wedged(c) ==
  /\ RunsOn(c)
  /\ \/ ~Parallel
     \/ watchdog[c] = "fired" /\ step[c] > 1
     \/ watchdog[c] = "notifying" /\ c \notin Readers

(* Calls neither deadlock nor starve, and a runaway one is stopped, unless  *)
(* it is stuck for ever in exactly one of those ways: a call whose runaway  *)
(* statement is its first and whose client reads its progress holds the     *)
(* session for a limited time, in every interleaving with the watchdogs of  *)
(* other calls.                                                            *)
AnsweredUnlessWedged == <>Answered \/ \E c \in Calls : <>[]Wedged(c)

(* docs: the watchdog is aborted once the query returns, so that a fast    *)
(* query is never affected: only a call that overran is interrupted.       *)
FastNeverInterrupted == \A c \in cut : late[c]

=============================================================================
