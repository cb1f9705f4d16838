-------------------------- MODULE McpSessionProofs --------------------------
(***************************************************************************)
(* Proof that a call of eider-mcp is answered from its own table and box,   *)
(* for any calls of its tools and any interleaving of calls and watchdogs.  *)
(***************************************************************************)
EXTENDS McpSession, SequenceTheorems, TLAPS

(* The mutex: a call is between run's lock and its return exactly when it  *)
(* holds the session.                                                      *)
Holding == {"ready", "running", "returned", "aborted"}

(* The statements of call c that have succeeded.                           *)
Finished(c) ==
  IF answer[c] = "ok" THEN 1 .. Len(Tool[c]) ELSE 1 .. step[c] - 1

Succeeded(c, statement) == \E i \in Finished(c) : Tool[c][i] = statement

Shapes ==
  /\ DOMAIN pc = Calls /\ DOMAIN step = Calls /\ DOMAIN answer = Calls
  /\ DOMAIN handle = Calls /\ DOMAIN seen = Calls
  /\ DOMAIN watchdog = Calls /\ DOMAIN late = Calls

Mutex(c) == pc[c] \in Holding <=> holder = c

Watched(c) == Alive(c) => pc[c] \in {"ready", "running", "returned", "panicked"}

(* While c holds the session, the table it created is the one it numbered. *)
Owned(c) ==
  (holder = c /\ Succeeded(c, "create")) =>
    handle[c] \in DOMAIN tables /\ tables[handle[c]].by = c

(* Later the table is still there, or run_sql replaced it by its name.     *)
Named(c) ==
  Succeeded(c, "create") =>
    /\ handle[c] \in DOMAIN tables
    /\ c \in {tables[handle[c]].by} \cup tables[handle[c]].over

(* A call has a number only from the statement that creates its table.     *)
Numbered(c) ==
  handle[c] >= 0 =>
    \E i \in DOMAIN Tool[c] : i <= step[c] /\ Tool[c][i] = "create"

SeenOwn(c) == seen[c] \subseteq {c}

(* The box in the session is that of the call that holds it and set it.     *)
Boxed(c) == (holder = c /\ Zonal(c) /\ Succeeded(c, "set_box")) => z_bbox = c

OwnBox(c) ==
  Zonal(c) => \A n \in DOMAIN tables : tables[n].by = c => tables[n].box = c

(* A call that waits has done nothing yet.                                 *)
Fresh(c) == pc[c] = "waiting" => step[c] = 1

CallInv(c) ==
  /\ Mutex(c) /\ Watched(c) /\ Fresh(c)
  /\ Owned(c) /\ Named(c) /\ Numbered(c)
  /\ SeenOwn(c) /\ Boxed(c) /\ OwnBox(c)

Inv == TypeOK /\ Shapes /\ \A c \in Calls : CallInv(c)

-----------------------------------------------------------------------------
(* What the proofs use of the tools: a tool creates at most one table, asks  *)
(* for rows and for the box only after it has made them, and run_sql's own   *)
(* statement comes alone.                                                  *)
WellFormed(t) ==
  /\ Len(t) \in Nat \ {0} /\ DOMAIN t = 1 .. Len(t)
  /\ \A i, j \in DOMAIN t : t[i] = "create" /\ t[j] = "create" => i = j
  /\ \A i \in DOMAIN t : t[i] \in {"count", "head"} =>
       \E j \in DOMAIN t : j < i /\ t[j] = "create"
  /\ \A i, j \in DOMAIN t : t[i] = "create" /\ t[j] = "set_box" => j < i
  /\ \A i, j \in DOMAIN t : t[i] = "script" => t[j] \notin {"create", "set_box"}

(* A statement put before materialize's.                                   *)
LEMMA BeforeMaterialize ==
  ASSUME NEW s
  PROVE  /\ Len(<<s>> \o Materialize) = 4 /\ DOMAIN (<<s>> \o Materialize) = 1 .. 4
         /\ (<<s>> \o Materialize)[1] = s
         /\ (<<s>> \o Materialize)[2] = "create"
         /\ (<<s>> \o Materialize)[3] = "count"
         /\ (<<s>> \o Materialize)[4] = "head"
<1> DEFINE S == {s, "create", "count", "head"}
           a == <<s>>
           b == Materialize
<1>1. a \in Seq(S) /\ Len(a) = 1 /\ a[1] = s
  OBVIOUS
<1>2. b \in Seq(S) /\ Len(b) = 3 /\ b[1] = "create" /\ b[2] = "count" /\ b[3] = "head"
  BY DEF Materialize
<1> HIDE DEF S, a, b
<1>3. /\ a \o b \in Seq(S) /\ Len(a \o b) = Len(a) + Len(b)
      /\ \A i \in 1 .. Len(a) + Len(b) :
           (a \o b)[i] = IF i <= Len(a) THEN a[i] ELSE b[i - Len(a)]
  BY <1>1, <1>2, ConcatProperties
<1>4. /\ Len(a \o b) = 4 /\ DOMAIN (a \o b) = 1 .. 4 /\ (a \o b)[1] = s
      /\ (a \o b)[2] = "create" /\ (a \o b)[3] = "count" /\ (a \o b)[4] = "head"
  BY <1>1, <1>2, <1>3, LenProperties
<1> QED
  BY <1>4 DEF a, b

(* Every tool is well formed.                                              *)
LEMMA ToolsWellFormed ==
  ASSUME NEW c \in Calls
  PROVE  WellFormed(Tool[c])
<1> DEFINE t == Tool[c]
<1>1. \/ t = <<"query">> \/ t = <<"query", "query">> \/ t = <<"script">>
      \/ t = Materialize \/ t = <<"set_box">> \o Materialize
      \/ t = <<"query">> \o Materialize
  BY McpAssumption
     DEF Tools, DescribeDataset, EstimateCost, ListTables, DescribeTable, ReadRegion,
         ZonalStats, ExtractPointTimeseries, RunSqlQuery, RunSqlDirect
<1> HIDE DEF t
<1>2. CASE t = <<"query">> \/ t = <<"script">>
  <2>1. Len(t) = 1 /\ DOMAIN t = 1 .. 1 /\ t[1] \in {"query", "script"}
    BY <1>2
  <2> QED
    BY <2>1 DEF WellFormed, t
<1>3. CASE t = <<"query", "query">>
  <2>1. Len(t) = 2 /\ DOMAIN t = 1 .. 2 /\ t[1] = "query" /\ t[2] = "query"
    BY <1>3
  <2> QED
    BY <2>1 DEF WellFormed, t
<1>4. CASE t = Materialize
  <2>1. /\ Len(t) = 3 /\ DOMAIN t = 1 .. 3
        /\ t[1] = "create" /\ t[2] = "count" /\ t[3] = "head"
    BY <1>4 DEF Materialize
  <2> QED
    BY <2>1 DEF WellFormed, t
<1>5. ASSUME NEW s \in {"set_box", "query"}, t = <<s>> \o Materialize
      PROVE  WellFormed(t)
  <2>1. /\ Len(t) = 4 /\ DOMAIN t = 1 .. 4
        /\ t[1] = s /\ t[2] = "create" /\ t[3] = "count" /\ t[4] = "head"
    BY <1>5, BeforeMaterialize
  <2> QED
    BY <2>1 DEF WellFormed
<1> QED
  BY <1>1, <1>2, <1>3, <1>4, <1>5 DEF t

(* A call without a number of its own state changes keeps its part of the    *)
(* invariant while another one acts: what changes the session is done by    *)
(* its holder, tables are added, or replaced by one that knows its           *)
(* predecessors, and no table appears in another's name.                   *)
LEMMA OthersKeepInv ==
  ASSUME Inv, NEW c \in Calls, NEW d \in Calls \ {c},
         pc'[d] = pc[d], step'[d] = step[d], answer'[d] = answer[d],
         handle'[d] = handle[d], seen'[d] = seen[d], watchdog'[d] = watchdog[d],
         holder' = d <=> holder = d,
         (tables' = tables /\ z_bbox' = z_bbox) \/ holder = c,
         \A n \in DOMAIN tables :
           /\ n \in DOMAIN tables'
           /\ {tables[n].by} \cup tables[n].over
                \subseteq {tables'[n].by} \cup tables'[n].over,
         \A n \in DOMAIN tables' :
           tables'[n].by = c \/ (n \in DOMAIN tables /\ tables'[n] = tables[n])
  PROVE  CallInv(d)'
<1> USE DEF Inv
<1>0. CallInv(d)
  OBVIOUS
<1>1. Finished(d)' = Finished(d)
  BY DEF Finished
<1>2. \A s : Succeeded(d, s)' <=> Succeeded(d, s)
  BY <1>1 DEF Succeeded
<1>3. Mutex(d)' /\ Watched(d)' /\ Fresh(d)' /\ SeenOwn(d)' /\ Numbered(d)'
  BY <1>0 DEF CallInv, Mutex, Watched, Fresh, Alive, SeenOwn, Numbered
<1>4. Owned(d)'
  BY <1>0, <1>2 DEF CallInv, Owned
<1>5. Named(d)'
  BY <1>0, <1>2 DEF CallInv, Named
<1>6. Boxed(d)'
  BY <1>0, <1>2 DEF CallInv, Boxed
<1>7. OwnBox(d)'
  BY <1>0 DEF CallInv, OwnBox
<1> QED
  BY <1>3, <1>4, <1>5, <1>6, <1>7 DEF CallInv

(* What an action of c keeps of c's own part: its results and the session's  *)
(* tables are unchanged, or c comes to hold the session and starts afresh.   *)
LEMMA OwnKept ==
  ASSUME Inv, NEW c \in Calls,
         UNCHANGED <<step, answer, handle, seen, tables, z_bbox>>,
         holder' = c => holder = c \/ pc[c] = "waiting"
  PROVE  /\ Owned(c)' /\ Named(c)' /\ Numbered(c)'
         /\ SeenOwn(c)' /\ Boxed(c)' /\ OwnBox(c)'
<1>1. CallInv(c)
  BY DEF Inv
<1>2. \A s : Succeeded(c, s)' <=> Succeeded(c, s)
  BY DEF Succeeded, Finished
<1>3. pc[c] = "waiting" => \A s : ~Succeeded(c, s)
  BY <1>1 DEF CallInv, Fresh, Succeeded, Finished, Inv, TypeOK
<1>4. Named(c)' /\ Numbered(c)' /\ SeenOwn(c)' /\ OwnBox(c)'
  BY <1>1, <1>2 DEF CallInv, Named, Numbered, SeenOwn, OwnBox
<1>5. Owned(c)' /\ Boxed(c)'
  BY <1>1, <1>2, <1>3 DEF CallInv, Owned, Boxed
<1> QED
  BY <1>4, <1>5

(* run's own steps outside the tool keep the invariant.                    *)
LEMMA RunKeepsInv ==
  ASSUME Inv, NEW c \in Calls, Lock(c) \/ Abort(c) \/ Unlock(c) \/ Panic(c)
  PROVE  Inv'
<1>1. Shapes /\ TypeOK /\ CallInv(c) /\ \A d \in Calls : Mutex(d)
  BY DEF Inv, CallInv
<1>2. /\ UNCHANGED <<step, answer, handle, seen, result_seq, tables, z_bbox>>
      /\ \A d \in Calls \ {c} : pc'[d] = pc[d] /\ watchdog'[d] = watchdog[d]
      /\ Shapes'
  BY <1>1 DEF Lock, Abort, Unlock, Panic, Goto, result, session, timer, Shapes
<1>3. /\ holder' = c => holder = c \/ pc[c] = "waiting"
      /\ \A d \in Calls \ {c} : holder' = d <=> holder = d
  BY <1>1, McpAssumption DEF Lock, Abort, Unlock, Panic, Mutex, Holding
<1>4. Mutex(c)' /\ Watched(c)' /\ Fresh(c)'
  BY <1>1, McpAssumption
     DEF Lock, Abort, Unlock, Panic, Goto, timer, result, Shapes, CallInv, Mutex, Watched,
         Fresh, Alive, Holding
<1>5. CallInv(c)'
  BY <1>2, <1>3, <1>4, OwnKept DEF CallInv
<1>6. \A d \in Calls \ {c} : CallInv(d)'
  BY <1>2, <1>3, OthersKeepInv
<1>7. TypeOK'
  <2>1. holder' \in Calls \cup {NoCall}
    BY <1>1 DEF Lock, Abort, Unlock, Panic, TypeOK
  <2>2. /\ pc'[c] \in {"waiting", "ready", "running", "returned", "aborted", "done", "panicked"}
        /\ watchdog'[c] \in Watchdogs
        /\ answer[c] = "none" <=> pc'[c] \notin {"returned", "aborted", "done"}
    BY <1>1 DEF Lock, Abort, Unlock, Panic, Goto, timer, Shapes, TypeOK, Watchdogs
  <2> QED
    BY <1>1, <1>2, <2>1, <2>2 DEF TypeOK
<1> QED
  BY <1>2, <1>5, <1>6, <1>7 DEF Inv

(* The watchdogs keep the invariant: they change no call and no table.      *)
LEMMA WatchKeepsInv ==
  ASSUME Inv, NEW c \in Calls,
         TimeElapses(c) \/ Notify(c) \/ Notified(c) \/ Expire(c) \/ Fire(c)
  PROVE  Inv'
<1>1. Shapes /\ TypeOK /\ CallInv(c)
  BY DEF Inv
<1>2. /\ UNCHANGED <<holder, pc, step, answer, handle, seen, result_seq, tables, z_bbox>>
      /\ \A d \in Calls \ {c} : watchdog'[d] = watchdog[d]
      /\ Shapes'
  BY <1>1 DEF TimeElapses, Notify, Notified, Expire, Fire, result, session, Shapes
<1>3. watchdog'[c] \in Watchdogs /\ (Alive(c)' => Alive(c))
  BY <1>1 DEF TimeElapses, Notify, Notified, Expire, Fire, Shapes, TypeOK, Watchdogs, Alive
<1>4. CallInv(c)'
  BY <1>1, <1>2, <1>3, OwnKept DEF CallInv, Mutex, Watched, Fresh
<1>5. \A d \in Calls \ {c} : CallInv(d)'
  BY <1>2, OthersKeepInv
<1>6. TypeOK'
  BY <1>1, <1>2, <1>3 DEF TypeOK
<1> QED
  BY <1>2, <1>4, <1>5, <1>6 DEF Inv

(* A statement starts: a call numbers its table at most once.               *)
LEMMA BeginKeepsInv ==
  ASSUME Inv, NEW c \in Calls, Begin(c)
  PROVE  Inv'
<1>1. Shapes /\ TypeOK /\ CallInv(c) /\ WellFormed(Tool[c])
  BY ToolsWellFormed DEF Inv
<1>2. /\ UNCHANGED <<holder, step, answer, seen, tables, z_bbox, watchdog>>
      /\ \A d \in Calls \ {c} : pc'[d] = pc[d] /\ handle'[d] = handle[d]
      /\ pc[c] = "ready" /\ pc'[c] = "running"
      /\ Shapes'
  BY <1>1 DEF Begin, Goto, timer, Shapes
<1>3. /\ \A s : Succeeded(c, s)' <=> Succeeded(c, s)
      /\ answer[c] = "none" /\ step[c] \in DOMAIN Tool[c]
  BY <1>1, <1>2 DEF Succeeded, Finished, TypeOK, WellFormed
<1>4. Mutex(c)' /\ Watched(c)' /\ Fresh(c)' /\ SeenOwn(c)' /\ Boxed(c)' /\ OwnBox(c)'
  BY <1>1, <1>2, <1>3 DEF CallInv, Mutex, Watched, Fresh, Alive, Holding, SeenOwn, Boxed, OwnBox
<1>5. CASE Statement(c) = "create"
  <2>1. handle'[c] = result_seq /\ result_seq' = result_seq + 1
    BY <1>1, <1>5 DEF Begin, Shapes
  <2>2. ~Succeeded(c, "create")
    BY <1>1, <1>2, <1>3, <1>5, SMTT(30) DEF Succeeded, Finished, Statement, WellFormed, TypeOK
  <2>3. Owned(c)' /\ Named(c)' /\ Numbered(c)'
    BY <1>1, <1>2, <1>3, <1>5, <2>1, <2>2
       DEF Owned, Named, Numbered, Statement, WellFormed, TypeOK
  <2> QED
    BY <1>1, <1>2, <2>1, <1>4, <2>3, OthersKeepInv DEF Inv, CallInv, TypeOK
<1>6. CASE Statement(c) # "create"
  <2>1. UNCHANGED <<handle, result_seq>>
    BY <1>6 DEF Begin
  <2>2. Owned(c)' /\ Named(c)' /\ Numbered(c)'
    BY <1>1, <1>2, <1>3, <2>1 DEF CallInv, Owned, Named, Numbered
  <2> QED
    BY <1>1, <1>2, <2>1, <1>4, <2>2, OthersKeepInv DEF Inv, CallInv, TypeOK
<1> QED
  BY <1>5, <1>6

(* An error ends the tool and leaves its results and the session alone.     *)
LEMMA ErrorKeepsInv ==
  ASSUME Inv, NEW c \in Calls, Fail(c) \/ Interrupted(c)
  PROVE  Inv'
<1>1. Shapes /\ TypeOK /\ CallInv(c)
  BY DEF Inv
<1>2. /\ UNCHANGED <<holder, step, handle, seen, tables, z_bbox, watchdog, result_seq>>
      /\ \A d \in Calls \ {c} : pc'[d] = pc[d] /\ answer'[d] = answer[d]
      /\ pc[c] = "running" /\ pc'[c] = "returned" /\ answer'[c] = "error"
      /\ Shapes'
  BY <1>1 DEF Fail, Interrupted, ToolReturns, Goto, timer, session, Shapes
<1>3. answer[c] = "none"
  BY <1>1, <1>2 DEF TypeOK
<1>4. \A s : Succeeded(c, s)' <=> Succeeded(c, s)
  BY <1>2, <1>3 DEF Succeeded, Finished
<1>5. CallInv(c)'
  BY <1>1, <1>2, <1>4
     DEF CallInv, Mutex, Watched, Fresh, Alive, Holding, SeenOwn, Boxed, OwnBox, Owned, Named,
         Numbered
<1>6. \A d \in Calls \ {c} : CallInv(d)'
  BY <1>2, OthersKeepInv
<1>7. TypeOK'
  BY <1>1, <1>2 DEF TypeOK
<1> QED
  BY <1>2, <1>5, <1>6, <1>7 DEF Inv

(* The tables after one was put under a number.                            *)
LEMMA WithTableIs ==
  ASSUME NEW n, NEW entry
  PROVE  /\ DOMAIN WithTable(n, entry) = DOMAIN tables \cup {n}
         /\ WithTable(n, entry)[n] = entry
         /\ \A m \in DOMAIN tables \ {n} : WithTable(n, entry)[m] = tables[m]
  BY DEF WithTable

(* A statement that succeeds counts as succeeded, and the call goes on or    *)
(* is answered.                                                            *)
LEMMA FinishAdvances ==
  ASSUME Inv, NEW c \in Calls, Finish(c)
  PROVE  /\ Shapes' /\ TypeOK' /\ Mutex(c)' /\ Watched(c)' /\ Fresh(c)' /\ Numbered(c)'
         /\ UNCHANGED <<holder, handle, watchdog>> /\ holder = c
         /\ \A d \in Calls \ {c} :
              pc'[d] = pc[d] /\ step'[d] = step[d] /\ answer'[d] = answer[d]
         /\ \A s : Succeeded(c, s)' <=> (Succeeded(c, s) \/ Statement(c) = s)
         /\ step[c] \in DOMAIN Tool[c]
         /\ Finished(c) = 1 .. step[c] - 1
<1>1. Shapes /\ TypeOK /\ CallInv(c) /\ WellFormed(Tool[c])
  BY ToolsWellFormed DEF Inv
<1>2. /\ UNCHANGED <<holder, handle, result_seq, watchdog, late>>
      /\ pc[c] = "running" /\ answer[c] = "none" /\ holder = c
      /\ step[c] \in 1 .. Len(Tool[c]) /\ DOMAIN Tool[c] = 1 .. Len(Tool[c])
      /\ Len(Tool[c]) \in Nat
  BY <1>1 DEF Finish, timer, TypeOK, CallInv, Mutex, Holding, WellFormed
<1>3. DOMAIN seen' = Calls
  BY <1>1 DEF Finish, Effect, Shapes
<1>4. /\ \/ /\ step[c] = Len(Tool[c]) /\ step' = step
            /\ answer'[c] = "ok" /\ pc'[c] = "returned"
         \/ /\ step[c] # Len(Tool[c]) /\ step'[c] = step[c] + 1
            /\ answer'[c] = "none" /\ pc'[c] = "ready"
      /\ \A d \in Calls \ {c} :
           pc'[d] = pc[d] /\ step'[d] = step[d] /\ answer'[d] = answer[d]
      /\ DOMAIN step' = Calls /\ DOMAIN pc' = Calls /\ DOMAIN answer' = Calls
  BY <1>1, <1>2 DEF Finish, ToolReturns, Goto, Shapes
<1>5. Shapes'
  BY <1>1, <1>2, <1>3, <1>4 DEF Shapes
<1>6. TypeOK'
  BY <1>1, <1>2, <1>4 DEF TypeOK
<1>7. Finished(c) = 1 .. step[c] - 1 /\ Finished(c)' = 1 .. step[c]
  BY <1>2, <1>4 DEF Finished
<1>8. \A s : Succeeded(c, s)' <=> (Succeeded(c, s) \/ Statement(c) = s)
  BY <1>2, <1>7 DEF Succeeded, Statement
<1>9. Mutex(c)' /\ Watched(c)' /\ Fresh(c)' /\ Numbered(c)'
  BY <1>1, <1>2, <1>4 DEF CallInv, Mutex, Watched, Fresh, Alive, Holding, Numbered
<1> QED
  BY <1>2, <1>4, <1>5, <1>6, <1>7, <1>8, <1>9

(* A statement that succeeds keeps the invariant.  A table is created under  *)
(* a number that is free, from the box the call has set; rows are read from  *)
(* the table that was created; and run_sql's statement is none of these.    *)
LEMMA FinishKeepsInv ==
  ASSUME Inv, NEW c \in Calls, Finish(c)
  PROVE  Inv'
<1> DEFINE n == handle[c]
<1>1. /\ Shapes' /\ TypeOK' /\ Mutex(c)' /\ Watched(c)' /\ Fresh(c)' /\ Numbered(c)'
      /\ UNCHANGED <<holder, handle, watchdog>> /\ holder = c
      /\ \A d \in Calls \ {c} :
           pc'[d] = pc[d] /\ step'[d] = step[d] /\ answer'[d] = answer[d]
      /\ \A s : Succeeded(c, s)' <=> (Succeeded(c, s) \/ Statement(c) = s)
      /\ step[c] \in DOMAIN Tool[c] /\ Finished(c) = 1 .. step[c] - 1
  BY FinishAdvances
<1>2. Shapes /\ TypeOK /\ CallInv(c) /\ WellFormed(Tool[c]) /\ Effect(c)
  BY ToolsWellFormed DEF Inv, Finish
<1>3. SUFFICES /\ Owned(c)' /\ Named(c)' /\ SeenOwn(c)' /\ Boxed(c)' /\ OwnBox(c)'
               /\ \A d \in Calls \ {c} : seen'[d] = seen[d]
               /\ \A m \in DOMAIN tables :
                    /\ m \in DOMAIN tables'
                    /\ {tables[m].by} \cup tables[m].over
                         \subseteq {tables'[m].by} \cup tables'[m].over
               /\ \A m \in DOMAIN tables' :
                    tables'[m].by = c \/ (m \in DOMAIN tables /\ tables'[m] = tables[m])
  <2>1. \A d \in Calls \ {c} : CallInv(d)'
    BY <1>1, <1>3, OthersKeepInv
  <2> QED
    BY <1>1, <1>3, <2>1 DEF Inv, CallInv
<1>4. CASE Statement(c) = "query" /\ UNCHANGED <<tables, z_bbox, seen>>
  BY <1>1, <1>2, <1>4 DEF CallInv, Owned, Named, SeenOwn, Boxed, OwnBox
<1>5. CASE Statement(c) = "set_box" /\ z_bbox' = c /\ UNCHANGED <<tables, seen>>
  BY <1>1, <1>2, <1>5 DEF CallInv, Owned, Named, SeenOwn, Boxed, OwnBox
<1>6. CASE /\ Statement(c) = "create" /\ n \notin DOMAIN tables
           /\ tables' = WithTable(n, [by |-> c, box |-> z_bbox, over |-> {}])
           /\ UNCHANGED <<z_bbox, seen>>
  <2> DEFINE entry == [by |-> c, box |-> z_bbox, over |-> {}]
  <2>1. entry.by = c /\ entry.box = z_bbox
    OBVIOUS
  <2> HIDE DEF entry
  <2>2. /\ DOMAIN tables' = DOMAIN tables \cup {n} /\ tables'[n] = entry
        /\ \A m \in DOMAIN tables : tables'[m] = tables[m]
    BY <1>6, WithTableIs DEF entry
  <2>3. Zonal(c) => Succeeded(c, "set_box")
    BY <1>1, <1>2, <1>6 DEF Zonal, Succeeded, Statement, WellFormed
  <2>4. OwnBox(c)'
    BY <1>1, <1>2, <2>1, <2>2, <2>3 DEF CallInv, Boxed, OwnBox, Zonal
  <2>5. Owned(c)' /\ Named(c)'
    BY <1>1, <2>1, <2>2 DEF Owned, Named
  <2>6. SeenOwn(c)' /\ Boxed(c)'
    BY <1>1, <1>2, <1>6 DEF CallInv, SeenOwn, Boxed, Zonal
  <2> QED
    BY <1>6, <2>1, <2>2, <2>4, <2>5, <2>6, SMTT(30)
<1>7. CASE /\ Statement(c) \in {"count", "head"} /\ n \in DOMAIN tables
           /\ seen' = [seen EXCEPT ![c] = @ \cup {tables[n].by}]
           /\ UNCHANGED <<tables, z_bbox>>
  <2>1. Succeeded(c, "create")
    BY <1>1, <1>2, <1>7 DEF Succeeded, Statement, WellFormed
  <2>2. tables[n].by = c
    BY <1>1, <1>2, <2>1 DEF CallInv, Owned
  <2>3. SeenOwn(c)' /\ \A d \in Calls \ {c} : seen'[d] = seen[d]
    BY <1>2, <1>7, <2>2 DEF CallInv, SeenOwn, Shapes
  <2> QED
    BY <1>1, <1>2, <1>7, <2>3 DEF CallInv, Owned, Named, Boxed, OwnBox
<1>8. CASE /\ Statement(c) = "script" /\ seen' = seen
           /\ \/ z_bbox' = c /\ tables' = tables
              \/ /\ \E m \in ScriptNames :
                      tables' = WithTable(m, [by |-> c, box |-> NoCall, over |-> Replaced(m)])
                 /\ z_bbox' = z_bbox
  <2>1. ~Zonal(c) /\ ~Succeeded(c, "create") /\ ~Succeeded(c, "set_box")
    BY <1>1, <1>2, <1>8 DEF Zonal, Succeeded, Finished, Statement, WellFormed
  <2>2. SeenOwn(c)' /\ Owned(c)' /\ Named(c)' /\ Boxed(c)' /\ OwnBox(c)'
    BY <1>1, <1>2, <1>8, <2>1 DEF CallInv, SeenOwn, Owned, Named, Boxed, OwnBox, Zonal
  <2>3. ASSUME NEW m,
               tables' = WithTable(m, [by |-> c, box |-> NoCall, over |-> Replaced(m)])
        PROVE  /\ \A k \in DOMAIN tables :
                    /\ k \in DOMAIN tables'
                    /\ {tables[k].by} \cup tables[k].over
                         \subseteq {tables'[k].by} \cup tables'[k].over
               /\ \A k \in DOMAIN tables' :
                    tables'[k].by = c \/ (k \in DOMAIN tables /\ tables'[k] = tables[k])
    <3> DEFINE entry == [by |-> c, box |-> NoCall, over |-> Replaced(m)]
    <3>1. entry.by = c /\ entry.over = Replaced(m)
      OBVIOUS
    <3>2. tables' = WithTable(m, entry)
      BY <2>3
    <3> HIDE DEF entry
    <3>3. /\ DOMAIN tables' = DOMAIN tables \cup {m} /\ tables'[m] = entry
          /\ \A k \in DOMAIN tables \ {m} : tables'[k] = tables[k]
      BY <3>2 DEF WithTable
    <3>4. m \in DOMAIN tables => {tables[m].by} \cup tables[m].over = entry.over
      BY <3>1 DEF Replaced
    <3> QED
      BY <3>1, <3>3, <3>4
  <2> QED
    BY <1>8, <2>2, <2>3
<1> QED
  BY <1>2, <1>4, <1>5, <1>6, <1>7, <1>8 DEF Effect

-----------------------------------------------------------------------------
(* The invariant holds before any call has come.                           *)
LEMMA InitInv == Init => Inv
<1> SUFFICES ASSUME Init PROVE Inv
  OBVIOUS
<1>1. Shapes
  BY DEF Init, Shapes
<1>2. TypeOK
  BY ToolsWellFormed DEF Init, TypeOK, Watchdogs, WellFormed
<1>3. ASSUME NEW c \in Calls PROVE CallInv(c)
  <2>1. /\ pc[c] = "waiting" /\ step[c] = 1 /\ answer[c] = "none" /\ handle[c] = -1
        /\ seen[c] = {} /\ watchdog[c] = "off" /\ holder # c /\ DOMAIN tables = {}
    BY McpAssumption DEF Init
  <2>2. \A s : ~Succeeded(c, s)
    BY <2>1 DEF Succeeded, Finished
  <2> QED
    BY <2>1, <2>2
       DEF CallInv, Mutex, Watched, Fresh, Alive, Holding, Owned, Named, Numbered, SeenOwn,
           Boxed, OwnBox
<1> QED
  BY <1>1, <1>2, <1>3 DEF Inv

(* Every step keeps it.                                                    *)
LEMMA NextInv == Inv /\ [Next]_vars => Inv'
<1> SUFFICES ASSUME Inv, [Next]_vars PROVE Inv'
  OBVIOUS
<1>1. ASSUME NEW c \in Calls, Run(c) \/ Panic(c)
      PROVE  Inv'
  BY <1>1, RunKeepsInv, BeginKeepsInv, FinishKeepsInv, ErrorKeepsInv DEF Run
<1>2. ASSUME NEW c \in Calls, Watch(c) \/ Notify(c) \/ Notified(c) \/ TimeElapses(c)
      PROVE  Inv'
  BY <1>2, WatchKeepsInv DEF Watch
<1>3. CASE UNCHANGED vars
  BY <1>3
     DEF vars, Inv, Shapes, TypeOK, CallInv, Mutex, Watched, Fresh, Alive, Holding, Owned,
         Named, Numbered, SeenOwn, Boxed, OwnBox, Succeeded, Finished
<1> QED
  BY <1>1, <1>2, <1>3 DEF Next, Idle

(* It is an invariant of the server.                                       *)
LEMMA InvHolds == Spec => []Inv
  BY InitInv, NextInv, PTL DEF Spec

(* Every call is in one state of run and of its tool, and has an answer      *)
(* exactly when its tool has returned.                                     *)
THEOREM SessionTyped == Spec => []TypeOK
<1>1. Inv => TypeOK
  BY DEF Inv
<1> QED
  BY <1>1, InvHolds, PTL

(* The count and rows of an answer are those of the call's own table, and a  *)
(* zonal result is computed from its own box, whatever the other calls do.   *)
THEOREM AnswersAreOwn == Spec => []AnswerOwn
<1>1. Inv => AnswerOwn
  BY DEF Inv, CallInv, SeenOwn, OwnBox, AnswerOwn
<1> QED
  BY <1>1, InvHolds, PTL

(* The handle of an answered call names its table for as long as the session *)
(* lives, unless run_sql replaced that table by its name.                   *)
THEOREM HandlesHold == Spec => []HandleHolds
<1>1. ASSUME Inv, NEW c \in Calls, answer[c] = "ok", handle[c] >= 0
      PROVE  Succeeded(c, "create")
  BY <1>1, ToolsWellFormed DEF Inv, CallInv, Numbered, Succeeded, Finished, WellFormed
<1>2. Inv => HandleHolds
  BY <1>1 DEF Inv, CallInv, Named, HandleHolds
<1> QED
  BY <1>2, InvHolds, PTL

(* A watchdog that can still fire is that of the call that holds the session, *)
(* or of one that panicked.                                                *)
THEOREM WatchdogsOfHolder == Spec => []WatchdogOfHolder
<1>1. Inv => WatchdogOfHolder
  BY DEF Inv, CallInv, Mutex, Watched, Holding, WatchdogOfHolder, InTool
<1> QED
  BY <1>1, InvHolds, PTL

=============================================================================
