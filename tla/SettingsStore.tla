--------------------------- MODULE SettingsStore ---------------------------
(***************************************************************************)
(* settings_store.py, statement by statement, for several application       *)
(* instances that share one SQLite file. Every public call opens its own     *)
(* connection, which creates the tables and migrates an older schema, and     *)
(* then runs one transaction. Schema statements commit by themselves; the    *)
(* first DELETE takes SQLite's write lock until commit or rollback.          *)
(*                                                                         *)
(* Rows are represented by the value they were saved from; a version that   *)
(* is not a number is represented by one that is too high.                 *)
(***************************************************************************)
EXTENDS Naturals, Sequences

CONSTANTS Instances,  \* the application instances
          Values,     \* what they save
          Empty,      \* a table without rows
          None

ASSUME StoreAssumption == None \notin Instances /\ Empty \notin Values

DB_SCHEMA_VERSION == 3
NoRow == 0            \* meta has no db_schema_version
StructuredColumns == {"kind", "metadata"}
TableNames == {"settings", "history"}
Tables == [settings : Values \cup {Empty}, history : Values \cup {Empty}]

VARIABLES
  version,   \* db_schema_version in the meta table
  legacy,    \* whether meta has the schema_version row of the first releases
  created,   \* the tables that exist
  columns,   \* the columns calculation_history has been given
  table,     \* the committed rows
  lock,      \* the instance that holds the write lock
  request,   \* the call each instance is in
  reply,     \* how its last call ended; load and load_history log an error
  conn       \* its connection: the next statement and the local variables

schemaVars == <<version, legacy, created, columns>>
vars == <<schemaVars, table, lock, request, reply, conn>>

Steps == {"read", "settings", "history", "columns", "kind", "metadata",
          "version", "write", "close"}

\* load and load_history differ in the table they SELECT from.
Requests ==
  [op : {"save", "save_history", "save_state"}, value : Values]
  \cup [op : {"reset_defaults", "load"}]

-----------------------------------------------------------------------------
(***************************************************************************)
(* The transaction of each call, as the statements it executes.            *)
(***************************************************************************)
Statements == [name : TableNames, rows : Values \cup {Empty}]
Scripts == UNION {[1..n -> Statements] : n \in 0..4}

Delete(t) == <<[name |-> t, rows |-> Empty]>>
Replace(t, v) == Delete(t) \o <<[name |-> t, rows |-> v]>>

Script(r) ==
  CASE r.op = "save" -> Replace("settings", r.value)
    [] r.op = "save_history" -> Replace("history", r.value)
    [] r.op = "save_state" -> Replace("settings", r.value) \o Replace("history", r.value)
    [] r.op = "reset_defaults" -> Delete("settings") \o Delete("history")
    [] OTHER -> <<>>

\* What a call is for, however it is carried out.
Written(r, t) ==
  [settings |-> IF r.op \in {"save", "save_state"} THEN r.value
                ELSE IF r.op = "reset_defaults" THEN Empty ELSE t.settings,
   history |-> IF r.op \in {"save_history", "save_state"} THEN r.value
               ELSE IF r.op = "reset_defaults" THEN Empty ELSE t.history]

-----------------------------------------------------------------------------
\* A new file, and what each release left behind. Version 1 had a schema_version
\* row; some of its databases already had the structured columns.
Init ==
  /\ \/ /\ version = NoRow /\ legacy = "no"
        /\ created = {} /\ columns = {}
        /\ table = [settings |-> Empty, history |-> Empty]
     \/ /\ created = TableNames
        /\ \E v \in Values : table = [settings |-> v, history |-> v]
        /\ \/ version = NoRow /\ legacy = "yes" /\ columns \in {{}, StructuredColumns}
           \/ version = 2 /\ legacy = "no" /\ columns = {}
           \/ version \in {3, 4} /\ legacy = "no" /\ columns = StructuredColumns
  /\ lock = None
  /\ request = [p \in Instances |-> None]
  /\ reply = [p \in Instances |-> None]
  /\ conn = [p \in Instances |-> None]

\* The public methods: the values are encoded, then _connect is called.
Call(p, r) ==
  /\ request[p] = None
  /\ request' = [request EXCEPT ![p] = r]
  /\ reply' = [reply EXCEPT ![p] = None]
  /\ conn' = [conn EXCEPT ![p] = [at |-> "read", version |-> NoRow, seen |-> {},
                                  left |-> Script(r), work |-> None]]
  /\ UNCHANGED <<schemaVars, table, lock>>

At(p, step) == conn[p] # None /\ conn[p].at = step
Goto(p, step) == conn' = [conn EXCEPT ![p].at = step]
Unlocked(p) == lock \in {None, p}

-----------------------------------------------------------------------------
(***************************************************************************)
(* _connect                                                                *)
(***************************************************************************)

ReadVersionUnchecked(p) ==
  LET v == IF version # NoRow THEN version
           ELSE IF legacy = "yes" THEN 1 ELSE DB_SCHEMA_VERSION IN
  /\ At(p, "read")
  /\ conn' = [conn EXCEPT ![p].at = "settings", ![p].version = v]
  /\ UNCHANGED <<schemaVars, table, lock, request, reply>>

\* A version out of range raises: see Abort.
ReadVersion(p) ==
  LET v == IF version # NoRow THEN version
           ELSE IF legacy = "yes" THEN 1 ELSE DB_SCHEMA_VERSION IN
  /\ At(p, "read")
  /\ v \in 1..DB_SCHEMA_VERSION
  /\ conn' = [conn EXCEPT ![p].at = "settings", ![p].version = v]
  /\ UNCHANGED <<schemaVars, table, lock, request, reply>>

\* _create_current_tables: IF NOT EXISTS only takes the lock if it does not.
CreateSettings(p) ==
  /\ At(p, "settings")
  /\ "settings" \in created \/ Unlocked(p)
  /\ created' = created \cup {"settings"}
  /\ Goto(p, "history")
  /\ UNCHANGED <<version, legacy, columns, table, lock, request, reply>>

CreateHistory(p) ==
  /\ At(p, "history")
  /\ "history" \in created \/ Unlocked(p)
  /\ created' = created \cup {"history"}
  /\ columns' = IF "history" \in created THEN columns ELSE StructuredColumns
  /\ Goto(p, IF conn[p].version < DB_SCHEMA_VERSION THEN "columns" ELSE "version")
  /\ UNCHANGED <<version, legacy, table, lock, request, reply>>

\* _migrate: from 1 to 2 nothing is done; from 2 to 3 the columns are looked at
\* and then added one by one. ALTER TABLE raises for a column that exists.
ReadColumns(p) ==
  /\ At(p, "columns")
  /\ conn' = [conn EXCEPT ![p].at = "kind", ![p].seen = columns]
  /\ UNCHANGED <<schemaVars, table, lock, request, reply>>

AddColumn(p, c) ==
  IF c \in conn[p].seen
    THEN UNCHANGED columns
    ELSE /\ Unlocked(p)
         /\ c \notin columns
         /\ columns' = columns \cup {c}

AddKind(p) ==
  /\ At(p, "kind")
  /\ AddColumn(p, "kind")
  /\ Goto(p, "metadata")
  /\ UNCHANGED <<version, legacy, created, table, lock, request, reply>>

\* Mutant of AddMetadata: a table that has one column is taken to have both.
AddMetadataIfNoKind(p) ==
  /\ At(p, "metadata")
  /\ IF "kind" \in conn[p].seen THEN UNCHANGED columns ELSE AddColumn(p, "metadata")
  /\ conn' = [conn EXCEPT ![p].at = "version", ![p].version = 3]
  /\ UNCHANGED <<version, legacy, created, table, lock, request, reply>>

AddMetadata(p) ==
  /\ At(p, "metadata")
  /\ AddColumn(p, "metadata")
  /\ conn' = [conn EXCEPT ![p].at = "version", ![p].version = 3]
  /\ UNCHANGED <<version, legacy, created, table, lock, request, reply>>

\* INSERT OR REPLACE and commit; the local variables of _connect are gone.
WriteVersion(p) ==
  /\ At(p, "version")
  /\ Unlocked(p)
  /\ version' = conn[p].version
  /\ conn' = [conn EXCEPT ![p].at = "write", ![p].version = NoRow, ![p].seen = {}]
  /\ UNCHANGED <<legacy, created, columns, table, lock, request, reply>>

-----------------------------------------------------------------------------
(***************************************************************************)
(* with connection: the statements of the call, then commit.               *)
(***************************************************************************)

\* Mutant of Execute: every statement is committed by itself.
ExecuteAutocommit(p) ==
  LET s == Head(conn[p].left) IN
  /\ At(p, "write")
  /\ conn[p].left # <<>>
  /\ Unlocked(p)
  /\ table' = [table EXCEPT ![s.name] = s.rows]
  /\ conn' = [conn EXCEPT ![p].left = Tail(@), ![p].work = table']
  /\ UNCHANGED <<schemaVars, lock, request, reply>>

Execute(p) ==
  LET s == Head(conn[p].left)
      rows == IF conn[p].work = None THEN table ELSE conn[p].work IN
  /\ At(p, "write")
  /\ conn[p].left # <<>>
  /\ Unlocked(p)
  /\ lock' = p
  /\ conn' = [conn EXCEPT ![p].left = Tail(@),
                          ![p].work = [rows EXCEPT ![s.name] = s.rows]]
  /\ UNCHANGED <<schemaVars, table, request, reply>>

\* The SELECT of a load, or the commit.
Commit(p) ==
  /\ At(p, "write")
  /\ conn[p].left = <<>>
  /\ table' = IF conn[p].work = None THEN table ELSE conn[p].work
  /\ lock' = IF lock = p THEN None ELSE lock
  /\ Goto(p, "close")
  /\ UNCHANGED <<schemaVars, request, reply>>

\* Mutant of Leave: the connection of a call that raised is left open.
LeaveLocked(p) ==
  /\ conn' = [conn EXCEPT ![p] = None]
  /\ request' = [request EXCEPT ![p] = None]
  /\ UNCHANGED lock

\* The connection is closed, or dies with its process: SQLite rolls back.
Leave(p) ==
  /\ conn' = [conn EXCEPT ![p] = None]
  /\ request' = [request EXCEPT ![p] = None]
  /\ lock' = IF lock = p THEN None ELSE lock

Close(p) ==
  /\ At(p, "close")
  /\ Leave(p)
  /\ reply' = [reply EXCEPT ![p] = "ok"]
  /\ UNCHANGED <<schemaVars, table>>

\* Any step up to the commit raises: an unsupported version, a column another
\* instance has just added, a lock not freed in time, a disk error.
Abort(p) ==
  /\ conn[p] # None
  /\ ~At(p, "close")
  /\ Leave(p)
  /\ reply' = [reply EXCEPT ![p] = "error"]
  /\ UNCHANGED <<schemaVars, table>>

Crash(p) ==
  /\ conn[p] # None
  /\ Leave(p)
  /\ UNCHANGED <<schemaVars, table, reply>>

Advance(p) ==
  \/ ReadVersion(p)
  \/ CreateSettings(p)
  \/ CreateHistory(p)
  \/ ReadColumns(p)
  \/ AddKind(p)
  \/ AddMetadata(p)
  \/ WriteVersion(p)
  \/ Execute(p)
  \/ Commit(p)
  \/ Close(p)

Next ==
  \E p \in Instances :
    \/ \E r \in Requests : Call(p, r)
    \/ Advance(p)
    \/ Abort(p)
    \/ Crash(p)

Spec == Init /\ [][Next]_vars

\* A call runs on, and a statement that cannot run raises: sqlite3 gives up on a
\* lock after five seconds. No call is assumed to succeed.
Fairness == \A p \in Instances : WF_vars(Advance(p) \/ Abort(p))

FairSpec == Spec /\ Fairness

-----------------------------------------------------------------------------
(***************************************************************************)
(* Properties.                                                             *)
(***************************************************************************)

Connections ==
  [at : Steps, version : 0..DB_SCHEMA_VERSION, seen : SUBSET StructuredColumns,
   left : Scripts, work : Tables \cup {None}]

ASSUME NoneIsNoValue == None \notin Connections \cup Requests \cup Tables

\* The schema, the rows and every connection have their types; a connection never
\* goes on with a version this release does not know.
TypeOK ==
  /\ version \in 0..(DB_SCHEMA_VERSION + 1)
  /\ legacy \in {"no", "yes"}
  /\ created \subseteq TableNames
  /\ columns \subseteq StructuredColumns
  /\ table \in Tables
  /\ lock \in Instances \cup {None}
  /\ request \in [Instances -> Requests \cup {None}]
  /\ reply \in [Instances -> {None, "ok", "error"}]
  /\ conn \in [Instances -> Connections \cup {None}]

\* A database that says it has the current version has the current tables, even
\* if an instance dies between two ALTER TABLEs while another one migrates too:
\* else every later SELECT of kind and metadata would fail for good.
VersionMatchesSchema ==
  version = DB_SCHEMA_VERSION => created = TableNames /\ columns = StructuredColumns

\* A database written by a later release is never changed. (_connect)
NewerIsUntouched ==
  [][version > DB_SCHEMA_VERSION => UNCHANGED <<schemaVars, table>>]_vars

\* "Settings and history are saved in one transaction": a call takes effect at
\* one instant and entirely, an error means it took none, and neither migration
\* nor a crash nor the other instance ever changes what was saved.
Register == INSTANCE ProfileRegister
              WITH Clients <- Instances,
                   effect <- {p \in Instances : At(p, "close")}

ImplementsRegister == Register!Spec

\* The write lock is always given back, whether its transaction commits, raises or
\* dies: the other instance's next save and even its next load need it.
LockIsReleased == \A p \in Instances : lock = p ~> lock # p
=============================================================================
