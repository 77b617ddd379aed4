------------------------ MODULE SettingsStoreProofs ------------------------
(***************************************************************************)
(* Proofs about SettingsStore for any number of instances and values: type  *)
(* correctness, the schema and its version agree, a newer database is not    *)
(* touched, and the store implements ProfileRegister.                       *)
(*                                                                         *)
(* The invariant says of each connection what the code relies on without     *)
(* writing it down: which tables exist by the time it is at a statement,     *)
(* which columns it has seen, that the write lock is held exactly by a       *)
(* transaction with uncommitted rows, and that those rows and the            *)
(* statements still to be run amount to what the call is for.               *)
(***************************************************************************)
EXTENDS SettingsStore, Integers, TLAPS

\* Rows and remaining statements that lead to the target.
Completes(rows, left, target) ==
  \A t \in TableNames :
    \/ rows[t] = target[t] /\ \A k \in DOMAIN left : left[k].name # t
    \/ \E k \in DOMAIN left :
         /\ left[k].name = t
         /\ left[k].rows = target[t]
         /\ \A j \in DOMAIN left : j > k => left[j].name # t

Open(p) == conn[p] # None

\* Which connection knows what of the schema.
SchemaIsAhead(p) ==
  Open(p) =>
    /\ conn[p].at # "read" => version <= DB_SCHEMA_VERSION
    /\ conn[p].at \notin {"read", "settings"} => "settings" \in created
    /\ conn[p].at \notin {"read", "settings", "history"} => created = TableNames
    /\ conn[p].version = DB_SCHEMA_VERSION /\ "history" \in created =>
         columns = StructuredColumns
    /\ conn[p].at \in {"kind", "metadata"} => conn[p].seen \subseteq columns
    /\ conn[p].at = "metadata" => "kind" \in columns
    /\ conn[p].at = "version" => conn[p].version = DB_SCHEMA_VERSION

\* A file without any version was created by this release.
NewFileIsCurrent ==
  version = NoRow /\ legacy = "no" /\ "history" \in created => columns = StructuredColumns

SchemaInvariant ==
  /\ VersionMatchesSchema
  /\ NewFileIsCurrent
  /\ \A p \in Instances : SchemaIsAhead(p)

\* The lock is held by a transaction that has changed something, and by no other.
LockIsTheWriters ==
  \A p \in Instances :
    lock = p <=> Open(p) /\ conn[p].at = "write" /\ conn[p].work # None

CallsAreOpen == \A p \in Instances : request[p] # None <=> Open(p)

\* How far the transaction of a call has come.
TransactionIsUnderWay(p) ==
  Open(p) =>
    /\ conn[p].at \notin {"write", "close"} => conn[p].work = None
    /\ conn[p].at # "close" /\ conn[p].work = None => conn[p].left = Script(request[p])
    /\ conn[p].at = "write" /\ conn[p].work # None =>
         Completes(conn[p].work, conn[p].left, Written(request[p], table))

TransactionInvariant ==
  /\ LockIsTheWriters
  /\ CallsAreOpen
  /\ \A p \in Instances : TransactionIsUnderWay(p)

\* The inductive invariant.
IInv == TypeOK /\ SchemaInvariant /\ TransactionInvariant

-----------------------------------------------------------------------------
\* None is no value of any variable's other kind.
LEMMA NoneFacts ==
  /\ None \notin Instances /\ None \notin Connections
  /\ None \notin Requests /\ None \notin Tables
  BY StoreAssumption, NoneIsNoValue

\* A script is a sequence of at most four statements.
LEMMA ScriptsAreSequences ==
  \A s : s \in Scripts <=> s \in Seq(Statements) /\ Len(s) <= 4
<1>1. ASSUME NEW s \in Scripts PROVE s \in Seq(Statements) /\ Len(s) <= 4
  <2>1. PICK n \in 0..4 : s \in [1..n -> Statements]
    BY <1>1 DEF Scripts
  <2> QED
    BY <2>1
<1>2. ASSUME NEW s \in Seq(Statements), Len(s) <= 4 PROVE s \in Scripts
  <2>1. Len(s) \in Nat /\ s \in [1..Len(s) -> Statements]
    BY <1>2
  <2>2. Len(s) \in 0..4
    BY <1>2, <2>1
  <2> QED
    BY <2>1, <2>2 DEF Scripts
<1> QED
  BY <1>1, <1>2

\* The statements of two sequences one after the other.
LEMMA Appended ==
  ASSUME NEW S, NEW a \in Seq(S), NEW b \in Seq(S)
  PROVE  /\ a \o b \in Seq(S)
         /\ Len(a \o b) = Len(a) + Len(b)
         /\ \A k \in 1..Len(a) : (a \o b)[k] = a[k]
         /\ \A k \in 1..Len(b) : (a \o b)[Len(a) + k] = b[k]
<1>1. \A k \in 1..Len(b) : (a \o b)[Len(a) + k] = b[k]
  OBVIOUS
<1> QED
  BY <1>1

\* Replacing a table is two statements.
LEMMA ReplaceStatements ==
  ASSUME NEW t \in TableNames, NEW v \in Values
  PROVE  /\ Replace(t, v) \in Seq(Statements)
         /\ Len(Replace(t, v)) = 2
         /\ Replace(t, v)[1] = [name |-> t, rows |-> Empty]
         /\ Replace(t, v)[2] = [name |-> t, rows |-> v]
<1>1. /\ [name |-> t, rows |-> Empty] \in Statements
      /\ [name |-> t, rows |-> v] \in Statements
  BY DEF Statements
<1> QED
  BY <1>1 DEF Replace, Delete

\* A sequence of two or four statements is a script with the domain one expects.
LEMMA ShortScripts ==
  ASSUME NEW s \in Seq(Statements), Len(s) \in {2, 4}
  PROVE  s \in Scripts /\ s # <<>> /\ DOMAIN s = 1..Len(s)
<1>1. DOMAIN s = 1..Len(s) /\ Len(<<>>) = 0
  OBVIOUS
<1>2. \A n \in {2, 4} : n <= 4 /\ n # 0
  OBVIOUS
<1>3. Len(s) <= 4 /\ Len(s) # 0
  BY <1>2
<1> QED
  BY <1>1, <1>3, ScriptsAreSequences

\* Replacing a table leads to the new rows in it and to the old ones in the other.
LEMMA ReplaceCompletes ==
  ASSUME NEW t \in TableNames, NEW v \in Values, NEW rows, NEW target,
         target[t] = v, \A u \in TableNames \ {t} : target[u] = rows[u]
  PROVE  /\ Replace(t, v) \in Scripts /\ Replace(t, v) # <<>>
         /\ Completes(rows, Replace(t, v), target)
<1> DEFINE s == Replace(t, v)
<1>1. /\ s \in Seq(Statements) /\ Len(s) = 2
      /\ s[1] = [name |-> t, rows |-> Empty] /\ s[2] = [name |-> t, rows |-> v]
  BY ReplaceStatements
<1> HIDE DEF s
<1>2. s \in Scripts /\ s # <<>> /\ DOMAIN s = {1, 2}
  BY <1>1, ShortScripts
<1>3. \E k \in DOMAIN s : /\ s[k].name = t /\ s[k].rows = target[t]
                          /\ \A j \in DOMAIN s : j > k => s[j].name # t
  <2>1. 2 \in DOMAIN s /\ s[2].name = t /\ s[2].rows = target[t]
    BY <1>1, <1>2
  <2>2. \A j \in DOMAIN s : ~(j > 2)
    BY <1>2
  <2> QED
    BY <2>1, <2>2
<1>4. \A k \in DOMAIN s : s[k].name = t
  BY <1>1, <1>2
<1>5. Completes(rows, s, target)
  BY <1>3, <1>4 DEF Completes
<1> QED
  BY <1>2, <1>5 DEF s

\* The statements of every call do what the call is for.
LEMMA ScriptCompletes ==
  ASSUME NEW r \in Requests, NEW t \in Tables
  PROVE  /\ Script(r) \in Scripts
         /\ Completes(t, Script(r), Written(r, t))
         /\ Script(r) = <<>> => Written(r, t) = t
<1> USE DEF TableNames
<1>1. CASE r.op = "save"
  <2>1. r.value \in Values
    BY <1>1 DEF Requests
  <2>2. Script(r) = Replace("settings", r.value)
    BY <1>1 DEF Script
  <2>3. Written(r, t) = [settings |-> r.value, history |-> t.history]
    BY <1>1 DEF Written
  <2> QED
    BY <2>1, <2>2, <2>3, ReplaceCompletes
<1>2. CASE r.op = "save_history"
  <2>1. r.value \in Values
    BY <1>2 DEF Requests
  <2>2. Script(r) = Replace("history", r.value)
    BY <1>2 DEF Script
  <2>3. Written(r, t) = [settings |-> t.settings, history |-> r.value]
    BY <1>2 DEF Written
  <2> QED
    BY <2>1, <2>2, <2>3, ReplaceCompletes
<1>3. CASE r.op = "save_state"
  <2> DEFINE s1 == Replace("settings", r.value)
             s2 == Replace("history", r.value)
             s == s1 \o s2
  <2>1. r.value \in Values
    BY <1>3 DEF Requests
  <2>2. /\ s1 \in Seq(Statements) /\ Len(s1) = 2
        /\ s1[1] = [name |-> "settings", rows |-> Empty]
        /\ s1[2] = [name |-> "settings", rows |-> r.value]
    BY <2>1, ReplaceStatements
  <2>3. /\ s2 \in Seq(Statements) /\ Len(s2) = 2
        /\ s2[1] = [name |-> "history", rows |-> Empty]
        /\ s2[2] = [name |-> "history", rows |-> r.value]
    BY <2>1, ReplaceStatements
  <2> HIDE DEF s1, s2
  <2>4. /\ s \in Seq(Statements) /\ Len(s) = 4
        /\ s[1] = s1[1] /\ s[2] = s1[2] /\ s[3] = s2[1] /\ s[4] = s2[2]
    <3>1. /\ s \in Seq(Statements) /\ Len(s) = Len(s1) + Len(s2)
          /\ \A k \in 1..Len(s1) : s[k] = s1[k]
          /\ \A k \in 1..Len(s2) : s[Len(s1) + k] = s2[k]
      <4>1. s1 \in Seq(Statements) /\ s2 \in Seq(Statements)
        BY <2>2, <2>3
      <4> QED
        BY <4>1, Appended
    <3> HIDE DEF s
    <3>2. Len(s) = 4 /\ 1 \in 1..2 /\ 2 \in 1..2 /\ 2 + 1 = 3 /\ 2 + 2 = 4
      BY <2>2, <2>3, <3>1
    <3>3. s[1] = s1[1] /\ s[2] = s1[2] /\ s[2 + 1] = s2[1] /\ s[2 + 2] = s2[2]
      BY <2>2, <2>3, <3>1, <3>2
    <3> QED
      BY <3>1, <3>2, <3>3
  <2>5. Script(r) = s
    BY <1>3 DEF Script, s1, s2
  <2>6. Written(r, t) = [settings |-> r.value, history |-> r.value]
    BY <1>3 DEF Written
  <2> HIDE DEF s
  <2>7. Script(r) \in Scripts /\ Script(r) # <<>> /\ DOMAIN s = 1..4
    BY <2>4, <2>5, ShortScripts
  <2>8. Completes(t, s, Written(r, t))
    <3>1. s[2].name = "settings" /\ s[2].rows = r.value /\ s[3].name = "history"
      BY <2>2, <2>3, <2>4
    <3>2. s[4].name = "history" /\ s[4].rows = r.value
      BY <2>3, <2>4
    <3>3. \E k \in DOMAIN s :
             /\ s[k].name = "settings" /\ s[k].rows = r.value
             /\ \A j \in DOMAIN s : j > k => s[j].name # "settings"
      <4>1. 2 \in DOMAIN s /\ \A j \in DOMAIN s : j > 2 => j \in {3, 4}
        BY <2>7
      <4> QED
        BY <4>1, <3>1, <3>2
    <3>4. \E k \in DOMAIN s :
             /\ s[k].name = "history" /\ s[k].rows = r.value
             /\ \A j \in DOMAIN s : j > k => s[j].name # "history"
      <4>1. 4 \in DOMAIN s /\ \A j \in DOMAIN s : ~(j > 4)
        BY <2>7
      <4> QED
        BY <4>1, <3>2
    <3> QED
      BY <2>6, <3>3, <3>4 DEF Completes
  <2> QED
    BY <2>5, <2>7, <2>8
<1>4. CASE r.op = "reset_defaults"
  <2> DEFINE s == Delete("settings") \o Delete("history")
  <2>1. /\ [name |-> "settings", rows |-> Empty] \in Statements
        /\ [name |-> "history", rows |-> Empty] \in Statements
    BY DEF Statements
  <2>2. /\ s \in Seq(Statements) /\ Len(s) = 2
        /\ s[1] = [name |-> "settings", rows |-> Empty]
        /\ s[2] = [name |-> "history", rows |-> Empty]
    BY <2>1 DEF Delete
  <2>3. Script(r) = s
    BY <1>4 DEF Script
  <2>4. Written(r, t) = [settings |-> Empty, history |-> Empty]
    BY <1>4 DEF Written
  <2> HIDE DEF s
  <2>5. s \in Scripts /\ s # <<>> /\ DOMAIN s = {1, 2}
    BY <2>2, ShortScripts
  <2>6. /\ 1 \in DOMAIN s /\ s[1].name = "settings" /\ s[1].rows = Empty
        /\ \A j \in DOMAIN s : j > 1 => s[j].name # "settings"
    BY <2>2, <2>5
  <2>7. /\ 2 \in DOMAIN s /\ s[2].name = "history" /\ s[2].rows = Empty
        /\ \A j \in DOMAIN s : ~(j > 2)
    BY <2>2, <2>5
  <2>8. Completes(t, s, Written(r, t))
    BY <2>4, <2>6, <2>7 DEF Completes
  <2> QED
    BY <2>3, <2>5, <2>8
<1>5. CASE r.op = "load"
  <2>1. Script(r) = <<>>
    BY <1>5 DEF Script
  <2>2. Written(r, t) = [settings |-> t.settings, history |-> t.history]
    BY <1>5 DEF Written
  <2>3. Written(r, t) = t
    BY <2>2 DEF Tables
  <2>4. <<>> \in Seq(Statements) /\ Len(<<>>) = 0 /\ DOMAIN <<>> = {}
    OBVIOUS
  <2>5. <<>> \in Scripts
    <3>1. Len(<<>>) <= 4
      BY <2>4
    <3> QED
      BY <2>4, <3>1, ScriptsAreSequences
  <2> QED
    BY <2>1, <2>3, <2>4, <2>5 DEF Completes
<1> QED
  BY <1>1, <1>2, <1>3, <1>4, <1>5 DEF Requests

\* A script without its first statement.
LEMMA TailIsScript ==
  ASSUME NEW left \in Scripts, left # <<>>
  PROVE  /\ Tail(left) \in Scripts
         /\ Len(left) \in Nat \ {0} /\ Len(Tail(left)) = Len(left) - 1
         /\ \A k \in 1..Len(Tail(left)) : Tail(left)[k] = left[k + 1]
<1> DEFINE tail == Tail(left)
<1>1. left \in Seq(Statements) /\ Len(left) <= 4
  BY ScriptsAreSequences
<1>2. /\ tail \in Seq(Statements) /\ Len(tail) = Len(left) - 1 /\ Len(left) \in Nat \ {0}
      /\ \A k \in 1..Len(tail) : tail[k] = left[k + 1]
  BY <1>1
<1> HIDE DEF tail
<1>3. Len(tail) <= 4
  BY <1>1, <1>2
<1>4. tail \in Scripts
  BY <1>2, <1>3, ScriptsAreSequences
<1> QED
  BY <1>2, <1>4 DEF tail

\* Running a statement brings the rows one statement nearer to the target.
LEMMA ExecuteCompletes ==
  ASSUME NEW rows \in Tables, NEW left \in Scripts, left # <<>>, NEW target \in Tables,
         Completes(rows, left, target)
  PROVE  /\ Tail(left) \in Scripts
         /\ [rows EXCEPT ![Head(left).name] = Head(left).rows] \in Tables
         /\ Completes([rows EXCEPT ![Head(left).name] = Head(left).rows], Tail(left), target)
<1> DEFINE tail == Tail(left)
           after == [rows EXCEPT ![Head(left).name] = Head(left).rows]
<1>1. left \in Seq(Statements) /\ Len(left) <= 4
  BY ScriptsAreSequences
<1>2. Head(left) = left[1] /\ Head(left) \in Statements
  BY <1>1
<1>3. /\ tail \in Seq(Statements) /\ Len(tail) = Len(left) - 1 /\ Len(left) \in Nat \ {0}
      /\ \A k \in 1..Len(tail) : tail[k] = left[k + 1]
  BY <1>1, TailIsScript
<1>4. DOMAIN left = 1..Len(left) /\ DOMAIN tail = 1..Len(tail)
  BY <1>1, <1>3
<1>5. tail \in Scripts
  BY TailIsScript
<1>6. after \in Tables
  BY <1>2 DEF Statements, Tables, TableNames
<1>7. \A t \in TableNames : after[t] = IF t = Head(left).name THEN Head(left).rows ELSE rows[t]
  BY <1>2 DEF Statements, Tables, TableNames
<1> HIDE DEF tail, after
<1>8. ASSUME NEW t \in TableNames
      PROVE  \/ after[t] = target[t] /\ \A k \in DOMAIN tail : tail[k].name # t
             \/ \E k \in DOMAIN tail :
                  /\ tail[k].name = t
                  /\ tail[k].rows = target[t]
                  /\ \A j \in DOMAIN tail : j > k => tail[j].name # t
  <2>1. CASE rows[t] = target[t] /\ \A k \in DOMAIN left : left[k].name # t
    <3>1. \A k \in DOMAIN tail : k + 1 \in DOMAIN left /\ tail[k] = left[k + 1]
      BY <1>3, <1>4
    <3>2. Head(left).name # t
      BY <2>1, <1>2, <1>3, <1>4
    <3> QED
      BY <2>1, <3>1, <3>2, <1>7
  <2>2. CASE \E k \in DOMAIN left :
               /\ left[k].name = t
               /\ left[k].rows = target[t]
               /\ \A j \in DOMAIN left : j > k => left[j].name # t
    <3>1. PICK k \in DOMAIN left :
               /\ left[k].name = t
               /\ left[k].rows = target[t]
               /\ \A j \in DOMAIN left : j > k => left[j].name # t
      BY <2>2
    <3>2. CASE k = 1
      <4>1. after[t] = target[t]
        BY <3>1, <3>2, <1>2, <1>7
      <4>2. \A j \in DOMAIN tail : j + 1 \in DOMAIN left /\ j + 1 > k /\ tail[j] = left[j + 1]
        BY <3>2, <1>3, <1>4
      <4> QED
        BY <3>1, <4>1, <4>2
    <3>3. CASE k # 1
      <4>1. k - 1 \in DOMAIN tail /\ tail[k - 1] = left[k]
        BY <3>3, <1>3, <1>4
      <4>2. \A j \in DOMAIN tail : j + 1 \in DOMAIN left /\ tail[j] = left[j + 1]
        BY <1>3, <1>4
      <4>3. ASSUME NEW j \in DOMAIN tail, j > k - 1 PROVE tail[j].name # t
        <5>1. j + 1 > k
          BY <4>3, <1>3, <1>4
        <5> QED
          BY <3>1, <4>2, <5>1
      <4> QED
        BY <3>1, <4>1, <4>3
    <3> QED
      BY <3>2, <3>3
  <2> QED
    BY <2>1, <2>2 DEF Completes
<1> QED
  BY <1>5, <1>6, <1>8 DEF Completes, tail, after

\* When no statement is left the rows are the target.
LEMMA NothingLeft ==
  ASSUME NEW rows \in Tables, NEW target \in Tables, Completes(rows, <<>>, target)
  PROVE  rows = target
<1>1. rows["settings"] = target["settings"] /\ rows["history"] = target["history"]
  BY DEF Completes, TableNames
<1> QED
  BY <1>1 DEF Tables

-----------------------------------------------------------------------------
\* What At and Goto say of a connection that is open.
LEMMA OpenConnection ==
  ASSUME TypeOK, NEW p \in Instances, NEW step \in Steps, At(p, step)
  PROVE  /\ conn[p] \in Connections /\ Open(p) /\ conn[p].at = step
         /\ \A s \in Steps : [conn[p] EXCEPT !.at = s] \in Connections
<1>1. conn[p] \in Connections /\ Open(p) /\ conn[p].at = step
  BY DEF At, Open, TypeOK
<1> QED
  BY <1>1 DEF Connections

\* The changes a statement makes to its connection.
LEMMA ChangedConnection ==
  ASSUME NEW c \in Connections, NEW s \in Steps, NEW v \in 0..DB_SCHEMA_VERSION
  PROVE  /\ [c EXCEPT !.at = s, !.version = v] \in Connections
         /\ [c EXCEPT !.at = s, !.version = v, !.seen = {}] \in Connections
<1>1. [c EXCEPT !.at = s, !.version = v] \in Connections
  BY DEF Connections
<1>2. [c EXCEPT !.at = s, !.version = v, !.seen = {}] \in Connections
  BY DEF Connections
<1> QED
  BY <1>1, <1>2

\* Every statement keeps the types.
LEMMA StepKeepsTypes ==
  ASSUME TypeOK, CallsAreOpen, Next
  PROVE  TypeOK'
<1> USE DEF TypeOK, schemaVars, DB_SCHEMA_VERSION, NoRow, TableNames, StructuredColumns
<1>1. ASSUME NEW p \in Instances, NEW r \in Requests, Call(p, r) PROVE TypeOK'
  <2>1. Script(r) \in Scripts
    <3>1. PICK t : t \in Tables
      BY DEF TypeOK
    <3> QED
      BY <3>1, ScriptCompletes
  <2> DEFINE c == [at |-> "read", version |-> NoRow, seen |-> {}, left |-> Script(r),
                   work |-> None]
  <2>2. c \in Connections
    BY <2>1 DEF Connections, Steps
  <2>3. conn' = [conn EXCEPT ![p] = c]
    BY <1>1 DEF Call
  <2> HIDE DEF c
  <2> QED
    BY <1>1, <2>2, <2>3 DEF Call
<1>2. ASSUME NEW p \in Instances, ReadVersion(p) PROVE TypeOK'
  <2>1. conn[p] \in Connections
    BY <1>2, OpenConnection DEF ReadVersion, Steps
  <2>2. ASSUME NEW v \in 1..3
        PROVE  [conn[p] EXCEPT !.at = "settings", !.version = v] \in Connections
    <3>1. "settings" \in Steps /\ v \in 0..DB_SCHEMA_VERSION
      BY DEF Steps
    <3> QED
      BY <2>1, <3>1, ChangedConnection, Zenon
  <2> QED
    BY <1>2, <2>2 DEF ReadVersion
<1>3. ASSUME NEW p \in Instances,
             CreateSettings(p) \/ CreateHistory(p) \/ AddKind(p)
      PROVE  TypeOK'
  <2>1. \A s \in Steps : [conn[p] EXCEPT !.at = s] \in Connections
    BY <1>3, OpenConnection DEF CreateSettings, CreateHistory, AddKind, Steps
  <2>2. conn' \in [Instances -> Connections \cup {None}]
    BY <1>3, <2>1 DEF CreateSettings, CreateHistory, AddKind, Goto, Steps
  <2> QED
    BY <1>3, <2>2 DEF CreateSettings, CreateHistory, AddKind, AddColumn
<1>4. ASSUME NEW p \in Instances, ReadColumns(p) PROVE TypeOK'
  <2>1. conn[p] \in Connections
    BY <1>4, OpenConnection DEF ReadColumns, Steps
  <2>2. [conn[p] EXCEPT !.at = "kind", !.seen = columns] \in Connections
    BY <2>1 DEF Connections, Steps
  <2> QED
    BY <1>4, <2>2 DEF ReadColumns
<1>5. ASSUME NEW p \in Instances, AddMetadata(p) PROVE TypeOK'
  <2>1. conn[p] \in Connections
    BY <1>5, OpenConnection DEF AddMetadata, Steps
  <2>2. [conn[p] EXCEPT !.at = "version", !.version = 3] \in Connections
    <3>1. "version" \in Steps /\ 3 \in 0..DB_SCHEMA_VERSION
      BY DEF Steps
    <3> QED
      BY <2>1, <3>1, ChangedConnection, Zenon
  <2> QED
    BY <1>5, <2>2 DEF AddMetadata, AddColumn
<1>6. ASSUME NEW p \in Instances, WriteVersion(p) PROVE TypeOK'
  <2>1. conn[p] \in Connections
    BY <1>6, OpenConnection DEF WriteVersion, Steps
  <2>2. conn[p].version \in 0..DB_SCHEMA_VERSION
    BY <2>1 DEF Connections
  <2>3. [conn[p] EXCEPT !.at = "write", !.version = NoRow, !.seen = {}] \in Connections
    <3>1. "write" \in Steps /\ NoRow \in 0..DB_SCHEMA_VERSION
      BY DEF Steps
    <3> QED
      BY <2>1, <3>1, ChangedConnection, Zenon
  <2> QED
    BY <1>6, <2>2, <2>3 DEF WriteVersion
<1>7. ASSUME NEW p \in Instances, Execute(p) PROVE TypeOK'
  <2> DEFINE rows == IF conn[p].work = None THEN table ELSE conn[p].work
             after == [rows EXCEPT ![Head(conn[p].left).name] = Head(conn[p].left).rows]
  <2>1. conn[p] \in Connections /\ conn[p].left # <<>>
    BY <1>7, OpenConnection DEF Execute, Steps
  <2>2. conn[p].left \in Seq(Statements)
    BY <2>1, ScriptsAreSequences DEF Connections
  <2>3. Head(conn[p].left) \in Statements
    BY <2>1, <2>2
  <2>4. rows \in Tables
    BY <2>1 DEF Connections
  <2>5. after \in Tables
    BY <2>3, <2>4 DEF Statements, Tables
  <2>6. Tail(conn[p].left) \in Scripts
    BY <2>1, TailIsScript DEF Connections
  <2>7. conn' = [conn EXCEPT ![p] = [conn[p] EXCEPT !.left = Tail(@), !.work = after]]
    BY <1>7 DEF Execute
  <2> HIDE DEF after, rows
  <2>8. [conn[p] EXCEPT !.left = Tail(@), !.work = after] \in Connections
    BY <2>1, <2>5, <2>6 DEF Connections
  <2>9. conn' \in [Instances -> Connections \cup {None}]
    BY <2>7, <2>8, Zenon
  <2>10. lock' = p /\ UNCHANGED <<schemaVars, table, request, reply>>
    BY <1>7, Zenon DEF Execute
  <2> QED
    BY <2>9, <2>10
<1>8. ASSUME NEW p \in Instances, Commit(p) PROVE TypeOK'
  <2>1. conn[p] \in Connections /\ [conn[p] EXCEPT !.at = "close"] \in Connections
    BY <1>8, OpenConnection DEF Commit, Steps
  <2>2. table' \in Tables
    BY <1>8, <2>1 DEF Commit, Connections
  <2> QED
    BY <1>8, <2>1, <2>2 DEF Commit, Goto
<1>9. ASSUME NEW p \in Instances, Close(p) \/ Abort(p) \/ Crash(p) PROVE TypeOK'
  BY <1>9 DEF Close, Abort, Crash, Leave
<1> QED
  BY <1>1, <1>2, <1>3, <1>4, <1>5, <1>6, <1>7, <1>8, <1>9 DEF Next, Advance

-----------------------------------------------------------------------------
\* What any statement may do to the schema: it only grows, a new history table has the
\* new columns, and the only version ever written is the current one.
SchemaGrows ==
  /\ created \subseteq created'
  /\ columns \subseteq columns' /\ columns' \subseteq StructuredColumns
  /\ version' \in {version, DB_SCHEMA_VERSION}
  /\ legacy' = legacy
  /\ "history" \in created' \ created => columns' = StructuredColumns

\* A connection that does nothing goes on knowing what it knew.
LEMMA OthersStayAhead ==
  ASSUME NEW q \in Instances, SchemaIsAhead(q), SchemaGrows, TypeOK, TypeOK',
         conn'[q] = conn[q]
  PROVE  SchemaIsAhead(q)'
<1>1. "history" \in created' /\ ("history" \in created => columns = StructuredColumns) =>
        columns' = StructuredColumns
  BY DEF SchemaGrows
<1>2. created = TableNames => created' = TableNames
  BY DEF SchemaGrows, TypeOK
<1>3. version <= DB_SCHEMA_VERSION => version' <= DB_SCHEMA_VERSION
  BY DEF SchemaGrows, DB_SCHEMA_VERSION
<1>4. \A c : (c \in created => c \in created') /\ (c \in columns => c \in columns')
  BY DEF SchemaGrows
<1> QED
  BY <1>1, <1>2, <1>3, <1>4 DEF SchemaIsAhead, Open

\* So does the file as a whole, unless the version is written.
LEMMA FileStaysCurrent ==
  ASSUME VersionMatchesSchema, NewFileIsCurrent, SchemaGrows, TypeOK, TypeOK'
  PROVE  /\ NewFileIsCurrent'
         /\ version' = version => VersionMatchesSchema'
<1> USE DEF SchemaGrows, TypeOK, DB_SCHEMA_VERSION, NoRow
<1>1. NewFileIsCurrent'
  <2> SUFFICES ASSUME version' = 0, legacy' = "no", "history" \in created'
               PROVE  columns' = StructuredColumns
    BY DEF NewFileIsCurrent
  <2>1. version = 0 /\ legacy = "no"
    OBVIOUS
  <2>2. "history" \in created => columns = StructuredColumns
    BY <2>1 DEF NewFileIsCurrent
  <2> QED
    BY <2>2
<1>2. version' = version => VersionMatchesSchema'
  BY DEF VersionMatchesSchema
<1> QED
  BY <1>1, <1>2

\* A step of p that lets the schema grow is judged by what p knows and by the version.
LEMMA SchemaByOneConnection ==
  ASSUME SchemaInvariant, TypeOK, TypeOK', SchemaGrows, NEW p \in Instances,
         \A q \in Instances \ {p} : conn'[q] = conn[q],
         SchemaIsAhead(p)', version' # version => VersionMatchesSchema'
  PROVE  SchemaInvariant'
<1>1. \A q \in Instances \ {p} : SchemaIsAhead(q)'
  BY OthersStayAhead DEF SchemaInvariant
<1>2. NewFileIsCurrent' /\ VersionMatchesSchema'
  BY FileStaysCurrent DEF SchemaInvariant
<1> QED
  BY <1>1, <1>2 DEF SchemaInvariant

\* No statement of any connection breaks the agreement of version and schema.
LEMMA StepKeepsSchema ==
  ASSUME TypeOK, TypeOK', SchemaInvariant, Next
  PROVE  SchemaInvariant'
<1> USE DEF schemaVars, DB_SCHEMA_VERSION, NoRow
<1>1. ASSUME UNCHANGED schemaVars PROVE SchemaGrows
  BY <1>1 DEF SchemaGrows, TypeOK
<1>2. ASSUME NEW p \in Instances, NEW r \in Requests, Call(p, r) PROVE SchemaInvariant'
  <2>1. conn'[p].at = "read" /\ conn'[p].version = NoRow /\ UNCHANGED schemaVars
        /\ \A q \in Instances \ {p} : conn'[q] = conn[q]
    BY <1>2 DEF Call, TypeOK
  <2>2. SchemaIsAhead(p)'
    BY <2>1 DEF SchemaIsAhead
  <2> QED
    BY <1>1, <2>1, <2>2, SchemaByOneConnection
<1>3. ASSUME NEW p \in Instances, ReadVersion(p) PROVE SchemaInvariant'
  <2> DEFINE v == IF version # NoRow THEN version
                  ELSE IF legacy = "yes" THEN 1 ELSE DB_SCHEMA_VERSION
  <2>1. conn'[p].at = "settings" /\ conn'[p].version = v /\ UNCHANGED schemaVars
        /\ v \in 1..3 /\ \A q \in Instances \ {p} : conn'[q] = conn[q]
    <3>1. /\ conn' = [conn EXCEPT ![p] = [conn[p] EXCEPT !.at = "settings", !.version = v]]
          /\ v \in 1..3 /\ UNCHANGED schemaVars
      BY <1>3 DEF ReadVersion
    <3>2. conn[p] \in Connections
      BY <1>3, OpenConnection DEF ReadVersion, Steps
    <3> HIDE DEF v
    <3>3. conn'[p] = [conn[p] EXCEPT !.at = "settings", !.version = v]
      BY <3>1 DEF TypeOK
    <3>4. conn'[p].at = "settings" /\ conn'[p].version = v
      BY <3>2, <3>3 DEF Connections
    <3> QED
      BY <3>1, <3>4 DEF TypeOK
  <2>2. version <= DB_SCHEMA_VERSION
    BY <2>1
  <2>3. v = 3 /\ "history" \in created => columns = StructuredColumns
    BY DEF SchemaInvariant, VersionMatchesSchema, NewFileIsCurrent, TypeOK
  <2>4. SchemaIsAhead(p)'
    BY <2>1, <2>2, <2>3 DEF SchemaIsAhead
  <2> QED
    BY <1>1, <2>1, <2>4, SchemaByOneConnection
<1>4. ASSUME NEW p \in Instances, CreateSettings(p) PROVE SchemaInvariant'
  <2>1. /\ conn'[p] = [conn[p] EXCEPT !.at = "history"]
        /\ conn[p] \in Connections /\ Open(p) /\ conn[p].at = "settings"
        /\ \A q \in Instances \ {p} : conn'[q] = conn[q]
    BY <1>4, OpenConnection DEF CreateSettings, TypeOK, Steps, Goto
  <2>2. /\ conn'[p].at = "history" /\ conn'[p].version = conn[p].version
        /\ conn'[p].seen = conn[p].seen
    BY <2>1 DEF Connections
  <2>3. SchemaGrows
    BY <1>4 DEF CreateSettings, SchemaGrows, TypeOK
  <2>4. SchemaIsAhead(p)'
    BY <1>4, <2>1, <2>2 DEF CreateSettings, SchemaInvariant, SchemaIsAhead
  <2>5. version' = version
    BY <1>4 DEF CreateSettings
  <2> QED
    BY <2>1, <2>3, <2>4, <2>5, SchemaByOneConnection
<1>5. ASSUME NEW p \in Instances, CreateHistory(p) PROVE SchemaInvariant'
  <2> DEFINE next == IF conn[p].version < DB_SCHEMA_VERSION THEN "columns" ELSE "version"
  <2>1. /\ conn'[p] = [conn[p] EXCEPT !.at = next]
        /\ conn[p] \in Connections /\ Open(p) /\ conn[p].at = "history"
        /\ \A q \in Instances \ {p} : conn'[q] = conn[q]
    BY <1>5, OpenConnection DEF CreateHistory, TypeOK, Steps, Goto
  <2>2. /\ conn'[p].at = next /\ conn'[p].version = conn[p].version
        /\ conn[p].version \in 0..3
    BY <2>1 DEF Connections
  <2>3. SchemaGrows
    BY <1>5 DEF CreateHistory, SchemaGrows, TypeOK
  <2>4. created' = TableNames /\ ("history" \notin created => columns' = StructuredColumns)
        /\ ("history" \in created => columns' = columns)
    BY <1>5, <2>1 DEF CreateHistory, SchemaInvariant, SchemaIsAhead, TypeOK, TableNames
  <2>5. SchemaIsAhead(p)'
    BY <1>5, <2>1, <2>2, <2>4 DEF CreateHistory, SchemaInvariant, SchemaIsAhead, TableNames
  <2>6. version' = version
    BY <1>5 DEF CreateHistory
  <2> QED
    BY <2>1, <2>3, <2>5, <2>6, SchemaByOneConnection
<1>6. ASSUME NEW p \in Instances, ReadColumns(p) PROVE SchemaInvariant'
  <2>1. /\ conn'[p] = [conn[p] EXCEPT !.at = "kind", !.seen = columns]
        /\ conn[p] \in Connections /\ Open(p) /\ conn[p].at = "columns"
        /\ \A q \in Instances \ {p} : conn'[q] = conn[q]
    BY <1>6, OpenConnection DEF ReadColumns, TypeOK, Steps
  <2>2. /\ conn'[p].at = "kind" /\ conn'[p].version = conn[p].version
        /\ conn'[p].seen = columns
    BY <2>1 DEF Connections
  <2>3. UNCHANGED schemaVars
    BY <1>6 DEF ReadColumns
  <2>4. SchemaIsAhead(p)'
    BY <2>1, <2>2, <2>3 DEF SchemaInvariant, SchemaIsAhead
  <2> QED
    BY <1>1, <2>1, <2>3, <2>4, SchemaByOneConnection
<1>7. ASSUME NEW p \in Instances, AddKind(p) PROVE SchemaInvariant'
  <2>1. /\ conn'[p] = [conn[p] EXCEPT !.at = "metadata"]
        /\ conn[p] \in Connections /\ Open(p) /\ conn[p].at = "kind"
        /\ \A q \in Instances \ {p} : conn'[q] = conn[q]
    BY <1>7, OpenConnection DEF AddKind, TypeOK, Steps, Goto
  <2>2. /\ conn'[p].at = "metadata" /\ conn'[p].version = conn[p].version
        /\ conn'[p].seen = conn[p].seen
    BY <2>1 DEF Connections
  <2>3. SchemaGrows
    BY <1>7 DEF AddKind, AddColumn, SchemaGrows, TypeOK, StructuredColumns
  <2>4. "kind" \in columns' /\ UNCHANGED <<version, created>>
    BY <1>7, <2>1 DEF AddKind, AddColumn, SchemaInvariant, SchemaIsAhead
  <2>5. SchemaIsAhead(p)'
    BY <2>1, <2>2, <2>3, <2>4 DEF SchemaGrows, SchemaInvariant, SchemaIsAhead
  <2> QED
    BY <2>1, <2>3, <2>4, <2>5, SchemaByOneConnection
<1>8. ASSUME NEW p \in Instances, AddMetadata(p) PROVE SchemaInvariant'
  <2>1. /\ conn'[p] = [conn[p] EXCEPT !.at = "version", !.version = 3]
        /\ conn[p] \in Connections /\ Open(p) /\ conn[p].at = "metadata"
        /\ \A q \in Instances \ {p} : conn'[q] = conn[q]
    BY <1>8, OpenConnection DEF AddMetadata, TypeOK, Steps
  <2>2. conn'[p].at = "version" /\ conn'[p].version = 3
    BY <2>1 DEF Connections
  <2>3. SchemaGrows
    BY <1>8 DEF AddMetadata, AddColumn, SchemaGrows, TypeOK, StructuredColumns
  <2>4. /\ "kind" \in columns /\ conn[p].seen \subseteq columns /\ created = TableNames
        /\ version <= DB_SCHEMA_VERSION
    BY <2>1 DEF SchemaInvariant, SchemaIsAhead
  <2>5. columns' = StructuredColumns /\ UNCHANGED <<version, created>>
    BY <1>8, <2>3, <2>4 DEF AddMetadata, AddColumn, SchemaGrows, StructuredColumns
  <2>6. SchemaIsAhead(p)'
    BY <2>2, <2>4, <2>5 DEF SchemaIsAhead, TableNames
  <2> QED
    BY <2>1, <2>3, <2>5, <2>6, SchemaByOneConnection
<1>9. ASSUME NEW p \in Instances, WriteVersion(p) PROVE SchemaInvariant'
  <2>1. /\ conn'[p] = [conn[p] EXCEPT !.at = "write", !.version = NoRow, !.seen = {}]
        /\ conn[p] \in Connections /\ Open(p) /\ conn[p].at = "version"
        /\ \A q \in Instances \ {p} : conn'[q] = conn[q]
    BY <1>9, OpenConnection DEF WriteVersion, TypeOK, Steps
  <2>2. conn'[p].at = "write" /\ conn'[p].version = NoRow
    BY <2>1 DEF Connections
  <2>3. /\ conn[p].version = 3 /\ created = TableNames /\ columns = StructuredColumns
        /\ version' = 3 /\ UNCHANGED <<legacy, created, columns>>
    BY <1>9, <2>1 DEF WriteVersion, SchemaInvariant, SchemaIsAhead, TableNames
  <2>4. SchemaGrows /\ VersionMatchesSchema'
    BY <2>3 DEF SchemaGrows, VersionMatchesSchema
  <2>5. SchemaIsAhead(p)'
    BY <2>2, <2>3 DEF SchemaIsAhead, TableNames
  <2> QED
    BY <2>1, <2>4, <2>5, SchemaByOneConnection
<1>10. ASSUME NEW p \in Instances, Execute(p) \/ Commit(p) PROVE SchemaInvariant'
  <2>1. /\ conn[p] \in Connections /\ Open(p) /\ conn[p].at = "write"
        /\ UNCHANGED schemaVars /\ \A q \in Instances \ {p} : conn'[q] = conn[q]
    BY <1>10, OpenConnection DEF Execute, Commit, TypeOK, Steps, Goto
  <2>2. conn'[p].at \in {"write", "close"} /\ conn'[p].version = conn[p].version
    BY <1>10, <2>1 DEF Execute, Commit, Connections, TypeOK, Goto
  <2>3. SchemaIsAhead(p)'
    BY <2>1, <2>2 DEF SchemaInvariant, SchemaIsAhead
  <2> QED
    BY <1>1, <2>1, <2>3, SchemaByOneConnection
<1>11. ASSUME NEW p \in Instances, Close(p) \/ Abort(p) \/ Crash(p) PROVE SchemaInvariant'
  <2>1. /\ conn'[p] = None /\ UNCHANGED schemaVars
        /\ \A q \in Instances \ {p} : conn'[q] = conn[q]
    BY <1>11 DEF Close, Abort, Crash, Leave, TypeOK
  <2>2. SchemaIsAhead(p)'
    BY <2>1 DEF SchemaIsAhead, Open
  <2> QED
    BY <1>1, <2>1, <2>2, SchemaByOneConnection
<1> QED
  BY <1>2, <1>3, <1>4, <1>5, <1>6, <1>7, <1>8, <1>9, <1>10, <1>11 DEF Next, Advance

-----------------------------------------------------------------------------
\* What the statements before the transaction do to the connection and the lock.
Prepares(p) ==
  /\ Open(p) /\ conn[p].at \notin {"write", "close"}
  /\ Open(p)' /\ conn'[p].at # "close"
  /\ conn'[p].left = conn[p].left /\ conn'[p].work = conn[p].work
  /\ \A q \in Instances \ {p} : conn'[q] = conn[q]
  /\ UNCHANGED <<table, lock, request, reply>>

LEMMA SchemaStatementsPrepare ==
  ASSUME TypeOK, NEW p \in Instances,
         \/ ReadVersion(p) \/ CreateSettings(p) \/ CreateHistory(p) \/ ReadColumns(p)
         \/ AddKind(p) \/ AddMetadata(p) \/ WriteVersion(p)
  PROVE  Prepares(p)
<1>1. ASSUME NEW step \in Steps \ {"write", "close"}, At(p, step),
             NEW s \in Steps \ {"close"}, NEW c, c.at = s,
             conn' = [conn EXCEPT ![p] = c], c \in Connections,
             c.left = conn[p].left, c.work = conn[p].work,
             UNCHANGED <<table, lock, request, reply>>
      PROVE  Prepares(p)
  BY <1>1, OpenConnection, NoneFacts DEF Prepares, Open, TypeOK
<1>2. CASE ReadVersion(p)
  <2> DEFINE v == IF version # NoRow THEN version
                  ELSE IF legacy = "yes" THEN 1 ELSE DB_SCHEMA_VERSION
             c == [conn[p] EXCEPT !.at = "settings", !.version = v]
  <2>1. /\ conn' = [conn EXCEPT ![p] = c] /\ v \in 0..DB_SCHEMA_VERSION
        /\ At(p, "read") /\ UNCHANGED <<table, lock, request, reply>>
    <3>1. /\ conn' = [conn EXCEPT ![p] = c] /\ v \in 1..DB_SCHEMA_VERSION
          /\ At(p, "read") /\ UNCHANGED <<table, lock, request, reply>>
      BY <1>2, Zenon DEF ReadVersion
    <3> QED
      BY <3>1 DEF DB_SCHEMA_VERSION
  <2> HIDE DEF v
  <2>2. conn[p] \in Connections /\ "read" \in Steps \ {"write", "close"}
        /\ "settings" \in Steps \ {"close"}
    BY <2>1, OpenConnection DEF Steps
  <2>3. c.at = "settings" /\ c.left = conn[p].left /\ c.work = conn[p].work
    BY <2>2 DEF Connections
  <2>4. c \in Connections
    BY <2>1, <2>2, ChangedConnection, Zenon
  <2> HIDE DEF c
  <2> QED
    BY <1>1, <2>1, <2>2, <2>3, <2>4
<1>3. CASE CreateSettings(p) \/ CreateHistory(p) \/ AddKind(p)
  <2>1. PICK step \in {"settings", "history", "kind"} :
          At(p, step) /\ UNCHANGED <<table, lock, request, reply>>
    BY <1>3 DEF CreateSettings, CreateHistory, AddKind
  <2>2. PICK s \in {"history", "columns", "version", "metadata"} : Goto(p, s)
    BY <1>3 DEF CreateSettings, CreateHistory, AddKind
  <2> DEFINE c == [conn[p] EXCEPT !.at = s]
  <2>3. /\ conn[p] \in Connections /\ step \in Steps \ {"write", "close"}
        /\ s \in Steps \ {"close"} /\ c \in Connections
    BY <2>1, OpenConnection DEF Steps
  <2>4. c.at = s /\ c.left = conn[p].left /\ c.work = conn[p].work
    BY <2>3 DEF Connections
  <2>5. conn' = [conn EXCEPT ![p] = c]
    BY <2>2 DEF Goto
  <2> HIDE DEF c
  <2> QED
    BY <1>1, <2>1, <2>3, <2>4, <2>5
<1>4. CASE ReadColumns(p)
  <2> DEFINE c == [conn[p] EXCEPT !.at = "kind", !.seen = columns]
  <2>1. /\ conn' = [conn EXCEPT ![p] = c] /\ At(p, "columns")
        /\ UNCHANGED <<table, lock, request, reply>>
    BY <1>4 DEF ReadColumns
  <2>2. conn[p] \in Connections /\ "columns" \in Steps \ {"write", "close"}
        /\ "kind" \in Steps \ {"close"}
    BY <2>1, OpenConnection DEF Steps
  <2>3. /\ c.at = "kind" /\ c.left = conn[p].left /\ c.work = conn[p].work
        /\ c \in Connections
    BY <2>2 DEF Connections, TypeOK
  <2> HIDE DEF c
  <2> QED
    BY <1>1, <2>1, <2>2, <2>3
<1>5. CASE AddMetadata(p)
  <2> DEFINE c == [conn[p] EXCEPT !.at = "version", !.version = 3]
  <2>1. /\ conn' = [conn EXCEPT ![p] = c] /\ At(p, "metadata")
        /\ UNCHANGED <<table, lock, request, reply>> /\ 3 \in 0..DB_SCHEMA_VERSION
    <3>1. /\ conn' = [conn EXCEPT ![p] = c] /\ At(p, "metadata")
          /\ UNCHANGED <<table, lock, request, reply>>
      BY <1>5, Zenon DEF AddMetadata
    <3> QED
      BY <3>1 DEF DB_SCHEMA_VERSION
  <2>2. conn[p] \in Connections /\ "metadata" \in Steps \ {"write", "close"}
        /\ "version" \in Steps \ {"close"}
    BY <2>1, OpenConnection DEF Steps
  <2>3. c.at = "version" /\ c.left = conn[p].left /\ c.work = conn[p].work
    BY <2>2 DEF Connections
  <2>4. c \in Connections
    BY <2>1, <2>2, ChangedConnection, Zenon
  <2> HIDE DEF c
  <2> QED
    BY <1>1, <2>1, <2>2, <2>3, <2>4
<1>6. CASE WriteVersion(p)
  <2> DEFINE c == [conn[p] EXCEPT !.at = "write", !.version = NoRow, !.seen = {}]
  <2>1. /\ conn' = [conn EXCEPT ![p] = c] /\ At(p, "version")
        /\ UNCHANGED <<table, lock, request, reply>> /\ NoRow \in 0..DB_SCHEMA_VERSION
    <3>1. /\ conn' = [conn EXCEPT ![p] = c] /\ At(p, "version")
          /\ UNCHANGED <<table, lock, request, reply>>
      BY <1>6, Zenon DEF WriteVersion
    <3> QED
      BY <3>1 DEF DB_SCHEMA_VERSION, NoRow
  <2>2. conn[p] \in Connections /\ "version" \in Steps \ {"write", "close"}
        /\ "write" \in Steps \ {"close"}
    BY <2>1, OpenConnection DEF Steps
  <2>3. c.at = "write" /\ c.left = conn[p].left /\ c.work = conn[p].work
    BY <2>2 DEF Connections
  <2>4. c \in Connections
    BY <2>1, <2>2, ChangedConnection, Zenon
  <2> HIDE DEF c
  <2> QED
    BY <1>1, <2>1, <2>2, <2>3, <2>4
<1> QED
  BY <1>2, <1>3, <1>4, <1>5, <1>6

\* The effect of one statement of a transaction.
LEMMA ExecuteFacts ==
  ASSUME TypeOK, TransactionInvariant, NEW p \in Instances, Execute(p)
  PROVE  /\ Open(p) /\ conn[p].at = "write" /\ lock \in {None, p} /\ lock' = p
         /\ Open(p)' /\ conn'[p].at = "write" /\ conn'[p].work \in Tables
         /\ Completes(conn'[p].work, conn'[p].left, Written(request[p], table))
         /\ \A q \in Instances \ {p} : conn'[q] = conn[q]
         /\ UNCHANGED <<table, request, reply>>
<1> DEFINE rows == IF conn[p].work = None THEN table ELSE conn[p].work
           s == Head(conn[p].left)
           after == [rows EXCEPT ![s.name] = s.rows]
           rest == Tail(conn[p].left)
           target == Written(request[p], table)
<1>1. /\ conn[p] \in Connections /\ Open(p) /\ conn[p].at = "write"
      /\ conn[p].left # <<>> /\ lock \in {None, p} /\ lock' = p
      /\ UNCHANGED <<table, request, reply>>
      /\ conn' = [conn EXCEPT ![p] = [conn[p] EXCEPT !.left = rest, !.work = after]]
  BY OpenConnection DEF Execute, Steps, Unlocked
<1>2. request[p] \in Requests
  BY <1>1 DEF TransactionInvariant, CallsAreOpen, TypeOK
<1>3. target \in Tables
  BY <1>2 DEF Written, Tables, Requests, TypeOK
<1>4. rows \in Tables /\ conn[p].left \in Scripts
  BY <1>1 DEF Connections, TypeOK
<1>5. Completes(rows, conn[p].left, target)
  <2>1. CASE conn[p].work = None
    BY <1>1, <1>2, <2>1, ScriptCompletes DEF TransactionInvariant, TransactionIsUnderWay, TypeOK
  <2>2. CASE conn[p].work # None
    BY <1>1, <2>2 DEF TransactionInvariant, TransactionIsUnderWay
  <2> QED
    BY <2>1, <2>2
<1> HIDE DEF rows, target
<1>6. after \in Tables /\ Completes(after, rest, target)
  BY <1>1, <1>3, <1>4, <1>5, ExecuteCompletes
<1> HIDE DEF after, rest
<1>7. conn'[p] = [conn[p] EXCEPT !.left = rest, !.work = after]
  BY <1>1 DEF TypeOK
<1>8. conn'[p].at = "write" /\ conn'[p].left = rest /\ conn'[p].work = after
  BY <1>1, <1>7 DEF Connections
<1>9. Open(p)'
  <2>1. [conn[p] EXCEPT !.left = rest, !.work = after] # None
    <3>1. rest \in Scripts
      BY <1>1, <1>4, TailIsScript DEF rest
    <3>2. [conn[p] EXCEPT !.left = rest, !.work = after] \in Connections
      BY <1>1, <1>6, <3>1 DEF Connections
    <3> QED
      BY <3>2, NoneFacts
  <2> QED
    BY <1>7, <2>1 DEF Open
<1>10. \A q \in Instances \ {p} : conn'[q] = conn[q]
  BY <1>1 DEF TypeOK
<1> QED
  BY <1>1, <1>6, <1>8, <1>9, <1>10 DEF target

\* A commit leaves exactly what the call is for.
LEMMA CommitFacts ==
  ASSUME TypeOK, TransactionInvariant, NEW p \in Instances, Commit(p)
  PROVE  /\ Open(p) /\ conn[p].at = "write" /\ Open(p)' /\ conn'[p].at = "close"
         /\ \A q \in Instances \ {p} : conn'[q] = conn[q]
         /\ table' = Written(request[p], table)
         /\ conn[p].work = None => table' = table
         /\ lock' = (IF lock = p THEN None ELSE lock)
         /\ UNCHANGED <<request, reply>>
<1>1. /\ conn[p] \in Connections /\ Open(p) /\ conn[p].at = "write"
      /\ [conn[p] EXCEPT !.at = "close"] \in Connections
      /\ conn[p].left = <<>> /\ lock' = (IF lock = p THEN None ELSE lock)
      /\ table' = (IF conn[p].work = None THEN table ELSE conn[p].work)
      /\ conn' = [conn EXCEPT ![p] = [conn[p] EXCEPT !.at = "close"]]
      /\ UNCHANGED <<request, reply>>
  BY OpenConnection DEF Commit, Steps, Goto
<1>2. conn'[p] = [conn[p] EXCEPT !.at = "close"]
      /\ \A q \in Instances \ {p} : conn'[q] = conn[q]
  BY <1>1 DEF TypeOK
<1>3. conn'[p].at = "close" /\ Open(p)'
  BY <1>1, <1>2, NoneFacts DEF Connections, Open
<1>4. request[p] \in Requests
  BY <1>1 DEF TransactionInvariant, CallsAreOpen, TypeOK
<1>5. Written(request[p], table) \in Tables
  BY <1>4 DEF Written, Tables, Requests, TypeOK
<1>6. CASE conn[p].work = None
  <2>1. Script(request[p]) = <<>>
    BY <1>1, <1>6 DEF TransactionInvariant, TransactionIsUnderWay
  <2> QED
    BY <1>1, <1>2, <1>3, <1>4, <1>6, <2>1, ScriptCompletes DEF TypeOK
<1>7. CASE conn[p].work # None
  <2>1. Completes(conn[p].work, <<>>, Written(request[p], table))
    BY <1>1, <1>7 DEF TransactionInvariant, TransactionIsUnderWay
  <2>2. conn[p].work \in Tables
    BY <1>1, <1>7 DEF Connections
  <2> QED
    BY <1>1, <1>2, <1>3, <1>5, <1>7, <2>1, <2>2, NothingLeft
<1> QED
  BY <1>6, <1>7

\* A connection that is left, in whatever way, holds nothing any more.
LEMMA LeaveFacts ==
  ASSUME TypeOK, NEW p \in Instances, Leave(p)
  PROVE  /\ ~Open(p)' /\ request' = [request EXCEPT ![p] = None]
         /\ lock' = (IF lock = p THEN None ELSE lock)
         /\ \A q \in Instances \ {p} : conn'[q] = conn[q]
  BY DEF Leave, Open, TypeOK

\* No statement breaks what is known of the transactions.
LEMMA StepKeepsTransactions ==
  ASSUME TypeOK, TransactionInvariant, Next
  PROVE  TransactionInvariant'
<1> USE NoneFacts DEF TransactionInvariant, LockIsTheWriters, CallsAreOpen
<1>1. ASSUME NEW p \in Instances, NEW r \in Requests, Call(p, r) PROVE TransactionInvariant'
  <2> DEFINE c == [at |-> "read", version |-> NoRow, seen |-> {}, left |-> Script(r),
                   work |-> None]
  <2>1. /\ ~Open(p) /\ lock # p
        /\ conn' = [conn EXCEPT ![p] = c] /\ request' = [request EXCEPT ![p] = r]
        /\ UNCHANGED <<table, lock>>
    BY <1>1 DEF Call
  <2>2. conn'[p] = c /\ request'[p] = r
        /\ \A q \in Instances \ {p} : conn'[q] = conn[q] /\ request'[q] = request[q]
    BY <2>1 DEF TypeOK
  <2>3. c \in Connections
    <3>1. Script(r) \in Scripts
      BY ScriptCompletes DEF TypeOK
    <3> QED
      BY <3>1 DEF Connections, Steps, NoRow, DB_SCHEMA_VERSION
  <2>4. c.at = "read" /\ c.left = Script(r) /\ c.work = None
    OBVIOUS
  <2> HIDE DEF c
  <2>5. Open(p)'
    BY <2>2, <2>3 DEF Open
  <2>6. \A q \in Instances : request'[q] # None <=> Open(q)'
    BY <2>2, <2>5 DEF Open
  <2>7. \A q \in Instances : lock' = q <=> (Open(q) /\ conn[q].at = "write" /\ conn[q].work # None)'
    BY <2>1, <2>2, <2>4 DEF Open
  <2>8. \A q \in Instances : TransactionIsUnderWay(q)'
    BY <2>1, <2>2, <2>4 DEF TransactionIsUnderWay, Open
  <2> QED
    BY <2>6, <2>7, <2>8
<1>2. ASSUME NEW p \in Instances, Prepares(p) PROVE TransactionInvariant'
  <2>1. conn[p].work = None /\ conn[p].left = Script(request[p]) /\ lock # p
    BY <1>2 DEF Prepares, TransactionIsUnderWay
  <2>2. \A q \in Instances : request'[q] # None <=> Open(q)'
    BY <1>2 DEF Prepares, Open
  <2>3. \A q \in Instances : lock' = q <=> (Open(q) /\ conn[q].at = "write" /\ conn[q].work # None)'
    BY <1>2, <2>1 DEF Prepares, Open
  <2>4. TransactionIsUnderWay(p)'
    BY <1>2, <2>1 DEF Prepares, TransactionIsUnderWay
  <2>5. \A q \in Instances \ {p} : TransactionIsUnderWay(q)'
    BY <1>2 DEF Prepares, TransactionIsUnderWay, Open
  <2> QED
    BY <2>2, <2>3, <2>4, <2>5
<1>3. ASSUME NEW p \in Instances, Execute(p) PROVE TransactionInvariant'
  <2>1. /\ Open(p) /\ conn[p].at = "write" /\ lock \in {None, p} /\ lock' = p
        /\ Open(p)' /\ conn'[p].at = "write" /\ conn'[p].work \in Tables
        /\ Completes(conn'[p].work, conn'[p].left, Written(request[p], table))
        /\ \A q \in Instances \ {p} : conn'[q] = conn[q]
        /\ UNCHANGED <<table, request, reply>>
    BY <1>3, ExecuteFacts
  <2>2. \A q \in Instances : request'[q] # None <=> Open(q)'
    BY <2>1 DEF Open
  <2>3. \A q \in Instances : lock' = q <=> (Open(q) /\ conn[q].at = "write" /\ conn[q].work # None)'
    BY <2>1 DEF Open
  <2>4. TransactionIsUnderWay(p)'
    BY <2>1 DEF TransactionIsUnderWay
  <2>5. \A q \in Instances \ {p} : TransactionIsUnderWay(q)'
    BY <2>1 DEF TransactionIsUnderWay, Open
  <2> QED
    BY <2>2, <2>3, <2>4, <2>5
<1>4. ASSUME NEW p \in Instances, Commit(p) PROVE TransactionInvariant'
  <2>1. /\ Open(p) /\ conn[p].at = "write" /\ Open(p)' /\ conn'[p].at = "close"
        /\ \A q \in Instances \ {p} : conn'[q] = conn[q]
        /\ conn[p].work = None => table' = table
        /\ lock' = (IF lock = p THEN None ELSE lock)
        /\ UNCHANGED <<request, reply>>
    BY <1>4, CommitFacts
  <2>2. \A q \in Instances : request'[q] # None <=> Open(q)'
    BY <2>1 DEF Open
  <2>3. \A q \in Instances : lock' = q <=> (Open(q) /\ conn[q].at = "write" /\ conn[q].work # None)'
    BY <2>1 DEF Open
  <2>4. TransactionIsUnderWay(p)'
    BY <2>1 DEF TransactionIsUnderWay
  <2>5. ASSUME NEW q \in Instances \ {p} PROVE TransactionIsUnderWay(q)'
    <3>1. CASE table' = table
      BY <2>1, <3>1 DEF TransactionIsUnderWay, Open
    <3>2. CASE table' # table
      <4>1. lock = p
        BY <2>1, <3>2
      <4>2. ~(Open(q) /\ conn[q].at = "write" /\ conn[q].work # None)
        BY <4>1
      <4> QED
        BY <2>1, <4>2 DEF TransactionIsUnderWay, Open
    <3> QED
      BY <3>1, <3>2
  <2> QED
    BY <2>2, <2>3, <2>4, <2>5
<1>5. ASSUME NEW p \in Instances, Close(p) \/ Abort(p) \/ Crash(p) PROVE TransactionInvariant'
  <2>1. /\ ~Open(p)' /\ request' = [request EXCEPT ![p] = None]
        /\ lock' = (IF lock = p THEN None ELSE lock)
        /\ \A q \in Instances \ {p} : conn'[q] = conn[q]
        /\ table' = table
    BY <1>5, LeaveFacts DEF Close, Abort, Crash
  <2>2. \A q \in Instances : request'[q] # None <=> Open(q)'
    BY <2>1 DEF Open, TypeOK
  <2>3. \A q \in Instances : lock' = q <=> (Open(q) /\ conn[q].at = "write" /\ conn[q].work # None)'
    BY <2>1 DEF Open
  <2>4. \A q \in Instances \ {p} : request'[q] = request[q]
    BY <2>1 DEF TypeOK
  <2>5. \A q \in Instances : TransactionIsUnderWay(q)'
    BY <2>1, <2>4 DEF TransactionIsUnderWay, Open
  <2> QED
    BY <2>2, <2>3, <2>5
<1> QED
  BY <1>1, <1>2, <1>3, <1>4, <1>5, SchemaStatementsPrepare DEF Next, Advance

-----------------------------------------------------------------------------
\* A new file, and every file that an earlier release left behind.
LEMMA InitIInv == Init => IInv
<1> SUFFICES ASSUME Init PROVE IInv
  OBVIOUS
<1>1. TypeOK
  BY DEF Init, TypeOK, DB_SCHEMA_VERSION, NoRow, TableNames, StructuredColumns, Tables
<1>2. SchemaInvariant
  BY DEF Init, SchemaInvariant, VersionMatchesSchema, NewFileIsCurrent, SchemaIsAhead, Open,
     DB_SCHEMA_VERSION, NoRow, TableNames
<1>3. TransactionInvariant
  BY NoneFacts DEF Init, TransactionInvariant, LockIsTheWriters, CallsAreOpen,
     TransactionIsUnderWay, Open
<1> QED
  BY <1>1, <1>2, <1>3 DEF IInv

\* The invariant survives every statement, error and crash.
LEMMA NextIInv == IInv /\ [Next]_vars => IInv'
<1>1. ASSUME IInv, Next PROVE IInv'
  <2>1. TypeOK'
    BY <1>1, StepKeepsTypes DEF IInv, TransactionInvariant
  <2>2. SchemaInvariant'
    BY <1>1, <2>1, StepKeepsSchema DEF IInv
  <2>3. TransactionInvariant'
    BY <1>1, StepKeepsTransactions DEF IInv
  <2> QED
    BY <2>1, <2>2, <2>3 DEF IInv
<1>2. ASSUME IInv, UNCHANGED vars PROVE IInv'
  BY <1>2 DEF vars, schemaVars, IInv, TypeOK, SchemaInvariant, VersionMatchesSchema,
     NewFileIsCurrent, SchemaIsAhead, TransactionInvariant, LockIsTheWriters, CallsAreOpen,
     TransactionIsUnderWay, Open
<1> QED
  BY <1>1, <1>2

LEMMA InvariantHolds == Spec => []IInv
  BY InitIInv, NextIInv, PTL DEF Spec

\* Schema, rows and connections keep their types; no connection goes on with a version
\* this release does not know (_connect).
THEOREM TypeCorrect == Spec => []TypeOK
<1>1. IInv => TypeOK
  BY DEF IInv
<1> QED
  BY <1>1, InvariantHolds, PTL

\* A database that says it is current has both tables and both columns, however many
\* instances migrated it at once and whichever of them died (_migrate).
THEOREM CurrentMeansMigrated == Spec => []VersionMatchesSchema
<1>1. IInv => VersionMatchesSchema
  BY DEF IInv, SchemaInvariant
<1> QED
  BY <1>1, InvariantHolds, PTL

\* A database of a later release is read up to its version and not changed (_connect).
THEOREM NewerStaysAsItIs == Spec => NewerIsUntouched
<1>1. IInv /\ [Next]_vars => [version > DB_SCHEMA_VERSION => UNCHANGED <<schemaVars, table>>]_vars
  <2> SUFFICES ASSUME IInv, Next, version > DB_SCHEMA_VERSION
               PROVE  UNCHANGED <<schemaVars, table>>
    OBVIOUS
  <2>1. \A p \in Instances : Open(p) => conn[p].at = "read"
    BY DEF IInv, SchemaInvariant, SchemaIsAhead, TypeOK, DB_SCHEMA_VERSION
  <2>2. \A p \in Instances : \A s \in Steps \ {"read"} : ~At(p, s)
    BY <2>1 DEF At, Open
  <2>3. PICK p \in Instances : (\E r \in Requests : Call(p, r)) \/ Advance(p) \/ Abort(p) \/ Crash(p)
    BY DEF Next
  <2>4. CASE Advance(p)
    BY <2>2, <2>4 DEF Advance, ReadVersion, CreateSettings, CreateHistory, ReadColumns, AddKind,
       AddMetadata, WriteVersion, Execute, Commit, Close, Steps
  <2>5. CASE (\E r \in Requests : Call(p, r)) \/ Abort(p) \/ Crash(p)
    BY <2>5 DEF Call, Abort, Crash
  <2> QED
    BY <2>3, <2>4, <2>5
<1>2. [][version > DB_SCHEMA_VERSION => UNCHANGED <<schemaVars, table>>]_vars <=> NewerIsUntouched
  BY DEF NewerIsUntouched
<1> QED
  BY <1>1, <1>2, InvariantHolds, PTL DEF Spec

-----------------------------------------------------------------------------
\* The instances whose call has had its effect, as the refinement mapping has it.
Effect == {p \in Instances : At(p, "close")}

\* The effect of a step on them.
LEMMA EffectFacts ==
  ASSUME NEW p \in Instances, \A q \in Instances \ {p} : conn'[q] = conn[q]
  PROVE  /\ At(p, "close")' = At(p, "close") => Effect' = Effect
         /\ At(p, "close")' => Effect' = Effect \cup {p}
         /\ ~At(p, "close")' => Effect' = Effect \ {p}
<1>1. \A q \in Instances \ {p} : At(q, "close")' <=> At(q, "close")
  BY DEF At
<1> QED
  BY <1>1 DEF Effect

\* Every step of the store is a step of the register, or none.
LEMMA StepRefines ==
  ASSUME IInv, Next
  PROVE  Register!Next \/ UNCHANGED <<table, request, Effect, reply>>
<1> USE DEF IInv
<1>1. ASSUME NEW p \in Instances, NEW r \in Requests, Call(p, r)
      PROVE  Register!Next
  <2>1. ~Open(p) /\ request[p] = None
    BY <1>1 DEF Call, TransactionInvariant, CallsAreOpen
  <2>2. /\ \A q \in Instances \ {p} : conn'[q] = conn[q]
        /\ conn'[p].at = "read"
    BY <1>1 DEF Call, TypeOK
  <2>3. Effect' = Effect
    BY <2>1, <2>2, EffectFacts DEF At, Open
  <2>4. Register!Call(p, r)
    BY <1>1, <2>3 DEF Call, Register!Call, Effect
  <2> QED
    BY <2>4 DEF Register!Next
<1>2. ASSUME NEW p \in Instances, Prepares(p)
      PROVE  UNCHANGED <<table, request, Effect, reply>>
  BY <1>2, EffectFacts DEF Prepares, At, Open
<1>3. ASSUME NEW p \in Instances, Execute(p)
      PROVE  UNCHANGED <<table, request, Effect, reply>>
  BY <1>3, ExecuteFacts, EffectFacts DEF At, Open
<1>4. ASSUME NEW p \in Instances, Commit(p)
      PROVE  Register!Next
  <2>1. /\ Open(p) /\ conn[p].at = "write" /\ Open(p)' /\ conn'[p].at = "close"
        /\ \A q \in Instances \ {p} : conn'[q] = conn[q]
        /\ table' = Written(request[p], table)
        /\ UNCHANGED <<request, reply>>
    BY <1>4, CommitFacts
  <2>2. request[p] # None
    BY <2>1 DEF TransactionInvariant, CallsAreOpen
  <2>3. p \notin Effect /\ Effect' = Effect \cup {p}
    BY <2>1, EffectFacts DEF At, Open, Effect
  <2>4. Register!TakeEffect(p)
    BY <2>1, <2>2, <2>3 DEF Register!TakeEffect, Effect
  <2> QED
    BY <2>4 DEF Register!Next
<1>5. ASSUME NEW p \in Instances, Leave(p)
      PROVE  request' = [request EXCEPT ![p] = None] /\ Effect' = Effect \ {p}
  BY <1>5, LeaveFacts, EffectFacts DEF At, Open
<1>6. ASSUME NEW p \in Instances, Close(p)
      PROVE  Register!Next
  <2>1. p \in Effect
    BY <1>6 DEF Close, Effect
  <2>2. Register!Return(p)
    BY <1>5, <1>6, <2>1 DEF Close, Register!Return, Effect
  <2> QED
    BY <2>2 DEF Register!Next
<1>7. ASSUME NEW p \in Instances, Abort(p)
      PROVE  Register!Next
  <2>1. request[p] # None /\ p \notin Effect
    BY <1>7 DEF Abort, TransactionInvariant, CallsAreOpen, Open, Effect
  <2>2. Effect' = Effect
    BY <1>5, <1>7, <2>1 DEF Abort
  <2>3. Register!Raise(p)
    BY <1>5, <1>7, <2>1, <2>2 DEF Abort, Register!Raise, Effect
  <2> QED
    BY <2>3 DEF Register!Next
<1>8. ASSUME NEW p \in Instances, Crash(p)
      PROVE  Register!Next
  <2>1. request[p] # None
    BY <1>8 DEF Crash, TransactionInvariant, CallsAreOpen, Open
  <2>2. Register!Crash(p)
    BY <1>5, <1>8, <2>1 DEF Crash, Register!Crash, Effect
  <2> QED
    BY <2>2 DEF Register!Next
<1> QED
  BY <1>1, <1>2, <1>3, <1>4, <1>6, <1>7, <1>8, SchemaStatementsPrepare DEF Next, Advance

\* Every behaviour of the store, with its migrations, locks, errors and crashes, is one of
\* the register: a call has its effect at one instant and entirely, or none
\* (settings_store.py, "Settings and history are saved in one transaction").
THEOREM StoreImplementsRegister == Spec => ImplementsRegister
<1>1. Init => Register!Init
  BY DEF Init, Register!Init, Tables, At
<1>2. IInv /\ [Next]_vars => [Register!Next]_(Register!registerVars)
  <2>1. ASSUME IInv, Next PROVE [Register!Next]_(Register!registerVars)
    BY <2>1, StepRefines DEF Register!registerVars, Effect
  <2>2. ASSUME UNCHANGED vars PROVE UNCHANGED Register!registerVars
    BY <2>2 DEF vars, Register!registerVars, At
  <2> QED
    BY <2>1, <2>2
<1> QED
  BY <1>1, <1>2, InvariantHolds, PTL DEF Spec, ImplementsRegister, Register!Spec
=============================================================================
