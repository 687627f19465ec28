------------------------------ MODULE Repository ------------------------------
(***************************************************************************)
(* The SQLite repository and its object store.  Worker threads share one   *)
(* connection; every method runs under one lock, opens a transaction,      *)
(* executes its statements and commits, and an exception rolls back.  An   *)
(* artifact (a replay manifest, an exported report) is written to a        *)
(* temporary file, renamed, and then entered in its table.  The process    *)
(* may be killed at any of these steps.                                    *)
(***************************************************************************)
EXTENDS Integers, Sequences, FiniteSets

CONSTANTS Caller,     \* worker threads
          Key,        \* primary keys of a table of records
          Value,      \* contents; the name of a file is made of its content
          Task,       \* tasks that events are appended to
          Name,       \* names of task events
          Artifact,   \* ids of artifacts
          Unique,     \* has the table a unique index on its flag
          MaxAppends, \* bound on the events of a task
          MaxCrashes  \* bound on the crashes

VARIABLES table,      \* the committed rows
          entries,    \* the committed rows of task_events: task, seq and name
          artifact,   \* the committed rows of replays and exports
          work,       \* the same three with what the open transaction has changed
          holder,     \* the thread that holds the lock
          call,
          store,      \* how much of a file's content is in the store
          temporary,  \* and in the temporary file of the same name
          crashes

vars == <<table, entries, artifact, work, holder, call, store, temporary, crashes>>
committed == [table |-> table, entries |-> entries, artifact |-> artifact]
database == <<table, entries, artifact>>

Empty == [flagged |-> FALSE, value |-> "none"]
Row == [flagged : BOOLEAN, value : Value]
FileState == {"absent", "part", "whole"}

(* The calls: a whole record is saved or read, an event appended, an       *)
(* artifact saved.                                                         *)
Calls ==
  [kind : {"save"}, on : Key, row : Row] \cup [kind : {"get"}, on : Key]
    \cup [kind : {"append"}, on : Task, name : Name]
    \cup [kind : {"put"}, on : Artifact, value : Value]
Idle == [pc |-> "idle", does |-> [kind |-> "none"], seq |-> 0]

(* _init_schema: a database that is there already is taken as it is.       *)
Init ==
  /\ table = [k \in Key |-> Empty] /\ entries = {} /\ artifact = [a \in Artifact |-> "none"]
  /\ work = committed /\ holder = "free" /\ call = [c \in Caller |-> Idle]
  /\ store = [v \in Value |-> "absent"] /\ temporary = [v \in Value |-> "absent"]
  /\ crashes = 0

-----------------------------------------------------------------------------
At(c, pc) == call[c].pc = pc
Does(c) == call[c].does
GoTo(c, pc) == call' = [call EXCEPT ![c].pc = pc]
Count(rows, t) == Cardinality({e \in rows : e.task = t})

Call(c) ==
  /\ At(c, "idle")
  /\ \E does \in Calls :
       /\ does.kind = "append" => Count(entries, does.on) < MaxAppends
       /\ call' = [call EXCEPT ![c] = [Idle EXCEPT !.pc = "enter", !.does = does]]
  /\ UNCHANGED <<database, work, holder, store, temporary, crashes>>

First == [save |-> "execute", get |-> "fetch", append |-> "count", put |-> "look"]

(* _locked                                                                 *)
Enter(c) ==
  /\ At(c, "enter") /\ holder = "free"
  /\ holder' = c /\ GoTo(c, First[Does(c).kind])
  /\ UNCHANGED <<database, work, store, temporary, crashes>>

Leave(c) == holder' = "free" /\ call' = [call EXCEPT ![c] = Idle]

(* get: one statement, outside any transaction.                            *)
Fetch(c) ==
  /\ At(c, "fetch") /\ Leave(c)
  /\ UNCHANGED <<database, work, store, temporary, crashes>>

(* The table has no unique index. *)
ViolatesNever(k, row) == FALSE

(* save: INSERT ... ON CONFLICT DO UPDATE, or the unique index raises.     *)
Violates(k, row) ==
  Unique /\ row.flagged /\ \E q \in Key \ {k} : work.table[q].flagged

Execute(c) ==
  /\ At(c, "execute")
  /\ LET k == Does(c).on row == Does(c).row
     IN IF Violates(k, row) THEN GoTo(c, "rollback") /\ UNCHANGED work
        ELSE GoTo(c, "commit") /\ work' = [work EXCEPT !.table[k] = row]
  /\ UNCHANGED <<database, holder, store, temporary, crashes>>

(* append_task_event: the sequence number is counted first.                *)
CountEntries(c) ==
  /\ At(c, "count")
  /\ call' = [call EXCEPT ![c] = [pc |-> "insert", does |-> Does(c),
                                  seq |-> Count(work.entries, Does(c).on) + 1]]
  /\ UNCHANGED <<database, work, holder, store, temporary, crashes>>

InsertEntry(c) ==
  /\ At(c, "insert")
  /\ LET row == [task |-> Does(c).on, seq |-> call[c].seq, name |-> Does(c).name]
     IN IF \E e \in work.entries : e.task = row.task /\ e.seq = row.seq
          THEN GoTo(c, "rollback") /\ UNCHANGED work
          ELSE GoTo(c, "commit") /\ work' = [work EXCEPT !.entries = @ \cup {row}]
  /\ UNCHANGED <<database, holder, store, temporary, crashes>>

(* put_bytes: a file that is there already is compared and kept.           *)
LooksForFile(c) ==
  /\ At(c, "look")
  /\ GoTo(c, CASE store[Does(c).value] = "absent" -> "open"
               [] store[Does(c).value] = "part" -> "rollback"
               [] OTHER -> "enter_row")
  /\ UNCHANGED <<database, work, holder, store, temporary, crashes>>

OpensFile(c) ==
  /\ At(c, "open") /\ GoTo(c, "write")
  /\ temporary' = [temporary EXCEPT ![Does(c).value] = "part"]
  /\ UNCHANGED <<database, work, holder, store, crashes>>

WritesFile(c) ==
  /\ At(c, "write") /\ GoTo(c, "rename")
  /\ temporary' = [temporary EXCEPT ![Does(c).value] = "whole"]
  /\ UNCHANGED <<database, work, holder, store, crashes>>

(* A temporary file that another writer has renamed cannot be renamed.     *)
RenamesFile(c) ==
  /\ At(c, "rename")
  /\ LET v == Does(c).value
     IN IF temporary[v] = "absent" THEN GoTo(c, "rollback") /\ UNCHANGED <<store, temporary>>
        ELSE /\ GoTo(c, "enter_row")
             /\ store' = [store EXCEPT ![v] = temporary[v]]
             /\ temporary' = [temporary EXCEPT ![v] = "absent"]
  /\ UNCHANGED <<database, work, holder, crashes>>

EntersArtifact(c) ==
  /\ At(c, "enter_row") /\ GoTo(c, "commit")
  /\ work' = [work EXCEPT !.artifact[Does(c).on] = Does(c).value]
  /\ UNCHANGED <<database, holder, store, temporary, crashes>>

Commit(c) ==
  /\ At(c, "commit") /\ Leave(c)
  /\ table' = work.table /\ entries' = work.entries /\ artifact' = work.artifact
  /\ UNCHANGED <<work, store, temporary, crashes>>

(* The exception goes to the caller. *)
Rollback(c) ==
  /\ At(c, "rollback") /\ Leave(c) /\ work' = committed
  /\ UNCHANGED <<database, store, temporary, crashes>>

(* A killed process keeps what was committed and the files.                *)
Crash ==
  /\ crashes < MaxCrashes /\ crashes' = crashes + 1
  /\ holder' = "free" /\ call' = [c \in Caller |-> Idle] /\ work' = committed
  /\ UNCHANGED <<database, store, temporary>>

Next ==
  \/ \E c \in Caller :
       \/ Call(c) \/ Enter(c) \/ Fetch(c) \/ Execute(c) \/ CountEntries(c) \/ InsertEntry(c)
       \/ LooksForFile(c) \/ OpensFile(c) \/ WritesFile(c) \/ RenamesFile(c)
       \/ EntersArtifact(c) \/ Commit(c) \/ Rollback(c)
  \/ Crash

Spec == Init /\ [][Next]_vars

-----------------------------------------------------------------------------
(* PROPERTIES *)

(* Every variable has its type.                                            *)
TypeOK ==
  /\ table \in [Key -> Row \cup {Empty}] /\ artifact \in [Artifact -> Value \cup {"none"}]
  /\ entries \subseteq [task : Task, seq : Nat \ {0}, name : Name]
  /\ holder \in Caller \cup {"free"} /\ crashes \in Nat
  /\ store \in [Value -> FileState] /\ temporary \in [Value -> FileState]
  /\ call \in [Caller -> [pc : {"idle", "enter", "fetch", "execute", "count", "insert", "look",
                                "open", "write", "rename", "enter_row", "commit", "rollback"},
                          does : Calls \cup {[kind |-> "none"]}, seq : Nat]]

(* Under the lock one transaction is open at a time, so that nobody's      *)
(* commit carries another's statements: with the lock free, what was       *)
(* worked on is what is committed.                                         *)
NothingHalfDone == holder = "free" => work = committed

(* With the unique index one committed row at most has the flag.           *)
OneFlagged == Unique => \A k, q \in Key : table[k].flagged /\ table[q].flagged => k = q

(* The repository implements its promise, whatever calls overlap and       *)
(* wherever a crash falls.                                                 *)
Promise == INSTANCE Records WITH
  rows <- table, artifacts <- artifact, files <- {v \in Value : store[v] = "whole"},
  log <- [t \in Task |-> [i \in 1..Count(entries, t) |->
            (CHOOSE e \in entries : e.task = t /\ e.seq = i).name]]
KeepsItsPromise == Promise!Spec
=============================================================================
