--------------------------- MODULE Repository_proofs ---------------------------
(***************************************************************************)
(* What the lock and the unique index of the SQLite repository give to     *)
(* every caller: a transaction is open only for the thread that holds the  *)
(* lock, what it has done so far is committed or dropped before the lock   *)
(* is free, no two committed rows have the flag, and the whole implements  *)
(* the atomic calls of Records.                                            *)
(***************************************************************************)
EXTENDS Repository, FiniteSetTheorems, SequenceTheorems, TLAPS

Saving == [kind : {"save"}, on : Key, row : Row]

(* A call is a record of its thread, and one that is to execute its        *)
(* statement saves a row.                                                  *)
CallsFit ==
  /\ DOMAIN call = Caller
  /\ \A c \in Caller :
       /\ call[c] = [pc |-> call[c].pc, does |-> call[c].does, seq |-> call[c].seq]
       /\ call[c].pc = "enter" => call[c].does \in Calls
       /\ call[c].pc = "execute" => call[c].does \in Saving

WorkFits ==
  /\ DOMAIN work.table = Key
  /\ work = [table |-> work.table, entries |-> work.entries, artifact |-> work.artifact]

HolderIsInside == \A c \in Caller : call[c].pc \notin {"idle", "enter"} => holder = c

OneFlagIn(t) == \A k, q \in Key : t[k].flagged /\ t[q].flagged => k = q

OneFlagEverywhere == OneFlagIn(work.table) /\ OneFlagIn(table)

(* Only a thread that has executed its statement has changed anything.     *)
CleanUnlessEnding ==
  (\A c \in Caller : call[c].pc \notin {"commit", "rollback"}) => work = committed

LockInv == CallsFit /\ WorkFits /\ DOMAIN table = Key /\ HolderIsInside /\ CleanUnlessEnding

-----------------------------------------------------------------------------
USE DEF At, Does

(* A thread that goes on keeps its call.                                   *)
LEMMA GoesOn ==
  ASSUME CallsFit, NEW c \in Caller, NEW pc, GoTo(c, pc)
  PROVE  /\ DOMAIN call' = Caller
         /\ call'[c] = [pc |-> pc, does |-> call[c].does, seq |-> call[c].seq]
         /\ \A d \in Caller \ {c} : call'[d] = call[d]
BY DEF CallsFit, GoTo

LEMMA GoesOnFit ==
  ASSUME CallsFit, NEW c \in Caller, NEW pc, GoTo(c, pc), pc # "enter",
         pc = "execute" => call[c].does \in Saving
  PROVE  CallsFit'
<1>1. ASSUME NEW d \in Caller \ {c}
      PROVE  /\ call'[d] = [pc |-> call'[d].pc, does |-> call'[d].does, seq |-> call'[d].seq]
             /\ call'[d].pc = "enter" => call'[d].does \in Calls
             /\ call'[d].pc = "execute" => call'[d].does \in Saving
  BY GoesOn DEF CallsFit
<1>2. /\ call'[c] = [pc |-> call'[c].pc, does |-> call'[c].does, seq |-> call'[c].seq]
      /\ call'[c].pc # "enter"
      /\ call'[c].pc = "execute" => call'[c].does \in Saving
  <2>1. call'[c] = [pc |-> pc, does |-> call[c].does, seq |-> call[c].seq] BY GoesOn
  <2>. QED BY <2>1
<1>. QED BY <1>1, <1>2, GoesOn DEF CallsFit

(* A thread that holds the lock and goes on inside: it may change what it  *)
(* works on only by going to the commit or to the rollback.                *)
LEMMA InsideStays ==
  ASSUME LockInv, NEW c \in Caller, NEW pc, pc \notin {"idle", "enter", "execute"},
         call[c].pc \notin {"idle", "enter", "commit", "rollback"}, GoTo(c, pc),
         UNCHANGED <<database, holder>>, WorkFits',
         pc \in {"commit", "rollback"} \/ UNCHANGED work
  PROVE  LockInv'
<1>1. CallsFit' BY GoesOnFit DEF LockInv
<1>2. holder = c BY DEF LockInv, HolderIsInside
<1>3. HolderIsInside'
  <2>1. \A d \in Caller \ {c} : call'[d] = call[d] BY GoesOn DEF LockInv
  <2>. QED BY <1>2, <2>1 DEF LockInv, HolderIsInside
<1>4. CASE pc \in {"commit", "rollback"}
  <2>1. call'[c] = [pc |-> pc, does |-> call[c].does, seq |-> call[c].seq]
    BY GoesOn DEF LockInv
  <2>2. call'[c].pc = pc BY <2>1
  <2>3. CleanUnlessEnding' BY <1>4, <2>2 DEF CleanUnlessEnding
  <2>. QED BY <1>1, <1>3, <2>3 DEF LockInv, database
<1>5. CASE pc \notin {"commit", "rollback"} /\ UNCHANGED work
  <2>1. \A d \in Caller : call[d].pc \notin {"commit", "rollback"}
    BY <1>2 DEF LockInv, HolderIsInside
  <2>2. work = committed BY <2>1 DEF LockInv, CleanUnlessEnding
  <2>3. work' = committed' BY <1>5, <2>2 DEF committed, database
  <2>. QED BY <1>1, <1>3, <2>3 DEF LockInv, CleanUnlessEnding, database
<1>. QED BY <1>4, <1>5

(* A thread that leaves leaves nothing open.                               *)
LEMMA LeavesClean ==
  ASSUME LockInv, NEW c \in Caller, call[c].pc \notin {"idle", "enter"}, Leave(c),
         WorkFits', DOMAIN table' = Key, work' = committed'
  PROVE  LockInv'
<1>1. /\ DOMAIN call' = Caller /\ call'[c] = Idle
      /\ \A d \in Caller \ {c} : call'[d] = call[d]
  BY DEF Leave, LockInv, CallsFit
<1>2. \A d \in Caller \ {c} : call[d].pc \in {"idle", "enter"}
  BY DEF LockInv, HolderIsInside
<1>3. ASSUME NEW d \in Caller
      PROVE  /\ call'[d] = [pc |-> call'[d].pc, does |-> call'[d].does, seq |-> call'[d].seq]
             /\ call'[d].pc = "enter" => call'[d].does \in Calls
             /\ call'[d].pc \in {"idle", "enter"}
  <2>1. CASE d = c BY <1>1, <2>1 DEF Idle
  <2>2. CASE d # c BY <1>1, <1>2, <2>2 DEF LockInv, CallsFit
  <2>. QED BY <2>1, <2>2
<1>4. CallsFit' /\ HolderIsInside' BY <1>1, <1>3 DEF CallsFit, HolderIsInside
<1>. QED BY <1>4 DEF LockInv, CleanUnlessEnding

(* While a thread is inside and has not ended, nothing is changed.         *)
LEMMA InsideIsClean ==
  ASSUME LockInv, NEW c \in Caller, call[c].pc \notin {"idle", "enter", "commit", "rollback"}
  PROVE  work = committed
BY DEF LockInv, HolderIsInside, CleanUnlessEnding

LEMMA LockStep == "free" \notin Caller /\ LockInv /\ [Next]_vars => LockInv'
<1>. SUFFICES ASSUME "free" \notin Caller, LockInv, [Next]_vars PROVE LockInv' OBVIOUS
<1>1. CASE UNCHANGED vars
  BY <1>1 DEF vars, LockInv, CallsFit, WorkFits, HolderIsInside, CleanUnlessEnding, committed
<1>2. ASSUME NEW c \in Caller, Call(c) PROVE LockInv'
  <2>1. PICK does \in Calls :
          call' = [call EXCEPT ![c] = [Idle EXCEPT !.pc = "enter", !.does = does]]
    BY <1>2 DEF Call
  <2>2. /\ DOMAIN call' = Caller
        /\ call'[c] = [pc |-> "enter", does |-> does, seq |-> 0]
        /\ \A d \in Caller \ {c} : call'[d] = call[d]
    BY <2>1 DEF LockInv, CallsFit, Idle
  <2>3. CallsFit' BY <2>2 DEF LockInv, CallsFit
  <2>4. HolderIsInside' /\ CleanUnlessEnding'
    BY <1>2, <2>2 DEF Call, LockInv, HolderIsInside, CleanUnlessEnding, committed, database
  <2>. QED BY <1>2, <2>3, <2>4 DEF Call, LockInv, WorkFits, database
<1>3. ASSUME NEW c \in Caller, Enter(c) PROVE LockInv'
  <2>. DEFINE pc == First[Does(c).kind]
  <2>1. /\ call[c].does \in Calls /\ GoTo(c, pc) /\ holder = "free" /\ holder' = c
        /\ UNCHANGED <<database, work>>
    BY <1>3 DEF Enter, LockInv, CallsFit
  <2>2. /\ pc = "execute" => call[c].does \in Saving
        /\ pc \notin {"idle", "enter"}
    BY <2>1 DEF Calls, First, Saving
  <2>. HIDE DEF pc
  <2>3. CallsFit' BY <2>1, <2>2, GoesOnFit DEF LockInv
  <2>4. \A d \in Caller \ {c} : call'[d] = call[d] BY <2>1, GoesOn DEF LockInv
  <2>5. \A d \in Caller : call[d].pc \in {"idle", "enter"}
    BY <2>1 DEF LockInv, HolderIsInside
  <2>6. work = committed BY <2>5 DEF LockInv, CleanUnlessEnding
  <2>7. HolderIsInside' BY <2>1, <2>4, <2>5 DEF HolderIsInside
  <2>8. WorkFits' /\ work' = committed' BY <2>1, <2>6 DEF LockInv, WorkFits, committed, database
  <2>. QED BY <2>1, <2>3, <2>7, <2>8 DEF LockInv, CleanUnlessEnding, database
<1>4. ASSUME NEW c \in Caller, Fetch(c) PROVE LockInv'
  <2>1. work = committed BY <1>4, InsideIsClean DEF Fetch
  <2>2. /\ Leave(c) /\ UNCHANGED <<database, work>> /\ call[c].pc \notin {"idle", "enter"}
    BY <1>4 DEF Fetch
  <2>. QED BY <2>1, <2>2, LeavesClean DEF LockInv, WorkFits, committed, database
<1>5. ASSUME NEW c \in Caller, Execute(c) PROVE LockInv'
  <2>1. \/ GoTo(c, "rollback") /\ UNCHANGED work
        \/ GoTo(c, "commit") /\ work' = [work EXCEPT !.table[Does(c).on] = Does(c).row]
    BY <1>5 DEF Execute
  <2>2. WorkFits' BY <2>1 DEF LockInv, WorkFits
  <2>. QED BY <1>5, <2>1, <2>2, InsideStays DEF Execute
<1>6. ASSUME NEW c \in Caller, CountEntries(c) PROVE LockInv'
  <2>. DEFINE n == Count(work.entries, Does(c).on) + 1
  <2>1. /\ call' = [call EXCEPT ![c] = [pc |-> "insert", does |-> Does(c), seq |-> n]]
        /\ call[c].pc = "count" /\ UNCHANGED <<database, work, holder>>
    BY <1>6 DEF CountEntries
  <2>. HIDE DEF n
  <2>2. /\ DOMAIN call' = Caller
        /\ call'[c] = [pc |-> "insert", does |-> call[c].does, seq |-> n]
        /\ \A d \in Caller \ {c} : call'[d] = call[d]
    BY <2>1 DEF LockInv, CallsFit
  <2>3. CallsFit' BY <2>2 DEF LockInv, CallsFit
  <2>4. holder = c BY <2>1 DEF LockInv, HolderIsInside
  <2>5. HolderIsInside' BY <2>1, <2>2, <2>4 DEF LockInv, HolderIsInside
  <2>6. work = committed BY <2>1, InsideIsClean
  <2>7. WorkFits' /\ work' = committed' BY <2>1, <2>6 DEF LockInv, WorkFits, committed, database
  <2>. QED BY <2>1, <2>3, <2>5, <2>7 DEF LockInv, CleanUnlessEnding, database
<1>7. ASSUME NEW c \in Caller, InsertEntry(c) PROVE LockInv'
  <2>1. /\ (GoTo(c, "rollback") /\ UNCHANGED work) \/ GoTo(c, "commit")
        /\ WorkFits'
    BY <1>7 DEF InsertEntry, LockInv, WorkFits
  <2>. QED BY <1>7, <2>1, InsideStays DEF InsertEntry
<1>8. ASSUME NEW c \in Caller, LooksForFile(c) PROVE LockInv'
  <2>1. PICK pc \in {"open", "rollback", "enter_row"} : GoTo(c, pc)
    BY <1>8 DEF LooksForFile
  <2>. QED BY <1>8, <2>1, InsideStays DEF LooksForFile, LockInv, WorkFits
<1>9. ASSUME NEW c \in Caller, OpensFile(c) \/ WritesFile(c) \/ RenamesFile(c) PROVE LockInv'
  <2>1. PICK pc \in {"write", "rename", "rollback", "enter_row"} : GoTo(c, pc)
    BY <1>9 DEF OpensFile, WritesFile, RenamesFile
  <2>. QED BY <1>9, <2>1, InsideStays DEF OpensFile, WritesFile, RenamesFile, LockInv, WorkFits
<1>10. ASSUME NEW c \in Caller, EntersArtifact(c) PROVE LockInv'
  <2>1. WorkFits' BY <1>10 DEF EntersArtifact, LockInv, WorkFits
  <2>. QED BY <1>10, <2>1, InsideStays DEF EntersArtifact
<1>11. ASSUME NEW c \in Caller, Commit(c) PROVE LockInv'
  <2>1. work' = committed' /\ WorkFits' /\ DOMAIN table' = Key
    BY <1>11 DEF Commit, LockInv, WorkFits, committed
  <2>. QED BY <1>11, <2>1, LeavesClean DEF Commit
<1>12. ASSUME NEW c \in Caller, Rollback(c) PROVE LockInv'
  <2>1. work' = committed' /\ WorkFits' /\ DOMAIN table' = Key
    BY <1>12 DEF Rollback, LockInv, WorkFits, committed, database
  <2>. QED BY <1>12, <2>1, LeavesClean DEF Rollback
<1>13. CASE Crash
  <2>1. work' = committed' /\ WorkFits' /\ DOMAIN table' = Key
    BY <1>13 DEF Crash, LockInv, WorkFits, committed, database
  <2>2. CallsFit' /\ HolderIsInside'
    BY <1>13 DEF Crash, CallsFit, HolderIsInside, Idle
  <2>. QED BY <2>1, <2>2 DEF LockInv, CleanUnlessEnding
<1>. QED BY <1>1, <1>2, <1>3, <1>4, <1>5, <1>6, <1>7, <1>8, <1>9, <1>10, <1>11, <1>12, <1>13
         DEF Next

LEMMA LockInit == Init => LockInv
<1>. SUFFICES ASSUME Init PROVE LockInv OBVIOUS
<1>1. CallsFit BY DEF Init, CallsFit, Idle
<1>2. WorkFits /\ DOMAIN table = Key BY DEF Init, WorkFits, committed
<1>3. HolderIsInside BY DEF Init, HolderIsInside, Idle
<1>4. CleanUnlessEnding BY DEF Init, CleanUnlessEnding
<1>. QED BY <1>1, <1>2, <1>3, <1>4 DEF LockInv

(* Whenever the lock is free nothing is half done: no thread's commit can  *)
(* carry what another has begun.                                           *)
THEOREM LockCorrect == "free" \notin Caller => (Spec => []NothingHalfDone)
<1>. SUFFICES ASSUME "free" \notin Caller PROVE Spec => []NothingHalfDone OBVIOUS
<1>1. LockInv => NothingHalfDone
  <2>. SUFFICES ASSUME LockInv, holder = "free" PROVE work = committed BY DEF NothingHalfDone
  <2>1. \A c \in Caller : call[c].pc \in {"idle", "enter"} BY DEF LockInv, HolderIsInside
  <2>. QED BY <2>1 DEF LockInv, CleanUnlessEnding
<1>2. LockInv /\ [Next]_vars => LockInv' BY LockStep
<1>. QED BY <1>1, <1>2, LockInit, PTL DEF Spec

-----------------------------------------------------------------------------
(* The index looks at what the transaction works on, and only one is open. *)
FlagInv == LockInv /\ OneFlagEverywhere

LEMMA FlagStep ==
  ASSUME Unique, "free" \notin Caller, FlagInv, [Next]_vars
  PROVE  FlagInv'
<1>1. LockInv' BY LockStep DEF FlagInv
<1>2. CASE UNCHANGED <<table, work>> BY <1>1, <1>2 DEF FlagInv, OneFlagEverywhere, OneFlagIn
<1>3. ASSUME NEW c \in Caller, Execute(c) PROVE FlagInv'
  <2>1. call[c].does \in Saving BY <1>3 DEF Execute, FlagInv, LockInv, CallsFit
  <2>. DEFINE k == call[c].does.on  row == call[c].does.row
  <2>2. CASE UNCHANGED work BY <1>1, <1>3, <2>2 DEF Execute, FlagInv, OneFlagEverywhere, OneFlagIn, database
  <2>3. CASE ~Violates(k, row) /\ work' = [work EXCEPT !.table[k] = row]
    <3>1. /\ k \in Key /\ work'.table = [work.table EXCEPT ![k] = row]
          /\ DOMAIN work.table = Key
      BY <2>1, <2>3 DEF Saving, FlagInv, LockInv, WorkFits
    <3>2. ~row.flagged \/ \A q \in Key \ {k} : ~work.table[q].flagged BY <2>3 DEF Violates
    <3>. HIDE DEF k, row
    <3>3. OneFlagIn(work.table)' BY <3>1, <3>2 DEF FlagInv, OneFlagEverywhere, OneFlagIn
    <3>. QED BY <1>1, <1>3, <3>3 DEF Execute, FlagInv, OneFlagEverywhere, OneFlagIn, database
  <2>. QED BY <1>3, <2>2, <2>3 DEF Execute
<1>4. ASSUME NEW c \in Caller, InsertEntry(c) \/ EntersArtifact(c) PROVE FlagInv'
  <2>1. work'.table = work.table /\ UNCHANGED table
    BY <1>4 DEF InsertEntry, EntersArtifact, FlagInv, LockInv, WorkFits, database
  <2>. QED BY <1>1, <2>1 DEF FlagInv, OneFlagEverywhere, OneFlagIn
<1>5. ASSUME NEW c \in Caller, Commit(c) PROVE FlagInv'
  BY <1>1, <1>5 DEF Commit, FlagInv, OneFlagEverywhere, OneFlagIn
<1>6. CASE Crash \/ \E c \in Caller : Rollback(c)
  <2>1. work' = committed /\ UNCHANGED table BY <1>6 DEF Crash, Rollback, database
  <2>2. work'.table = table BY <2>1 DEF committed
  <2>. QED BY <1>1, <2>1, <2>2 DEF FlagInv, OneFlagEverywhere, OneFlagIn
<1>7. ASSUME NEW c \in Caller,
             Call(c) \/ Enter(c) \/ Fetch(c) \/ CountEntries(c) \/ LooksForFile(c)
               \/ OpensFile(c) \/ WritesFile(c) \/ RenamesFile(c)
      PROVE  UNCHANGED <<table, work>>
  BY <1>7 DEF Call, Enter, Fetch, CountEntries, LooksForFile, OpensFile, WritesFile, RenamesFile,
             database
<1>8. CASE UNCHANGED vars BY <1>2, <1>8 DEF vars
<1>. QED BY <1>2, <1>3, <1>4, <1>5, <1>6, <1>7, <1>8 DEF Next

(* With the index no two committed rows have the flag, in whatever order   *)
(* transactions come and wherever a crash falls: what SceneCatalog and     *)
(* PolicyGovernance take for granted of a save.                            *)
THEOREM IndexCorrect == Unique /\ "free" \notin Caller => (Spec => []OneFlagged)
<1>. SUFFICES ASSUME Unique, "free" \notin Caller PROVE Spec => []OneFlagged OBVIOUS
<1>1. Init => FlagInv
  <2>1. Init => OneFlagEverywhere
    BY DEF Init, OneFlagEverywhere, OneFlagIn, Empty, committed
  <2>. QED BY <2>1, LockInit DEF FlagInv
<1>2. FlagInv /\ [Next]_vars => FlagInv' BY FlagStep
<1>3. FlagInv => OneFlagged BY DEF FlagInv, OneFlagEverywhere, OneFlagIn, OneFlagged
<1>. QED BY <1>1, <1>2, <1>3, PTL DEF Spec
-----------------------------------------------------------------------------
(* The repository implements Records.                                      *)

Appending == [kind : {"append"}, on : Task, name : Name]
Putting == [kind : {"put"}, on : Artifact, value : Value]

RowsOf(E, t) == {e \in E : e.task = t}

(* The events of each task are numbered from one on without a gap.         *)
Numbered(E) ==
  /\ E \subseteq [task : Task, seq : Nat, name : Name]
  /\ \A t \in Task :
       /\ IsFiniteSet(RowsOf(E, t))
       /\ \A e \in RowsOf(E, t) : e.seq \in 1..Count(E, t)
       /\ \A i \in 1..Count(E, t) : \E e \in RowsOf(E, t) : e.seq = i
  /\ \A e, f \in E : e.task = f.task /\ e.seq = f.seq => e = f

NextEntry(does) == [task |-> does.on, seq |-> Count(entries, does.on) + 1, name |-> does.name]

(* What a thread has done that is about to commit: one call of Records.    *)
HasSaved(does) ==
  /\ does \in Saving /\ work = [committed EXCEPT !.table[does.on] = does.row]
  /\ Unique /\ does.row.flagged => \A q \in Key \ {does.on} : ~table[q].flagged
HasAppended(does) ==
  does \in Appending /\ work = [committed EXCEPT !.entries = @ \cup {NextEntry(does)}]
HasPut(does) ==
  /\ does \in Putting /\ work = [committed EXCEPT !.artifact[does.on] = does.value]
  /\ store[does.value] = "whole"

(* What a thread that is inside has reached.                               *)
Ready(c) ==
  LET pc == call[c].pc  does == call[c].does
  IN /\ pc = "execute" => does \in Saving
     /\ pc \in {"count", "insert"} => does \in Appending
     /\ pc = "insert" => call[c].seq = Count(entries, does.on) + 1
     /\ pc \in {"look", "open", "write", "rename", "enter_row"} => does \in Putting
     /\ pc = "rename" => temporary[does.value] = "whole"
     /\ pc = "enter_row" => store[does.value] = "whole"
     /\ pc = "commit" => HasSaved(does) \/ HasAppended(does) \/ HasPut(does)

PromiseInv ==
  /\ LockInv /\ Numbered(entries) /\ DOMAIN artifact = Artifact
  /\ store \in [Value -> {"absent", "whole"}] /\ temporary \in [Value -> FileState]
  /\ \A c \in Caller : Ready(c)

-----------------------------------------------------------------------------
LEMMA InsideAlone ==
  ASSUME LockInv, NEW c \in Caller, call[c].pc \notin {"idle", "enter"}
  PROVE  \A d \in Caller \ {c} : call[d].pc \in {"idle", "enter"}
BY DEF LockInv, HolderIsInside

(* The thread that is inside has moved, or has left.                       *)
LEMMA OneMoves ==
  ASSUME PromiseInv, LockInv', NEW c \in Caller,
         \A d \in Caller \ {c} : call[d].pc \in {"idle", "enter"} /\ call'[d] = call[d],
         Numbered(entries)', DOMAIN artifact' = Artifact,
         store' \in [Value -> {"absent", "whole"}], temporary' \in [Value -> FileState],
         Ready(c)'
  PROVE  PromiseInv'
<1>1. ASSUME NEW d \in Caller \ {c} PROVE Ready(d)'
  <2>1. call'[d].pc \in {"idle", "enter"} OBVIOUS
  <2>. QED BY <2>1 DEF Ready
<1>2. \A d \in Caller : Ready(d)' BY <1>1
<1>. QED BY <1>2 DEF PromiseInv

(* Numbered entries are found by their number.                             *)
LEMMA EntryIs ==
  ASSUME NEW E, Numbered(E), NEW f \in E
  PROVE  (CHOOSE e \in E : e.task = f.task /\ e.seq = f.seq) = f
<1>1. \A e \in E : e.task = f.task /\ e.seq = f.seq <=> e = f BY DEF Numbered
<1>. QED BY <1>1

LEMMA CountIsNat ==
  ASSUME NEW E, Numbered(E), NEW t \in Task PROVE Count(E, t) \in Nat
BY FS_CardinalityType DEF Numbered, Count, RowsOf

LEMMA NumberedGrows ==
  ASSUME NEW E, Numbered(E), NEW t \in Task, NEW n \in Name,
         NEW row, row = [task |-> t, seq |-> Count(E, t) + 1, name |-> n]
  PROVE  /\ Count(E \cup {row}, t) = Count(E, t) + 1
         /\ \A u \in Task \ {t} : Count(E \cup {row}, u) = Count(E, u)
         /\ Numbered(E \cup {row})
<1>. DEFINE F == E \cup {row}
<1>1. row.task = t /\ row.seq = Count(E, t) + 1 /\ row.name = n OBVIOUS
<1>2. Count(E, t) \in Nat BY CountIsNat
<1>3. row \notin RowsOf(E, t) BY <1>1, <1>2 DEF Numbered
<1>4. RowsOf(F, t) = RowsOf(E, t) \cup {row} BY <1>1 DEF RowsOf
<1>5. IsFiniteSet(RowsOf(F, t)) /\ Cardinality(RowsOf(F, t)) = Cardinality(RowsOf(E, t)) + 1
  <2>1. IsFiniteSet(RowsOf(E, t)) BY DEF Numbered
  <2>2. IsFiniteSet(RowsOf(E, t) \cup {row})
    BY <2>1, FS_AddElement
  <2>3. Cardinality(RowsOf(E, t) \cup {row}) = Cardinality(RowsOf(E, t)) + 1
    BY <1>3, <2>1, FS_AddElement
  <2>. QED BY <1>4, <2>2, <2>3
<1>6. Count(F, t) = Count(E, t) + 1 BY <1>5 DEF Count, RowsOf
<1>f. F = E \cup {row} OBVIOUS
<1>. HIDE DEF F
<1>7. \A u \in Task \ {t} : RowsOf(F, u) = RowsOf(E, u) BY <1>1, <1>f DEF RowsOf
<1>8. \A u \in Task \ {t} : Count(F, u) = Count(E, u) BY <1>7 DEF Count, RowsOf
<1>9. F \subseteq [task : Task, seq : Nat, name : Name]
  <2>1. row \in [task : Task, seq : Nat, name : Name] BY <1>2
  <2>. QED BY <1>f, <2>1 DEF Numbered
<1>10. ASSUME NEW u \in Task
       PROVE  /\ IsFiniteSet(RowsOf(F, u))
              /\ \A e \in RowsOf(F, u) : e.seq \in 1..Count(F, u)
              /\ \A i \in 1..Count(F, u) : \E e \in RowsOf(F, u) : e.seq = i
  <2>1. CASE u # t BY <1>7, <1>8, <2>1 DEF Numbered
  <2>2. CASE u = t
    <3>1. \A e \in RowsOf(E, t) : e.seq \in 1..Count(E, t) BY DEF Numbered
    <3>2. \A i \in 1..Count(E, t) : \E e \in RowsOf(E, t) : e.seq = i BY DEF Numbered
    <3>3. ASSUME NEW e \in RowsOf(F, t) PROVE e.seq \in 1..Count(F, t)
      <4>1. CASE e = row BY <1>1, <1>2, <1>6, <4>1
      <4>2. CASE e \in RowsOf(E, t)
        <5>1. e.seq \in 1..Count(E, t) BY <3>1, <4>2
        <5>. QED BY <1>2, <1>6, <5>1
      <4>. QED BY <1>4, <4>1, <4>2
    <3>4. ASSUME NEW i \in 1..Count(F, t) PROVE \E e \in RowsOf(F, t) : e.seq = i
      <4>1. CASE i = Count(E, t) + 1 BY <1>1, <1>4, <4>1
      <4>2. CASE i \in 1..Count(E, t) BY <1>4, <3>2, <4>2
      <4>. QED BY <1>2, <1>6, <4>1, <4>2
    <3>. QED BY <1>5, <2>2, <3>3, <3>4
  <2>. QED BY <2>1, <2>2
<1>11. ASSUME NEW e \in F, NEW f \in F, e.task = f.task, e.seq = f.seq PROVE e = f
  <2>1. ASSUME NEW g \in E, g.task = t PROVE g.seq # row.seq
    <3>1. g.seq \in 1..Count(E, t) BY <2>1 DEF Numbered, RowsOf
    <3>. QED BY <1>1, <1>2, <3>1
  <2>. QED BY <1>1, <1>11, <1>f, <2>1 DEF Numbered
<1>12. Numbered(F) BY <1>9, <1>10, <1>11 DEF Numbered
<1>. QED BY <1>6, <1>f, <1>8, <1>12

LEMMA PromiseStep == "free" \notin Caller /\ PromiseInv /\ [Next]_vars => PromiseInv'
<1>. SUFFICES ASSUME "free" \notin Caller, PromiseInv, [Next]_vars PROVE PromiseInv' OBVIOUS
<1>. USE DEF PromiseInv
<1>0. LockInv' BY LockStep
<1>1. CASE UNCHANGED vars
  BY <1>1 DEF vars, LockInv, CallsFit, WorkFits, HolderIsInside, CleanUnlessEnding, committed, Ready,
     HasSaved, HasAppended, HasPut, NextEntry
<1>2. ASSUME NEW c \in Caller, Call(c) PROVE PromiseInv'
  <2>1. PICK does \in Calls :
          call' = [call EXCEPT ![c] = [Idle EXCEPT !.pc = "enter", !.does = does]]
    BY <1>2 DEF Call
  <2>2. /\ call'[c] = [pc |-> "enter", does |-> does, seq |-> 0]
        /\ \A d \in Caller \ {c} : call'[d] = call[d]
    BY <2>1 DEF LockInv, CallsFit, Idle
  <2>3. ASSUME NEW d \in Caller PROVE Ready(d)'
    <3>1. CASE d = c BY <2>2, <3>1 DEF Ready
    <3>2. CASE d # c
      BY <1>2, <2>2, <3>2 DEF Ready, HasSaved, HasAppended, HasPut, NextEntry, Call, database, committed
    <3>. QED BY <3>1, <3>2
  <2>. QED BY <1>0, <1>2, <2>3 DEF Call, database
<1>3. ASSUME NEW c \in Caller, Enter(c) PROVE PromiseInv'
  <2>. DEFINE pc == First[Does(c).kind]
  <2>1. /\ call[c].does \in Calls /\ GoTo(c, pc) /\ holder = "free"
        /\ UNCHANGED <<database, work, store, temporary>>
    BY <1>3 DEF Enter, LockInv, CallsFit
  <2>2. /\ pc = "execute" => call[c].does \in Saving
        /\ pc \in {"count", "insert"} => call[c].does \in Appending
        /\ pc = "look" => call[c].does \in Putting
        /\ pc \in {"execute", "fetch", "count", "look"}
    BY <2>1 DEF Calls, First, Saving, Appending, Putting
  <2>. HIDE DEF pc
  <2>3. /\ call'[c] = [pc |-> pc, does |-> call[c].does, seq |-> call[c].seq]
        /\ \A d \in Caller \ {c} : call'[d] = call[d]
    BY <2>1, GoesOn DEF LockInv
  <2>4. \A d \in Caller \ {c} : call[d].pc \in {"idle", "enter"}
    BY <2>1 DEF LockInv, HolderIsInside
  <2>5. call'[c].pc = pc /\ call'[c].does = call[c].does BY <2>3
  <2>6. Ready(c)' BY <2>2, <2>5 DEF Ready
  <2>7. UNCHANGED <<entries, artifact>> BY <2>1 DEF database
  <2>8. Numbered(entries)' BY <2>7
  <2>. QED BY <1>0, <2>1, <2>3, <2>4, <2>6, <2>7, <2>8, OneMoves
<1>4. ASSUME NEW c \in Caller, Fetch(c) \/ Commit(c) \/ Rollback(c) PROVE PromiseInv'
  <2>1. /\ Leave(c) /\ call[c].pc \notin {"idle", "enter"} /\ UNCHANGED <<store, temporary>>
    BY <1>4 DEF Fetch, Commit, Rollback
  <2>2. call'[c].pc = "idle" /\ \A d \in Caller \ {c} : call'[d] = call[d]
    BY <2>1 DEF Leave, LockInv, CallsFit, Idle
  <2>3. Ready(c)' BY <2>2 DEF Ready
  <2>4. \A d \in Caller \ {c} : call[d].pc \in {"idle", "enter"} BY <2>1, InsideAlone
  <2>5. Numbered(entries)' /\ DOMAIN artifact' = Artifact
    <3>1. CASE UNCHANGED database BY <3>1 DEF database
    <3>2. CASE Commit(c)
      <4>1. /\ call[c].pc = "commit" /\ entries' = work.entries /\ artifact' = work.artifact
            /\ HasSaved(Does(c)) \/ HasAppended(Does(c)) \/ HasPut(Does(c))
        BY <3>2 DEF Commit, Ready
      <4>2. CASE HasSaved(Does(c))
        BY <4>1, <4>2 DEF HasSaved, committed
      <4>3. CASE HasPut(Does(c))
        BY <4>1, <4>3 DEF HasPut, committed
      <4>4. CASE HasAppended(Does(c))
        <5>1. Does(c).on \in Task /\ Does(c).name \in Name BY <4>4 DEF HasAppended, Appending
        <5>2. entries' = entries \cup {NextEntry(Does(c))} /\ artifact' = artifact
          BY <4>1, <4>4 DEF HasAppended, committed
        <5>3. Numbered(entries \cup {NextEntry(Does(c))}) BY <5>1, NumberedGrows DEF NextEntry
        <5>. QED BY <5>2, <5>3
      <4>. QED BY <4>1, <4>2, <4>3, <4>4
    <3>. QED BY <1>4, <3>1, <3>2 DEF Fetch, Rollback
  <2>. QED BY <1>0, <2>1, <2>2, <2>3, <2>4, <2>5, OneMoves
<1>5. ASSUME NEW c \in Caller,
             Execute(c) \/ CountEntries(c) \/ InsertEntry(c) \/ LooksForFile(c) \/ OpensFile(c)
               \/ WritesFile(c) \/ RenamesFile(c) \/ EntersArtifact(c)
      PROVE  PromiseInv'
  <2>. USE DEF Execute, CountEntries, InsertEntry, LooksForFile, OpensFile, WritesFile,
               RenamesFile, EntersArtifact
  <2>1. call[c].pc \notin {"idle", "enter", "commit", "rollback"} /\ UNCHANGED database
    BY <1>5
  <2>2. work = committed BY <2>1, InsideIsClean
  <2>3. \A d \in Caller \ {c} : call[d].pc \in {"idle", "enter"} BY <2>1, InsideAlone
  <2>4. \A d \in Caller \ {c} : call'[d] = call[d] BY <1>5 DEF GoTo, LockInv, CallsFit
  <2>5. DOMAIN call = Caller BY DEF LockInv, CallsFit
  <2>6. /\ UNCHANGED <<table, entries, artifact>> /\ committed' = committed
        /\ Numbered(entries)' /\ DOMAIN artifact' = Artifact
    BY <2>1 DEF database, committed
  <2>. SUFFICES /\ Ready(c)'
                /\ store' \in [Value -> {"absent", "whole"}] /\ temporary' \in [Value -> FileState]
    BY <1>0, <2>3, <2>4, <2>6, OneMoves
  <2>7. CASE Execute(c)
    <3>1. Does(c) \in Saving /\ UNCHANGED <<store, temporary>> BY <2>7 DEF Ready
    <3>2. CASE GoTo(c, "rollback")
      <4>1. call'[c].pc = "rollback" BY <2>5, <3>2 DEF GoTo
      <4>. QED BY <3>1, <4>1 DEF Ready
    <3>3. CASE /\ GoTo(c, "commit") /\ ~Violates(Does(c).on, Does(c).row)
               /\ work' = [work EXCEPT !.table[Does(c).on] = Does(c).row]
      <4>1. call'[c].pc = "commit" /\ call'[c].does = call[c].does
        BY <2>5, <3>3 DEF GoTo, LockInv, CallsFit
      <4>2. Unique /\ Does(c).row.flagged => \A q \in Key \ {Does(c).on} : ~table[q].flagged
        BY <2>2, <3>3 DEF Violates, committed
      <4>3. HasSaved(Does(c))' BY <2>2, <2>6, <3>1, <3>3, <4>1, <4>2 DEF HasSaved
      <4>. QED BY <3>1, <4>1, <4>3 DEF Ready
    <3>. QED BY <2>7, <3>2, <3>3
  <2>8. CASE CountEntries(c)
    <3>. DEFINE n == Count(work.entries, Does(c).on) + 1
    <3>1. /\ call' = [call EXCEPT ![c] = [pc |-> "insert", does |-> Does(c), seq |-> n]]
          /\ Does(c) \in Appending /\ UNCHANGED <<store, temporary>>
      BY <2>8 DEF Ready
    <3>2. n = Count(entries, Does(c).on) + 1 BY <2>2 DEF committed
    <3>. HIDE DEF n
    <3>3. call'[c] = [pc |-> "insert", does |-> call[c].does, seq |-> n] BY <2>5, <3>1
    <3>4. call'[c].pc = "insert" /\ call'[c].does = call[c].does /\ call'[c].seq = n BY <3>3
    <3>. QED BY <2>6, <3>1, <3>2, <3>4 DEF Ready
  <2>9. CASE InsertEntry(c)
    <3>1. /\ Does(c) \in Appending /\ call[c].seq = Count(entries, Does(c).on) + 1
          /\ UNCHANGED <<store, temporary>>
      BY <2>9 DEF Ready
    <3>2. CASE GoTo(c, "rollback")
      <4>1. call'[c].pc = "rollback" BY <2>5, <3>2 DEF GoTo
      <4>. QED BY <3>1, <4>1 DEF Ready
    <3>3. CASE /\ GoTo(c, "commit")
               /\ work' = [work EXCEPT !.entries = @ \cup
                     {[task |-> Does(c).on, seq |-> call[c].seq, name |-> Does(c).name]}]
      <4>1. call'[c].pc = "commit" /\ call'[c].does = call[c].does
        BY <2>5, <3>3 DEF GoTo, LockInv, CallsFit
      <4>2. work' = [committed EXCEPT !.entries = @ \cup {NextEntry(Does(c))}]
        BY <2>2, <3>1, <3>3 DEF NextEntry
      <4>3. NextEntry(call[c].does)' = NextEntry(Does(c)) BY <2>6, <4>1 DEF NextEntry
      <4>4. HasAppended(Does(c))' BY <2>6, <3>1, <4>1, <4>2 DEF HasAppended, NextEntry
      <4>. QED BY <3>1, <4>1, <4>4 DEF Ready
    <3>. QED BY <2>9, <3>2, <3>3
  <2>10. CASE LooksForFile(c)
    <3>1. Does(c) \in Putting /\ UNCHANGED <<store, temporary>> BY <2>10 DEF Ready
    <3>2. Does(c).value \in Value BY <3>1 DEF Putting
    <3>3. \/ GoTo(c, "open") \/ GoTo(c, "rollback")
          \/ GoTo(c, "enter_row") /\ store[Does(c).value] = "whole"
      BY <2>10, <3>2
    <3>4. /\ call'[c].does = call[c].does
          /\ \/ call'[c].pc \in {"open", "rollback"}
             \/ call'[c].pc = "enter_row" /\ store[Does(c).value] = "whole"
      BY <2>5, <3>3 DEF GoTo, LockInv, CallsFit
    <3>. QED BY <3>1, <3>4 DEF Ready
  <2>11. CASE OpensFile(c)
    <3>1. /\ Does(c) \in Putting /\ GoTo(c, "write") /\ UNCHANGED store
          /\ temporary' = [temporary EXCEPT ![Does(c).value] = "part"]
      BY <2>11 DEF Ready
    <3>2. call'[c].pc = "write" /\ call'[c].does = call[c].does
      BY <2>5, <3>1 DEF GoTo, LockInv, CallsFit
    <3>. QED BY <3>1, <3>2 DEF Ready, FileState
  <2>12. CASE WritesFile(c)
    <3>1. /\ Does(c) \in Putting /\ GoTo(c, "rename") /\ UNCHANGED store
          /\ temporary' = [temporary EXCEPT ![Does(c).value] = "whole"]
      BY <2>12 DEF Ready
    <3>2. call'[c].pc = "rename" /\ call'[c].does = call[c].does
      BY <2>5, <3>1 DEF GoTo, LockInv, CallsFit
    <3>3. Does(c).value \in Value BY <3>1 DEF Putting
    <3>4. temporary'[Does(c).value] = "whole" /\ temporary' \in [Value -> FileState]
      BY <3>1, <3>3 DEF FileState
    <3>. QED BY <3>1, <3>2, <3>4 DEF Ready
  <2>13. CASE RenamesFile(c)
    <3>1. Does(c) \in Putting /\ temporary[Does(c).value] = "whole" BY <2>13 DEF Ready
    <3>2. /\ GoTo(c, "enter_row") /\ store' = [store EXCEPT ![Does(c).value] = "whole"]
          /\ temporary' = [temporary EXCEPT ![Does(c).value] = "absent"]
      BY <2>13, <3>1
    <3>3. call'[c].pc = "enter_row" /\ call'[c].does = call[c].does
      BY <2>5, <3>2 DEF GoTo, LockInv, CallsFit
    <3>4. Does(c).value \in Value BY <3>1 DEF Putting
    <3>5. /\ store'[Does(c).value] = "whole" /\ store' \in [Value -> {"absent", "whole"}]
          /\ temporary' \in [Value -> FileState]
      BY <3>2, <3>4 DEF FileState
    <3>. QED BY <3>1, <3>3, <3>5 DEF Ready
  <2>14. CASE EntersArtifact(c)
    <3>1. /\ Does(c) \in Putting /\ store[Does(c).value] = "whole" /\ GoTo(c, "commit")
          /\ work' = [work EXCEPT !.artifact[Does(c).on] = Does(c).value]
          /\ UNCHANGED <<store, temporary>>
      BY <2>14 DEF Ready
    <3>2. call'[c].pc = "commit" /\ call'[c].does = call[c].does
      BY <2>5, <3>1 DEF GoTo, LockInv, CallsFit
    <3>3. HasPut(Does(c))' BY <2>2, <2>6, <3>1, <3>2 DEF HasPut
    <3>. QED BY <3>1, <3>2, <3>3 DEF Ready
  <2>. QED BY <1>5, <2>7, <2>8, <2>9, <2>10, <2>11, <2>12, <2>13, <2>14
<1>6. CASE Crash
  <2>1. \A c \in Caller : call'[c].pc = "idle" BY <1>6 DEF Crash, Idle
  <2>2. \A c \in Caller : Ready(c)' BY <2>1 DEF Ready
  <2>. QED BY <1>0, <1>6, <2>2 DEF Crash, database
<1>. QED BY <1>1, <1>2, <1>3, <1>4, <1>5, <1>6 DEF Next

LEMMA PromiseInit == Init => PromiseInv
<1>. SUFFICES ASSUME Init PROVE PromiseInv OBVIOUS
<1>1. entries = {} /\ DOMAIN artifact = Artifact /\ \A c \in Caller : call[c].pc = "idle"
  BY DEF Init, Idle
<1>2. \A t \in Task : RowsOf({}, t) = {} /\ Count({}, t) = 0
  <2>1. \A t : {e \in {} : e.task = t} = {} OBVIOUS
  <2>. QED BY <2>1, FS_EmptySet DEF RowsOf, Count
<1>3. Numbered(entries) BY <1>1, <1>2, FS_EmptySet DEF Numbered
<1>4. store \in [Value -> {"absent", "whole"}] /\ temporary \in [Value -> FileState]
  BY DEF Init, FileState
<1>5. \A c \in Caller : Ready(c) BY <1>1 DEF Ready
<1>. QED BY <1>1, <1>3, <1>4, <1>5, LockInit DEF PromiseInv

(* The log that the entries of each task make.                             *)
NameAt(E, t, i) == (CHOOSE e \in E : e.task = t /\ e.seq = i).name
LogOf(E, t) == [i \in 1..Count(E, t) |-> NameAt(E, t, i)]
Logs(E) == [t \in Task |-> LogOf(E, t)]

LEMMA LogAppends ==
  ASSUME NEW E, Numbered(E), NEW t \in Task, NEW n \in Name,
         NEW row, row = [task |-> t, seq |-> Count(E, t) + 1, name |-> n]
  PROVE  Logs(E \cup {row}) = [Logs(E) EXCEPT ![t] = Append(@, n)]
<1>. DEFINE F == E \cup {row}
<1>1. /\ Count(F, t) = Count(E, t) + 1 /\ Numbered(F)
      /\ \A u \in Task \ {t} : Count(F, u) = Count(E, u)
  BY NumberedGrows
<1>2. Count(E, t) \in Nat BY CountIsNat
<1>3. E \subseteq F /\ row \in F OBVIOUS
<1>4. row.task = t /\ row.seq = Count(E, t) + 1 /\ row.name = n OBVIOUS
<1>. HIDE DEF F
<1>5. ASSUME NEW u \in Task, NEW i \in 1..Count(E, u)
      PROVE  NameAt(E, u, i) \in Name /\ NameAt(F, u, i) = NameAt(E, u, i)
  <2>1. PICK f \in RowsOf(E, u) : f.seq = i BY DEF Numbered
  <2>2. f \in E /\ f \in F /\ f.task = u /\ f.name \in Name BY <1>3, <2>1 DEF RowsOf, Numbered
  <2>3. (CHOOSE e \in E : e.task = u /\ e.seq = i) = f BY <2>1, <2>2, EntryIs
  <2>4. (CHOOSE e \in F : e.task = u /\ e.seq = i) = f BY <1>1, <2>1, <2>2, EntryIs
  <2>. QED BY <2>2, <2>3, <2>4 DEF NameAt
<1>6. NameAt(F, t, Count(E, t) + 1) = n
  <2>1. (CHOOSE e \in F : e.task = t /\ e.seq = Count(E, t) + 1) = row BY <1>1, <1>3, <1>4, EntryIs
  <2>. QED BY <1>4, <2>1 DEF NameAt
<1>7. \A u \in Task \ {t} : LogOf(F, u) = LogOf(E, u)
  BY <1>1, <1>5 DEF LogOf
<1>8. LogOf(F, t) = Append(LogOf(E, t), n)
  <2>. DEFINE k == Count(E, t)  s == LogOf(E, t)
  <2>0. k \in Nat BY <1>2
  <2>1. s \in Seq(Name) /\ Len(s) = k
    <3>1. s \in [1..k -> Name] BY <1>5 DEF LogOf
    <3>. QED BY <1>2, <3>1
  <2>2. Append(s, n) = [i \in 1..k + 1 |-> IF i = k + 1 THEN n ELSE s[i]]
    <3>. HIDE DEF s, k
    <3>1. Append(s, n) \in Seq(Name) /\ Len(Append(s, n)) = k + 1
      BY <2>1, AppendProperties
    <3>2. Append(s, n) \in [1..k + 1 -> Name] BY <3>1, LenProperties
    <3>3. \A i \in 1..k : Append(s, n)[i] = s[i] BY <2>1, AppendProperties
    <3>4. Append(s, n)[k + 1] = n BY <2>1, AppendProperties
    <3>5. \A i \in 1..k + 1 : Append(s, n)[i] = IF i = k + 1 THEN n ELSE s[i]
      <4>1. \A i \in 1..k + 1 : i = k + 1 \/ i \in 1..k BY <2>0
      <4>2. k + 1 \notin 1..k BY <2>0
      <4>. QED BY <3>3, <3>4, <4>1, <4>2
    <3>. QED BY <3>2, <3>5
  <2>3. \A i \in 1..k : s[i] = NameAt(F, t, i) BY <1>5 DEF LogOf
  <2>4. \A i \in 1..k + 1 : NameAt(F, t, i) = IF i = k + 1 THEN n ELSE s[i]
    <3>. HIDE DEF s
    <3>. QED BY <1>2, <1>6, <2>3
  <2>5. LogOf(F, t) = [i \in 1..k + 1 |-> NameAt(F, t, i)] BY <1>1 DEF LogOf
  <2>6. LogOf(F, t) = Append(s, n)
    <3>. HIDE DEF s, k
    <3>. QED BY <2>2, <2>4, <2>5
  <2>. QED BY <2>6
<1>. QED BY <1>7, <1>8 DEF Logs, F

LEMMA StoredGrows ==
  ASSUME NEW v \in Value, store \in [Value -> {"absent", "whole"}],
         store' = [store EXCEPT ![v] = "whole"]
  PROVE  {w \in Value : store'[w] = "whole"} = {w \in Value : store[w] = "whole"} \cup {v}
OBVIOUS

(* The repository implements its promise: a call takes effect at its       *)
(* commit, a file when it is renamed, and everything else, crashes and     *)
(* rollbacks among it, is not seen.                                        *)
THEOREM PromiseImplemented == "free" \notin Caller => (Spec => KeepsItsPromise)
<1>. SUFFICES ASSUME "free" \notin Caller PROVE Spec => KeepsItsPromise OBVIOUS
<1>. DEFINE stored == {v \in Value : store[v] = "whole"}
<1>1. Init => Promise!Init
  <2>. SUFFICES ASSUME Init PROVE Promise!Init OBVIOUS
  <2>1. \A t \in Task : Count(entries, t) = 0
    <3>1. \A t : {e \in {} : e.task = t} = {} OBVIOUS
    <3>. QED BY <3>1, FS_EmptySet DEF Init, Count
  <2>2. Logs(entries) = [t \in Task |-> <<>>]
    <3>1. \A t \in Task : LogOf(entries, t) = <<>> BY <2>1 DEF LogOf
    <3>. QED BY <3>1 DEF Logs
  <2>3. stored = {} BY DEF Init
  <2>. QED BY <2>2, <2>3 DEF Init, Promise!Init, Empty, Promise!Empty, Logs, LogOf, NameAt
<1>2. PromiseInv /\ [Next]_vars => [Promise!Next]_(Promise!vars)
  <2>. SUFFICES ASSUME PromiseInv, [Next]_vars PROVE [Promise!Next]_(Promise!vars) OBVIOUS
  <2>1. CASE UNCHANGED <<table, entries, artifact, store>>
    BY <2>1 DEF Promise!vars, Count
  <2>2. ASSUME NEW c \in Caller, RenamesFile(c) PROVE [Promise!Next]_(Promise!vars)
    <3>1. Does(c) \in Putting /\ temporary[Does(c).value] = "whole"
      BY <2>2 DEF RenamesFile, PromiseInv, Ready
    <3>2. Does(c).value \in Value BY <3>1 DEF Putting
    <3>3. store' = [store EXCEPT ![Does(c).value] = "whole"] /\ UNCHANGED <<table, entries, artifact>>
      BY <2>2, <3>1 DEF RenamesFile, database
    <3>4. stored' = stored \cup {Does(c).value} BY <3>2, <3>3, StoredGrows DEF PromiseInv
    <3>5. Promise!PutFile BY <3>2, <3>3, <3>4 DEF Promise!PutFile, Count
    <3>. QED BY <3>5 DEF Promise!Next
  <2>3. ASSUME NEW c \in Caller, Commit(c) PROVE [Promise!Next]_(Promise!vars)
    <3>1. /\ HasSaved(Does(c)) \/ HasAppended(Does(c)) \/ HasPut(Does(c))
          /\ table' = work.table /\ entries' = work.entries /\ artifact' = work.artifact
          /\ UNCHANGED store
      BY <2>3 DEF Commit, PromiseInv, Ready
    <3>2. CASE HasSaved(Does(c))
      <4>1. /\ Does(c).on \in Key /\ Does(c).row \in Row
            /\ table' = [table EXCEPT ![Does(c).on] = Does(c).row]
            /\ UNCHANGED <<entries, artifact>>
            /\ Unique /\ Does(c).row.flagged => \A q \in Key \ {Does(c).on} : ~table[q].flagged
        BY <3>1, <3>2 DEF HasSaved, Saving, committed
      <4>2. Logs(entries') = Logs(entries) /\ stored' = stored BY <3>1, <4>1
      <4>3. Promise!Save
        BY <4>1, <4>2 DEF Promise!Save, Promise!Row, Row, Logs, LogOf, NameAt
      <4>. QED BY <4>3 DEF Promise!Next
    <3>3. CASE HasAppended(Does(c))
      <4>1. /\ Does(c).on \in Task /\ Does(c).name \in Name
            /\ entries' = entries \cup {NextEntry(Does(c))} /\ UNCHANGED <<table, artifact>>
        BY <3>1, <3>3 DEF HasAppended, Appending, committed
      <4>2. Logs(entries') = [Logs(entries) EXCEPT ![Does(c).on] = Append(@, Does(c).name)]
        <5>. DEFINE row == NextEntry(Does(c))
        <5>1. row = [task |-> Does(c).on, seq |-> Count(entries, Does(c).on) + 1,
                     name |-> Does(c).name]
          BY DEF NextEntry
        <5>2. Numbered(entries) BY DEF PromiseInv
        <5>. HIDE DEF row
        <5>3. Logs(entries \cup {row}) = [Logs(entries) EXCEPT ![Does(c).on] = Append(@, Does(c).name)]
          BY <4>1, <5>1, <5>2, LogAppends
        <5>. QED BY <4>1, <5>3 DEF row
      <4>3. Promise!AppendName
        BY <3>1, <4>1, <4>2 DEF Promise!AppendName, Logs, LogOf, NameAt
      <4>. QED BY <4>3 DEF Promise!Next
    <3>4. CASE HasPut(Does(c))
      <4>1. /\ Does(c).on \in Artifact /\ Does(c).value \in stored
            /\ artifact' = [artifact EXCEPT ![Does(c).on] = Does(c).value]
            /\ UNCHANGED <<table, entries>>
        BY <3>1, <3>4 DEF HasPut, Putting, committed
      <4>2. Logs(entries') = Logs(entries) /\ stored' = stored BY <3>1, <4>1
      <4>3. Promise!SaveArtifact
        BY <4>1, <4>2 DEF Promise!SaveArtifact, Logs, LogOf, NameAt
      <4>. QED BY <4>3 DEF Promise!Next
    <3>. QED BY <3>1, <3>2, <3>3, <3>4
  <2>4. ASSUME NEW c \in Caller,
               Call(c) \/ Enter(c) \/ Fetch(c) \/ Execute(c) \/ CountEntries(c) \/ InsertEntry(c)
                 \/ LooksForFile(c) \/ OpensFile(c) \/ WritesFile(c) \/ EntersArtifact(c)
                 \/ Rollback(c)
        PROVE  UNCHANGED <<table, entries, artifact, store>>
    BY <2>4 DEF Call, Enter, Fetch, Execute, CountEntries, InsertEntry, LooksForFile, OpensFile,
                WritesFile, EntersArtifact, Rollback, database
  <2>5. CASE Crash BY <2>1, <2>5 DEF Crash, database
  <2>6. CASE UNCHANGED vars BY <2>1, <2>6 DEF vars
  <2>. QED BY <2>1, <2>2, <2>3, <2>4, <2>5, <2>6 DEF Next
<1>3. PromiseInv /\ [Next]_vars => PromiseInv' BY PromiseStep
<1>. QED BY <1>1, <1>2, <1>3, PromiseInit, PTL DEF Spec, KeepsItsPromise, Promise!Spec
=============================================================================
