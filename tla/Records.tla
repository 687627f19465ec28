-------------------------------- MODULE Records --------------------------------
(***************************************************************************)
(* What the repository promises its callers: each call takes effect at     *)
(* once or not at all, a record is replaced as a whole, a log only grows   *)
(* at its end, at most one row has the flag, a stored artifact has its     *)
(* file, and a file that is there is never changed.                        *)
(***************************************************************************)
EXTENDS Integers, Sequences

CONSTANTS Key, Value, Task, Name, Artifact, Unique

VARIABLES rows,      \* the record of each key
          log,       \* the names appended for each task
          artifacts, \* the file that an artifact's row points to
          files      \* the files of the object store

vars == <<rows, log, artifacts, files>>

Empty == [flagged |-> FALSE, value |-> "none"]
Row == [flagged : BOOLEAN, value : Value]

Init ==
  /\ rows = [k \in Key |-> Empty] /\ log = [t \in Task |-> <<>>]
  /\ artifacts = [a \in Artifact |-> "none"] /\ files = {}

Save ==
  \E k \in Key, row \in Row :
    /\ Unique /\ row.flagged => \A q \in Key \ {k} : ~rows[q].flagged
    /\ rows' = [rows EXCEPT ![k] = row]
    /\ UNCHANGED <<log, artifacts, files>>

AppendName ==
  \E t \in Task, n \in Name :
    /\ log' = [log EXCEPT ![t] = Append(@, n)] /\ UNCHANGED <<rows, artifacts, files>>

PutFile ==
  \E v \in Value : files' = files \cup {v} /\ UNCHANGED <<rows, log, artifacts>>

SaveArtifact ==
  \E a \in Artifact, v \in files :
    /\ artifacts' = [artifacts EXCEPT ![a] = v] /\ UNCHANGED <<rows, log, files>>

Next == Save \/ AppendName \/ PutFile \/ SaveArtifact

Spec == Init /\ [][Next]_vars
=============================================================================
