------------------------------ MODULE TaskRoute ------------------------------
(***************************************************************************)
(* What a run of a task graph promises, whatever moves it: it begins at    *)
(* the entry, completes the node it stands on and goes along its edge, and *)
(* ends Succeeded only past a node without one.  It may halt at any time;  *)
(* after that only a new beginning moves it.                               *)
(***************************************************************************)
CONSTANTS Node, NoNode, Entry, Succ

VARIABLES run, at, done

Init == run = "Created" /\ at = NoNode /\ done = {}

Begin == run' = "Running" /\ at' = Entry /\ done' = {}

Complete ==
  /\ run = "Running" /\ at \in Node
  /\ done' = done \cup {at}
  /\ IF Succ[at] = NoNode THEN run' = "Succeeded" /\ at' = NoNode
                          ELSE run' = "Running" /\ at' = Succ[at]

(* A node that fails when a cycle brings the run back is done no longer. *)
Halt ==
  /\ run = "Running" /\ run' \in {"Paused", "Failed"}
  /\ at' = at /\ done' \in {done, done \ {at}}

Next == Begin \/ Complete \/ Halt

Spec == Init /\ [][Next]_<<run, at, done>>
=============================================================================
