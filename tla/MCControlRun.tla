----------------------------- MODULE MCControlRun -----------------------------
(***************************************************************************)
(* Two request threads, o1 and o2, that both threads of the run race with; *)
(* which of them does what makes no difference.                            *)
(***************************************************************************)
EXTENDS ControlRun, TLC

CONSTANTS o1, o2

Requests == Permutations({o1, o2})
=============================================================================
