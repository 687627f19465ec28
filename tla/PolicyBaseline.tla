---------------------------- MODULE PolicyBaseline ----------------------------
(***************************************************************************)
(* What a policy registry promises: at most one policy is the baseline, it *)
(* is one that was released, it changes only for another such policy, and  *)
(* an archived policy is neither released nor made the baseline again.     *)
(***************************************************************************)
CONSTANT Policy

VARIABLES released, baseline, archived

Init == released = {} /\ baseline = {} /\ archived = {}

Release(p) == p \notin archived /\ released' = released \cup {p} /\ UNCHANGED <<baseline, archived>>

SetBaseline(p) ==
  p \in released \ archived /\ baseline' = {p} /\ UNCHANGED <<released, archived>>

Archive(p) == p \notin baseline /\ archived' = archived \cup {p} /\ UNCHANGED <<released, baseline>>

Next == \E p \in Policy : Release(p) \/ SetBaseline(p) \/ Archive(p)

Spec == Init /\ [][Next]_<<released, baseline, archived>>
=============================================================================
