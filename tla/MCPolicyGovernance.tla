-------------------------- MODULE MCPolicyGovernance --------------------------
(* Two policies and two requests under way at a time.                      *)
EXTENDS PolicyGovernance, TLC

CONSTANTS p1, p2, r1, r2, e1, e2

Names == Permutations({p1, p2}) \cup Permutations({r1, r2}) \cup Permutations({e1, e2})
=============================================================================
