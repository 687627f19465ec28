--------------------------- MODULE MCPolicyRegistry ---------------------------
(* Three policies: the one moved, the one it replaces and a bystander.     *)
EXTENDS PolicyRegistry, TLC

CONSTANTS p1, p2, p3

Policies == Permutations({p1, p2, p3})
=============================================================================
