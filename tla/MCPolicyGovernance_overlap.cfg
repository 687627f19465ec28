SPECIFICATION Spec
CONSTANTS
  p1 = p1  p2 = p2  r1 = r1  r2 = r2  e1 = e1  e2 = e2
  Policy = {p1, p2}
  Evaluation = {e1}
  Decision = {"passed", "approved", "rejected"}
  MaxApprovals = 2
  Unique = TRUE
  Request = {r1, r2}
INVARIANTS TypeOK ReleaseEvidence OneBaseline
SYMMETRY Names
