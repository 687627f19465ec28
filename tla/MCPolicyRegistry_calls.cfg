SPECIFICATION Spec
CONSTANTS
  p1 = p1  p2 = p2  p3 = p3
  Policy = {p1, p2, p3}
  AuditOutcome = {TRUE, FALSE}
INVARIANTS TypeOK OneBaseline BaselineWasReleased ApprovalsAudited
PROPERTIES GovernsBaseline
SYMMETRY Policies
