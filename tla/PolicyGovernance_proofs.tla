----------------------- MODULE PolicyGovernance_proofs -----------------------
(***************************************************************************)
(* Whatever requests overlap, and however many, no policy stands released  *)
(* without a passed report and an approval.  A request carries what it     *)
(* read into a later step, so the invariant speaks of that as well: what   *)
(* was read as released, and what is about to be saved as such, has its    *)
(* evidence; and evidence, once there, stays.                              *)
(***************************************************************************)
EXTENDS PolicyGovernance, TLAPS

Passed(p) == p \in evaluated

(* What holds of a request q on its way.                                   *)
Grounded(q) ==
  /\ q.pc # "idle" /\ Published(q.seen) => Evidence(q.policy)
  /\ q.pc \in {"stamp", "approval"} /\ q.decision = "approved" => Passed(q.policy)
  /\ q.pc \in {"save_release", "list", "demote"} => Evidence(q.policy)
  /\ \A p \in q.rest : Evidence(p)

ApprovalsGrounded ==
  \A p \in Policy : /\ approvals[p].latest = "approved" => "approved" \in approvals[p].all
                    /\ "approved" \in approvals[p].all => Passed(p)

ReportsGrounded == \A e \in Evaluation : report[e].decision = "passed" => Passed(report[e].policy)

RequestsGrounded == \A r \in Request : Grounded(request[r])

(* A request under way is about a policy, and the decision it carries is   *)
(* of the kind its next step saves.                                        *)
Fits(q) == /\ q.pc # "idle" => q.policy \in Policy
           /\ q.pc = "report" => q.decision \in GateDecision
           /\ q.pc \in {"evidence", "stamp", "approval"} => q.decision \in ApprovalDecision

RequestsFit == \A r \in Request : Fits(request[r])

TypeInv == TypeOK /\ RequestsFit

EvidenceInv == TypeInv /\ ReleaseEvidence /\ ApprovalsGrounded /\ ReportsGrounded
               /\ RequestsGrounded

-----------------------------------------------------------------------------
USE DEF stored, evaluation

LEMMA IdleType == Idle \in RequestState
BY DEF Idle, RequestState, Step

(* A request that begins, moves on or ends keeps its type.                 *)
LEMMA ReadsType ==
  ASSUME TypeOK, NEW r \in Request, NEW p \in Policy, NEW pc \in Step,
         NEW d \in GateDecision \cup ApprovalDecision \cup {"none"}, Reads(r, p, pc, d)
  PROVE  TypeOK'
<1>1. [Idle EXCEPT !.pc = pc, !.policy = p, !.seen = policy[p], !.decision = d] \in RequestState
  BY DEF TypeOK, Idle, RequestState
<1>. QED BY <1>1 DEF TypeOK, Reads

LEMMA GoToType ==
  ASSUME TypeOK, NEW r \in Request, NEW pc \in Step, GoTo(r, pc)
  PROVE  request' \in [Request -> RequestState]
<1>1. [request[r] EXCEPT !.pc = pc] \in RequestState BY DEF TypeOK, RequestState
<1>. QED BY <1>1 DEF TypeOK, GoTo

LEMMA DoneType ==
  ASSUME TypeOK, NEW r \in Request, Done(r)
  PROVE  request' \in [Request -> RequestState]
BY IdleType DEF TypeOK, Done

(* What a request holds has a type.                                        *)
LEMMA FieldTypes ==
  ASSUME TypeOK, NEW r \in Request
  PROVE  /\ Seen(r) \in PolicyState \cup {NoPolicy}
         /\ request[r].rest \subseteq Policy
         /\ request[r].pc \in Step
         /\ request[r].decision \in GateDecision \cup ApprovalDecision \cup {"none"}
BY DEF TypeOK, RequestState, Seen

(* A step that touches no request but r, and leaves r fit, keeps the fit.  *)
LEMMA FitStep ==
  ASSUME TypeInv, NEW r \in Request, NEW q, request' = [request EXCEPT ![r] = q], Fits(q)
  PROVE  RequestsFit'
BY DEF TypeInv, TypeOK, RequestsFit, Fits

LEMMA ReadsFit ==
  ASSUME TypeInv, NEW r \in Request, NEW p \in Policy, NEW pc, NEW d, Reads(r, p, pc, d),
         pc = "report" => d \in GateDecision,
         pc \in {"evidence", "stamp", "approval"} => d \in ApprovalDecision
  PROVE  RequestsFit'
BY FitStep DEF Reads, Idle, Fits

LEMMA GoToFit ==
  ASSUME TypeInv, NEW r \in Request, request[r].pc # "idle", NEW pc \in Step \ {"report"},
         GoTo(r, pc),
         pc \in {"evidence", "stamp", "approval"} => request[r].decision \in ApprovalDecision
  PROVE  RequestsFit'
<1>1. Fits([request[r] EXCEPT !.pc = pc])
  BY DEF TypeInv, TypeOK, RequestState, RequestsFit, Fits
<1>2. request' = [request EXCEPT ![r] = [request[r] EXCEPT !.pc = pc]]
  BY DEF GoTo, TypeInv, TypeOK
<1>. QED BY <1>1, <1>2, FitStep

LEMMA DoneFit ==
  ASSUME TypeInv, NEW r \in Request, Done(r)
  PROVE  RequestsFit'
BY FitStep DEF Done, Idle, Fits

(* A request that moves on without saving a policy, and one that saves the *)
(* policy it ends with.                                                    *)
LEMMA MovesOn ==
  ASSUME TypeInv, NEW r \in Request, request[r].pc # "idle", NEW pc \in Step \ {"report"},
         GoTo(r, pc) \/ Done(r),
         pc \in {"evidence", "stamp", "approval"} => request[r].decision \in ApprovalDecision
  PROVE  request' \in [Request -> RequestState] /\ RequestsFit'
BY GoToType, GoToFit, DoneType, DoneFit DEF TypeInv

LEMMA EndsWithSave ==
  ASSUME TypeInv, NEW r \in Request, Done(r), NEW p, NEW s \in PolicyState \cup {NoPolicy},
         Stored(p, s), UNCHANGED <<gate_passed, approvals, made, evaluation>>
  PROVE  TypeInv'
<1>1. policy' \in [Policy -> PolicyState \cup {NoPolicy}] BY DEF TypeInv, TypeOK, Stored
<1>2. request' \in [Request -> RequestState] /\ RequestsFit' BY DoneType, DoneFit DEF TypeInv
<1>. QED BY <1>1, <1>2 DEF TypeInv, TypeOK

(* What a request read, with the stage changed.                            *)
LEMMA RestagedType ==
  ASSUME TypeOK, NEW r \in Request, NEW stage \in Stage
  PROVE  [Seen(r) EXCEPT !.stage = stage] \in PolicyState
<1>1. CASE Seen(r) \in PolicyState BY <1>1 DEF PolicyState
<1>2. CASE Seen(r) = NoPolicy
  <2>1. [NoPolicy EXCEPT !.stage = stage] \in PolicyState BY DEF NoPolicy, PolicyState
  <2>. QED BY <1>2, <2>1
<1>. QED BY <1>1, <1>2, FieldTypes

(* A promotion with a policy less to demote, or all of them.               *)
LEMMA RestType ==
  ASSUME TypeInv, NEW r \in Request, NEW rest \in SUBSET Policy, request[r].pc # "idle",
         request' = [request EXCEPT ![r] = [request[r] EXCEPT !.pc = "demote", !.rest = rest]]
  PROVE  request' \in [Request -> RequestState] /\ RequestsFit'
<1>. DEFINE q == [request[r] EXCEPT !.pc = "demote", !.rest = rest]
<1>1. q \in RequestState /\ Fits(q)
  BY DEF TypeInv, TypeOK, RequestState, Step, RequestsFit, Fits
<1>. QED BY <1>1, FitStep DEF TypeInv, TypeOK

-----------------------------------------------------------------------------
(* Every variable keeps its type, whatever requests overlap.               *)
LEMMA TypeStep == TypeInv /\ [Next]_vars => TypeInv'
<1>. SUFFICES ASSUME TypeInv, [Next]_vars PROVE TypeInv' OBVIOUS
<1>. USE DEF TypeInv
<1>1. CASE UNCHANGED vars BY <1>1 DEF vars, TypeOK, RequestsFit, Fits
<1>2. ASSUME NEW r \in Request, Register(r) PROVE TypeInv'
  <2>1. [stage |-> "candidate", is_current_baseline |-> FALSE] \in PolicyState
    BY DEF PolicyState, Stage
  <2>2. policy' \in [Policy -> PolicyState \cup {NoPolicy}]
    BY <1>2, <2>1 DEF Register, Stored, TypeOK
  <2>. QED BY <1>2, <2>2 DEF Register, TypeOK, RequestsFit, Fits
<1>3. ASSUME NEW r \in Request, EvaluationBegins(r) PROVE TypeInv'
  BY <1>3, ReadsType, ReadsFit DEF EvaluationBegins, Step
<1>4. ASSUME NEW r \in Request, EvaluationReports(r) PROVE TypeInv'
  <2>1. GoTo(r, "flag") /\ request[r].pc = "report" /\ request[r].decision \in GateDecision
    BY <1>4 DEF EvaluationReports, RequestsFit, Fits
  <2>2. Key(r) \in Policy BY <1>4 DEF EvaluationReports, RequestsFit, Fits, Key
  <2>3. PICK e \in Evaluation :
          report' = [report EXCEPT ![e] = [policy |-> Key(r), decision |-> request[r].decision]]
    BY <1>4 DEF EvaluationReports
  <2>4. report' \in [Evaluation -> Report] BY <2>1, <2>2, <2>3 DEF TypeOK, Report
  <2>5. evaluated' \subseteq Policy BY <1>4, <2>2 DEF EvaluationReports, TypeOK
  <2>6. request' \in [Request -> RequestState] /\ RequestsFit' BY <2>1, MovesOn DEF Step
  <2>. QED BY <1>4, <2>4, <2>5, <2>6 DEF EvaluationReports, TypeOK
<1>5. ASSUME NEW r \in Request, AttachBegins(r) PROVE TypeInv'
  BY <1>5, ReadsType, ReadsFit DEF AttachBegins, Step
<1>6. ASSUME NEW r \in Request, GateFlags(r) PROVE TypeInv'
  <2>1. GoTo(r, "save_gate") /\ request[r].pc = "flag" BY <1>6 DEF GateFlags
  <2>2. request' \in [Request -> RequestState] /\ RequestsFit' BY <2>1, MovesOn DEF Step
  <2>3. Key(r) \in Policy BY <2>1 DEF RequestsFit, Fits, Key
  <2>4. gate_passed' \subseteq Policy BY <1>6, <2>3 DEF GateFlags, TypeOK
  <2>. QED BY <1>6, <2>2, <2>4 DEF GateFlags, TypeOK
<1>7. ASSUME NEW r \in Request, GateSaves(r) PROVE TypeInv'
  <2>1. PICK stage \in Stage : Stored(Key(r), [Seen(r) EXCEPT !.stage = stage])
    BY <1>7 DEF GateSaves, Stage
  <2>. QED BY <1>7, <2>1, RestagedType, EndsWithSave DEF GateSaves
<1>8. ASSUME NEW r \in Request, ApprovalBegins(r) PROVE TypeInv'
  BY <1>8, ReadsType, ReadsFit DEF ApprovalBegins, Step
<1>9. ASSUME NEW r \in Request, ApprovalSaves(r) PROVE TypeInv'
  <2>1. GoTo(r, "save_approval") /\ request[r].pc = "approval"
        /\ request[r].decision \in ApprovalDecision
    BY <1>9 DEF ApprovalSaves, RequestsFit, Fits
  <2>2. Key(r) \in Policy /\ request[r].timestamp \in Nat
    BY <1>9 DEF ApprovalSaves, RequestsFit, Fits, Key, TypeOK, RequestState
  <2>3. approvals[Key(r)] \in Approvals BY <2>2 DEF TypeOK
  <2>4. PICK a \in Approvals : approvals' = [approvals EXCEPT ![Key(r)] = a]
    BY <1>9, <2>1, <2>2, <2>3 DEF ApprovalSaves, Approvals
  <2>5. approvals' \in [Policy -> Approvals] BY <2>4 DEF TypeOK
  <2>6. request' \in [Request -> RequestState] /\ RequestsFit' BY <2>1, MovesOn DEF Step
  <2>. QED BY <1>9, <2>5, <2>6 DEF ApprovalSaves, TypeOK
<1>10. ASSUME NEW r \in Request, ApprovalSavesPolicy(r) PROVE TypeInv'
  <2>1. PICK s \in PolicyState \cup {NoPolicy} : Stored(Key(r), s)
    BY <1>10, RestagedType, FieldTypes DEF ApprovalSavesPolicy, Stage
  <2>. QED BY <1>10, <2>1, EndsWithSave DEF ApprovalSavesPolicy
<1>11. ASSUME NEW r \in Request, ReleaseBegins(r) \/ PromotionBegins(r) PROVE TypeInv'
  BY <1>11, ReadsType, ReadsFit DEF ReleaseBegins, PromotionBegins, Step
<1>12. ASSUME NEW r \in Request, ReleaseChecksGate(r) \/ ReleaseChecksApproval(r) PROVE TypeInv'
  <2>1. /\ request[r].pc # "idle"
        /\ \E pc \in {"latest", "save_release"} : GoTo(r, pc) \/ Done(r)
    BY <1>12 DEF ReleaseChecksGate, ReleaseChecksApproval
  <2>2. request' \in [Request -> RequestState] /\ RequestsFit' BY <2>1, MovesOn DEF Step
  <2>. QED BY <1>12, <2>2 DEF ReleaseChecksGate, ReleaseChecksApproval, TypeOK
<1>13. ASSUME NEW r \in Request, ReleaseSaves(r) PROVE TypeInv'
  BY <1>13, RestagedType, EndsWithSave DEF ReleaseSaves, Stage
<1>14. ASSUME NEW r \in Request, PromotionLists(r) PROVE TypeInv'
  <2>. DEFINE rest == {p \in Policy : policy[p].is_current_baseline}
  <2>1. request' = [request EXCEPT ![r] = [request[r] EXCEPT !.pc = "demote", !.rest = rest]]
    BY <1>14 DEF PromotionLists, TypeOK
  <2>2. request[r].pc # "idle" /\ rest \in SUBSET Policy BY <1>14 DEF PromotionLists
  <2>. HIDE DEF rest
  <2>3. request' \in [Request -> RequestState] /\ RequestsFit' BY RestType, <2>1, <2>2
  <2>. QED BY <1>14, <2>3 DEF PromotionLists, TypeOK
<1>15. ASSUME NEW r \in Request, PromotionDemotes(r) PROVE TypeInv'
  <2>1. PICK p \in request[r].rest :
          /\ Stored(p, [stage |-> "released", is_current_baseline |-> FALSE])
          /\ request' = [request EXCEPT ![r] = [request[r] EXCEPT !.rest = request[r].rest \ {p}]]
    BY <1>15 DEF PromotionDemotes
  <2>. DEFINE rest == request[r].rest \ {p}
  <2>2. request' = [request EXCEPT ![r] = [request[r] EXCEPT !.pc = "demote", !.rest = rest]]
    <3>1. request[r] = [request[r] EXCEPT !.pc = "demote"]
      BY <1>15 DEF PromotionDemotes, TypeOK, RequestState
    <3>. QED BY <2>1, <3>1
  <2>3. request[r].pc # "idle" /\ rest \in SUBSET Policy
    BY <1>15, FieldTypes DEF PromotionDemotes
  <2>. HIDE DEF rest
  <2>4. request' \in [Request -> RequestState] /\ RequestsFit' BY RestType, <2>2, <2>3
  <2>5. policy' \in [Policy -> PolicyState \cup {NoPolicy}]
    BY <2>1 DEF Stored, TypeOK, PolicyState, Stage
  <2>. QED BY <1>15, <2>4, <2>5 DEF PromotionDemotes, TypeOK
<1>16. ASSUME NEW r \in Request, PromotionSaves(r) PROVE TypeInv'
  BY <1>16, EndsWithSave DEF PromotionSaves, PolicyState, Stage
<1>17. ASSUME NEW r \in Request, ApprovalReadsReport(r) PROVE TypeInv'
  <2>1. /\ request[r].pc # "idle" /\ request[r].decision \in ApprovalDecision
        /\ GoTo(r, "stamp") \/ Done(r)
    BY <1>17 DEF ApprovalReadsReport, RequestsFit, Fits
  <2>2. request' \in [Request -> RequestState] /\ RequestsFit' BY <2>1, MovesOn DEF Step
  <2>. QED BY <1>17, <2>2 DEF ApprovalReadsReport, TypeOK
<1>18. ASSUME NEW r \in Request, ApprovalIsMade(r) PROVE TypeInv'
  <2>. DEFINE q == [request[r] EXCEPT !.pc = "approval", !.timestamp = made + 1]
  <2>1. request' = [request EXCEPT ![r] = q] BY <1>18 DEF ApprovalIsMade, TypeOK
  <2>2. /\ request[r] \in RequestState /\ request[r].pc = "stamp" /\ Fits(request[r])
        /\ "approval" \in Step /\ made + 1 \in Nat
    BY <1>18 DEF ApprovalIsMade, TypeOK, RequestsFit, Step
  <2>3. q \in RequestState /\ Fits(q) BY <2>2 DEF RequestState, Fits
  <2>. HIDE DEF q
  <2>4. request' \in [Request -> RequestState] /\ RequestsFit' BY <2>1, <2>3, FitStep DEF TypeOK
  <2>. QED BY <1>18, <2>2, <2>4 DEF ApprovalIsMade, TypeOK
<1>. QED BY <1>1, <1>2, <1>3, <1>4, <1>5, <1>6, <1>7, <1>8, <1>9, <1>10, <1>11, <1>12, <1>13,
            <1>14, <1>15, <1>16, <1>17, <1>18 DEF Next

LEMMA TypeInit == Init => TypeInv
<1>. SUFFICES ASSUME Init PROVE TypeInv OBVIOUS
<1>1. request \in [Request -> RequestState] BY IdleType DEF Init
<1>2. approvals \in [Policy -> Approvals] BY DEF Init, Approvals
<1>3. report \in [Evaluation -> Report] BY DEF Init, NoReport, Report
<1>4. RequestsFit BY DEF Init, RequestsFit, Fits, Idle
<1>. QED BY <1>1, <1>2, <1>3, <1>4 DEF Init, TypeInv, TypeOK

(* The types of governance hold in every behaviour.                        *)
THEOREM TypeCorrect == Spec => []TypeOK
<1>1. TypeInv => TypeOK BY DEF TypeInv
<1>. QED BY <1>1, TypeInit, TypeStep, PTL DEF Spec

-----------------------------------------------------------------------------
(* A passed report and an approval, once given, are never taken back.      *)
LEMMA EvidenceStays ==
  ASSUME TypeInv, TypeInv', [Next]_vars, NEW p \in Policy
  PROVE  /\ Passed(p) => Passed(p)'
         /\ "approved" \in approvals[p].all => "approved" \in approvals'[p].all
<1>1. \/ UNCHANGED <<evaluated, approvals>>
      \/ \E r \in Request : EvaluationReports(r) \/ ApprovalSaves(r)
  <2>1. CASE UNCHANGED vars BY <2>1 DEF vars
  <2>2. ASSUME NEW r \in Request,
               Register(r) \/ EvaluationBegins(r) \/ AttachBegins(r) \/ GateFlags(r) \/ GateSaves(r)
        PROVE  UNCHANGED <<evaluated, approvals>>
    BY <2>2 DEF Register, EvaluationBegins, AttachBegins, Reads, GateFlags, GateSaves, stored,
                evaluation
  <2>3. ASSUME NEW r \in Request,
               \/ ApprovalBegins(r) \/ ApprovalReadsReport(r) \/ ApprovalIsMade(r)
               \/ ApprovalSavesPolicy(r)
        PROVE  UNCHANGED <<evaluated, approvals>>
    BY <2>3 DEF ApprovalBegins, Reads, ApprovalReadsReport, ApprovalIsMade, ApprovalSavesPolicy,
                stored, evaluation
  <2>4. ASSUME NEW r \in Request,
               \/ ReleaseBegins(r) \/ ReleaseChecksGate(r) \/ ReleaseChecksApproval(r)
               \/ ReleaseSaves(r)
        PROVE  UNCHANGED <<evaluated, approvals>>
    BY <2>4 DEF ReleaseBegins, Reads, ReleaseChecksGate, ReleaseChecksApproval, ReleaseSaves,
                stored, evaluation
  <2>5. ASSUME NEW r \in Request,
               \/ PromotionBegins(r) \/ PromotionLists(r) \/ PromotionDemotes(r)
               \/ PromotionSaves(r)
        PROVE  UNCHANGED <<evaluated, approvals>>
    BY <2>5 DEF PromotionBegins, Reads, PromotionLists, PromotionDemotes, PromotionSaves, stored,
                evaluation
  <2>. QED BY <2>1, <2>2, <2>3, <2>4, <2>5 DEF Next
<1>2. CASE UNCHANGED <<evaluated, approvals>> BY <1>2 DEF Passed
<1>3. ASSUME NEW r \in Request, EvaluationReports(r)
      PROVE  evaluated \subseteq evaluated' /\ UNCHANGED approvals
  BY <1>3 DEF EvaluationReports, TypeInv, TypeOK
<1>4. ASSUME NEW r \in Request, ApprovalSaves(r)
      PROVE  approvals[p].all \subseteq approvals'[p].all /\ UNCHANGED evaluated
  BY <1>4 DEF ApprovalSaves, TypeInv, TypeOK
<1>. QED BY <1>1, <1>2, <1>3, <1>4 DEF Passed

LEMMA GroundedStays ==
  ASSUME TypeInv, TypeInv', [Next]_vars, NEW q, q.pc # "idle" => q.policy \in Policy,
         q.rest \subseteq Policy, Grounded(q)
  PROVE  Grounded(q)'
<1>1. \A p \in Policy : (Passed(p) => Passed(p)') /\ (Evidence(p) => Evidence(p)')
  BY EvidenceStays DEF Evidence, Passed
<1>. QED BY <1>1 DEF Grounded

(* A step that stores a policy as released or as the baseline only when    *)
(* its evidence is there, and one that moves a single request.             *)
LEMMA ReleaseStays ==
  ASSUME TypeInv, TypeInv', [Next]_vars, ReleaseEvidence,
         \/ UNCHANGED policy
         \/ \E p \in Policy, s \in PolicyState \cup {NoPolicy} :
               Stored(p, s) /\ (Published(s) => Evidence(p))
  PROVE  ReleaseEvidence'
<1>1. \A p \in Policy : Evidence(p) => Evidence(p)' BY EvidenceStays DEF Evidence, Passed
<1>2. \A p \in Policy : Published(policy'[p]) => Evidence(p)
  BY DEF ReleaseEvidence, Stored, TypeInv, TypeOK
<1>. QED BY <1>1, <1>2 DEF ReleaseEvidence, Published

LEMMA RequestsStay ==
  ASSUME TypeInv, TypeInv', [Next]_vars, RequestsGrounded, NEW r \in Request, NEW q,
         request' = [request EXCEPT ![r] = q], Grounded(q)
  PROVE  RequestsGrounded'
<1>1. ASSUME NEW t \in Request, NEW u, u = request'[t] PROVE Grounded(u)'
  <2>1. Grounded(u)
    <3>1. CASE t = r BY <1>1, <3>1 DEF TypeInv, TypeOK
    <3>2. CASE t # r BY <1>1, <3>2 DEF RequestsGrounded, TypeInv, TypeOK
    <3>. QED BY <3>1, <3>2
  <2>2. (u.pc # "idle" => u.policy \in Policy) /\ u.rest \subseteq Policy
    BY <1>1 DEF TypeInv, TypeOK, RequestsFit, Fits, RequestState
  <2>. QED BY <2>1, <2>2, GroundedStays
<1>. QED BY <1>1 DEF RequestsGrounded, Grounded, Published, Evidence

LEMMA ApprovalsStay ==
  ASSUME TypeInv, TypeInv', [Next]_vars, ApprovalsGrounded, UNCHANGED approvals
  PROVE  ApprovalsGrounded'
BY EvidenceStays DEF ApprovalsGrounded

LEMMA ReportsStay ==
  ASSUME ReportsGrounded, UNCHANGED evaluation
  PROVE  ReportsGrounded'
BY DEF ReportsGrounded, Passed

(* How a request begins, moves on and ends, with the evidence it needs.    *)
LEMMA BeginsGrounded ==
  ASSUME EvidenceInv, TypeInv', [Next]_vars, NEW r \in Request, NEW p \in Policy,
         NEW pc \in Step \ {"stamp", "approval", "save_release", "demote"}, NEW d,
         Reads(r, p, pc, d),
         pc = "list" => Evidence(p)
  PROVE  EvidenceInv'
<1>. DEFINE q == [Idle EXCEPT !.pc = pc, !.policy = p, !.seen = policy[p], !.decision = d]
<1>1. request' = [request EXCEPT ![r] = q] /\ UNCHANGED stored BY DEF Reads
<1>2. Grounded(q)
  <2>1. q.pc = pc /\ q.policy = p /\ q.seen = policy[p] /\ q.decision = d /\ q.rest = {}
    BY DEF Idle
  <2>. HIDE DEF q
  <2>. QED BY <2>1 DEF Grounded, EvidenceInv, ReleaseEvidence
<1>. HIDE DEF q
<1>3. RequestsGrounded' BY <1>1, <1>2, RequestsStay DEF EvidenceInv
<1>. QED BY <1>1, <1>3, ApprovalsStay, ReportsStay, ReleaseStays DEF EvidenceInv

LEMMA MovesGrounded ==
  ASSUME EvidenceInv, TypeInv', [Next]_vars, NEW r \in Request, request[r].pc # "idle",
         NEW pc \in Step \ {"approval", "list", "demote"}, GoTo(r, pc) \/ Done(r),
         GoTo(r, pc) /\ pc = "save_release" => Evidence(Key(r)),
         GoTo(r, pc) /\ pc = "stamp" /\ request[r].decision = "approved" => Passed(Key(r))
  PROVE  RequestsGrounded'
<1>1. CASE GoTo(r, pc)
  <2>. DEFINE q == [request[r] EXCEPT !.pc = pc]
  <2>1. request' = [request EXCEPT ![r] = q] BY <1>1 DEF GoTo, EvidenceInv, TypeInv, TypeOK
  <2>2. Grounded(request[r]) BY DEF EvidenceInv, RequestsGrounded
  <2>3. request[r] \in RequestState BY DEF EvidenceInv, TypeInv, TypeOK
  <2>4. Grounded(q) BY <1>1, <2>2, <2>3 DEF Grounded, Key, RequestState
  <2>. HIDE DEF q
  <2>. QED BY <2>1, <2>4, RequestsStay DEF EvidenceInv
<1>2. CASE Done(r)
  <2>1. Grounded(Idle) BY DEF Grounded, Idle
  <2>. QED BY <1>2, <2>1, RequestsStay DEF EvidenceInv, Done
<1>. QED BY <1>1, <1>2

LEMMA EndsGrounded ==
  ASSUME EvidenceInv, TypeInv', [Next]_vars, NEW r \in Request, request[r].pc # "idle", Done(r),
         NEW s \in PolicyState \cup {NoPolicy}, Stored(Key(r), s),
         Published(s) => Evidence(Key(r)), UNCHANGED <<gate_passed, approvals, made, evaluation>>
  PROVE  EvidenceInv'
<1>1. Key(r) \in Policy BY DEF Key, EvidenceInv, TypeInv, RequestsFit, Fits
<1>2. RequestsGrounded' BY MovesGrounded DEF Step
<1>. QED BY <1>1, <1>2, ReleaseStays, ApprovalsStay, ReportsStay DEF EvidenceInv

(* What a request read, saved again under a stage that is not published,   *)
(* is published only if it was the baseline when it was read.              *)
LEMMA SeenAgain ==
  ASSUME EvidenceInv, NEW r \in Request, request[r].pc # "idle",
         NEW stage \in Stage \ {"released", "baseline"}
  PROVE  Published([Seen(r) EXCEPT !.stage = stage]) \/ Published(Seen(r)) => Evidence(Key(r))
<1>1. Published(Seen(r)) => Evidence(Key(r))
  BY DEF EvidenceInv, RequestsGrounded, Grounded, Seen, Key
<1>2. CASE Seen(r) \in PolicyState BY <1>1, <1>2 DEF Published, PolicyState
<1>3. CASE Seen(r) = NoPolicy
  <2>1. ~Published([NoPolicy EXCEPT !.stage = stage]) BY DEF Published, NoPolicy
  <2>. QED BY <1>1, <1>3, <2>1
<1>. QED BY <1>2, <1>3, FieldTypes DEF EvidenceInv, TypeInv

-----------------------------------------------------------------------------
(* Evidence survives every step of every request.                          *)
LEMMA EvidenceStep == EvidenceInv /\ [Next]_vars => EvidenceInv'
<1>. SUFFICES ASSUME EvidenceInv, [Next]_vars PROVE EvidenceInv' OBVIOUS
<1>0. TypeInv' BY TypeStep DEF EvidenceInv
<1>1. CASE UNCHANGED vars
  BY <1>0, <1>1 DEF vars, EvidenceInv, ReleaseEvidence, ApprovalsGrounded, ReportsGrounded,
                    RequestsGrounded, Grounded, Published, Evidence, Passed
<1>2. ASSUME NEW r \in Request, Register(r) PROVE EvidenceInv'
  <2>1. PICK p \in Policy : Stored(p, [stage |-> "candidate", is_current_baseline |-> FALSE])
    BY <1>2 DEF Register
  <2>2. /\ [stage |-> "candidate", is_current_baseline |-> FALSE] \in PolicyState
        /\ ~Published([stage |-> "candidate", is_current_baseline |-> FALSE])
    BY DEF PolicyState, Stage, Published
  <2>3. ReleaseEvidence' BY <1>0, <2>1, <2>2, ReleaseStays DEF EvidenceInv
  <2>4. ApprovalsGrounded' BY <1>0, <1>2, ApprovalsStay DEF EvidenceInv, Register
  <2>5. RequestsGrounded'
    BY <1>2 DEF Register, EvidenceInv, RequestsGrounded, Grounded, Evidence, Passed
  <2>6. ReportsGrounded' BY <1>2, ReportsStay DEF Register, EvidenceInv
  <2>. QED BY <1>0, <2>3, <2>4, <2>5, <2>6 DEF EvidenceInv
<1>3. ASSUME NEW r \in Request, EvaluationBegins(r) \/ AttachBegins(r) PROVE EvidenceInv'
  BY <1>0, <1>3, BeginsGrounded DEF EvaluationBegins, AttachBegins, Step
<1>4. ASSUME NEW r \in Request, EvaluationReports(r) PROVE EvidenceInv'
  <2>1. RequestsGrounded' BY <1>0, <1>4, MovesGrounded DEF EvaluationReports, Step
  <2>2. ReportsGrounded'
    BY <1>4 DEF EvaluationReports, EvidenceInv, TypeInv, TypeOK, ReportsGrounded, Passed
  <2>. QED BY <1>0, <1>4, <2>1, <2>2, ReleaseStays, ApprovalsStay
           DEF EvaluationReports, EvidenceInv
<1>5. ASSUME NEW r \in Request, GateFlags(r) PROVE EvidenceInv'
  <2>1. RequestsGrounded' BY <1>0, <1>5, MovesGrounded DEF GateFlags, Step
  <2>. QED BY <1>0, <1>5, <2>1, ReleaseStays, ApprovalsStay, ReportsStay DEF GateFlags, EvidenceInv
<1>6. ASSUME NEW r \in Request, GateSaves(r) PROVE EvidenceInv'
  <2>1. PICK stage \in {"gate_passed", "gate_failed"} :
          Stored(Key(r), [Seen(r) EXCEPT !.stage = stage])
    BY <1>6 DEF GateSaves
  <2>2. stage \in Stage \ {"released", "baseline"} BY DEF Stage
  <2>3. [Seen(r) EXCEPT !.stage = stage] \in PolicyState
    BY <2>2, RestagedType DEF EvidenceInv, TypeInv
  <2>4. request[r].pc # "idle" /\ Done(r) /\ UNCHANGED <<gate_passed, approvals, made, evaluation>>
    BY <1>6 DEF GateSaves
  <2>. QED BY <1>0, <2>1, <2>2, <2>3, <2>4, SeenAgain, EndsGrounded
<1>7. ASSUME NEW r \in Request, ApprovalBegins(r) PROVE EvidenceInv'
  BY <1>0, <1>7, BeginsGrounded DEF ApprovalBegins, Step, Passed
<1>8. ASSUME NEW r \in Request, ApprovalSaves(r) PROVE EvidenceInv'
  <2>1. RequestsGrounded' BY <1>0, <1>8, MovesGrounded DEF ApprovalSaves, Step
  <2>2. request[r].decision = "approved" => Passed(Key(r))
    BY <1>8 DEF ApprovalSaves, EvidenceInv, RequestsGrounded, Grounded, Key
  <2>3. ApprovalsGrounded'
    BY <1>8, <2>2 DEF ApprovalSaves, EvidenceInv, TypeInv, TypeOK, ApprovalsGrounded, Passed
  <2>. QED BY <1>0, <1>8, <2>1, <2>3, ReleaseStays, ReportsStay DEF ApprovalSaves, EvidenceInv
<1>9. ASSUME NEW r \in Request, ApprovalSavesPolicy(r) PROVE EvidenceInv'
  <2>1. request[r].pc # "idle" /\ Done(r) /\ UNCHANGED <<gate_passed, approvals, made, evaluation>>
    BY <1>9 DEF ApprovalSavesPolicy
  <2>2. "approved" \in Stage \ {"released", "baseline"} BY DEF Stage
  <2>3. PICK s \in {Seen(r), [Seen(r) EXCEPT !.stage = "approved"]} : Stored(Key(r), s)
    BY <1>9 DEF ApprovalSavesPolicy
  <2>4. s \in PolicyState \cup {NoPolicy}
    BY <2>2, FieldTypes, RestagedType DEF EvidenceInv, TypeInv
  <2>5. Published(s) => Evidence(Key(r)) BY <2>1, <2>2, SeenAgain
  <2>. QED BY <1>0, <2>1, <2>3, <2>4, <2>5, EndsGrounded
<1>10. ASSUME NEW r \in Request, ReleaseBegins(r) PROVE EvidenceInv'
  BY <1>0, <1>10, BeginsGrounded DEF ReleaseBegins, Step
<1>11. ASSUME NEW r \in Request, ReleaseChecksGate(r) PROVE EvidenceInv'
  <2>1. RequestsGrounded' BY <1>0, <1>11, MovesGrounded DEF ReleaseChecksGate, Step
  <2>. QED BY <1>0, <1>11, <2>1, ReleaseStays, ApprovalsStay, ReportsStay
           DEF ReleaseChecksGate, EvidenceInv
<1>12. ASSUME NEW r \in Request, ReleaseChecksApproval(r) PROVE EvidenceInv'
  <2>1. Key(r) \in Policy
    BY <1>12 DEF ReleaseChecksApproval, Key, EvidenceInv, TypeInv, RequestsFit, Fits
  <2>2. approvals[Key(r)].latest = "approved" => Evidence(Key(r))
    BY <2>1 DEF EvidenceInv, ApprovalsGrounded, Evidence, Passed
  <2>3. RequestsGrounded'
    BY <1>0, <1>12, <2>2, MovesGrounded DEF ReleaseChecksApproval, Step
  <2>. QED BY <1>0, <1>12, <2>3, ReleaseStays, ApprovalsStay, ReportsStay
           DEF ReleaseChecksApproval, EvidenceInv
<1>13. ASSUME NEW r \in Request, ReleaseSaves(r) PROVE EvidenceInv'
  <2>1. /\ request[r].pc # "idle" /\ Done(r)
        /\ UNCHANGED <<gate_passed, approvals, made, evaluation>>
        /\ Stored(Key(r), [Seen(r) EXCEPT !.stage = "released"])
    BY <1>13 DEF ReleaseSaves
  <2>2. Evidence(Key(r)) BY <1>13 DEF ReleaseSaves, EvidenceInv, RequestsGrounded, Grounded, Key
  <2>3. [Seen(r) EXCEPT !.stage = "released"] \in PolicyState
    BY RestagedType DEF EvidenceInv, TypeInv, Stage
  <2>. QED BY <1>0, <2>1, <2>2, <2>3, EndsGrounded
<1>14. ASSUME NEW r \in Request, PromotionBegins(r) PROVE EvidenceInv'
  <2>1. PICK p \in Policy : /\ policy[p].stage \in {"released", "baseline"}
                            /\ Reads(r, p, "list", "none")
    BY <1>14 DEF PromotionBegins
  <2>2. Evidence(p) BY <2>1 DEF EvidenceInv, ReleaseEvidence, Published
  <2>. QED BY <1>0, <2>1, <2>2, BeginsGrounded DEF Step
<1>15. ASSUME NEW r \in Request, PromotionLists(r) PROVE EvidenceInv'
  <2>. DEFINE rest == {p \in Policy : policy[p].is_current_baseline}
              q == [request[r] EXCEPT !.pc = "demote", !.rest = rest]
  <2>1. request' = [request EXCEPT ![r] = q]
    BY <1>15 DEF PromotionLists, EvidenceInv, TypeInv, TypeOK
  <2>2. \A p \in rest : Evidence(p) BY DEF EvidenceInv, ReleaseEvidence, Published
  <2>3. Grounded(request[r]) /\ request[r] \in RequestState /\ request[r].pc = "list"
    BY <1>15 DEF PromotionLists, EvidenceInv, RequestsGrounded, TypeInv, TypeOK
  <2>. HIDE DEF rest
  <2>4. Grounded(q) BY <2>2, <2>3 DEF Grounded, RequestState
  <2>. HIDE DEF q
  <2>5. RequestsGrounded' BY <1>0, <2>1, <2>4, RequestsStay DEF EvidenceInv
  <2>. QED BY <1>0, <1>15, <2>5, ReleaseStays, ApprovalsStay, ReportsStay
           DEF PromotionLists, EvidenceInv
<1>16. ASSUME NEW r \in Request, PromotionDemotes(r) PROVE EvidenceInv'
  <2>1. PICK p \in request[r].rest :
          /\ Stored(p, [stage |-> "released", is_current_baseline |-> FALSE])
          /\ request' = [request EXCEPT ![r].rest = @ \ {p}]
    BY <1>16 DEF PromotionDemotes
  <2>. DEFINE q == [request[r] EXCEPT !.rest = request[r].rest \ {p}]
  <2>2. request' = [request EXCEPT ![r] = q] BY <2>1 DEF EvidenceInv, TypeInv, TypeOK
  <2>3. Grounded(request[r]) /\ request[r] \in RequestState
    BY DEF EvidenceInv, RequestsGrounded, TypeInv, TypeOK
  <2>4. Grounded(q) BY <2>3 DEF Grounded, RequestState
  <2>. HIDE DEF q
  <2>5. RequestsGrounded' BY <1>0, <2>2, <2>4, RequestsStay DEF EvidenceInv
  <2>6. /\ p \in Policy /\ Evidence(p)
        /\ [stage |-> "released", is_current_baseline |-> FALSE] \in PolicyState
    BY <2>3 DEF Grounded, RequestState, PolicyState, Stage
  <2>7. ReleaseEvidence' BY <1>0, <2>1, <2>6, ReleaseStays DEF EvidenceInv
  <2>. QED BY <1>0, <1>16, <2>5, <2>7, ApprovalsStay, ReportsStay DEF PromotionDemotes, EvidenceInv
<1>17. ASSUME NEW r \in Request, PromotionSaves(r) PROVE EvidenceInv'
  <2>1. /\ request[r].pc # "idle" /\ Done(r)
        /\ UNCHANGED <<gate_passed, approvals, made, evaluation>>
        /\ Stored(Key(r), [stage |-> "baseline", is_current_baseline |-> TRUE])
    BY <1>17 DEF PromotionSaves
  <2>2. Evidence(Key(r)) BY <1>17 DEF PromotionSaves, EvidenceInv, RequestsGrounded, Grounded, Key
  <2>3. [stage |-> "baseline", is_current_baseline |-> TRUE] \in PolicyState
    BY DEF PolicyState, Stage
  <2>. QED BY <1>0, <2>1, <2>2, <2>3, EndsGrounded
<1>18. ASSUME NEW r \in Request, ApprovalReadsReport(r) PROVE EvidenceInv'
  <2>1. /\ GoTo(r, "stamp") \/ Done(r)
        /\ GoTo(r, "stamp") /\ request[r].decision = "approved" => Passed(Key(r)) \/ Done(r)
    BY <1>18 DEF ApprovalReadsReport, Supports, EvidenceInv, ReportsGrounded
  <2>2. RequestsGrounded' BY <1>0, <1>18, <2>1, MovesGrounded DEF ApprovalReadsReport, Step
  <2>. QED BY <1>0, <1>18, <2>2, ReleaseStays, ApprovalsStay, ReportsStay
           DEF ApprovalReadsReport, EvidenceInv
<1>19. ASSUME NEW r \in Request, ApprovalIsMade(r) PROVE EvidenceInv'
  <2>. DEFINE q == [request[r] EXCEPT !.pc = "approval", !.timestamp = made + 1]
  <2>1. request' = [request EXCEPT ![r] = q]
    BY <1>19 DEF ApprovalIsMade, EvidenceInv, TypeInv, TypeOK
  <2>2. Grounded(request[r]) /\ request[r] \in RequestState /\ request[r].pc = "stamp"
    BY <1>19 DEF ApprovalIsMade, EvidenceInv, RequestsGrounded, TypeInv, TypeOK
  <2>3. Grounded(q) BY <2>2 DEF Grounded, RequestState
  <2>. HIDE DEF q
  <2>4. RequestsGrounded' BY <1>0, <2>1, <2>3, RequestsStay DEF EvidenceInv
  <2>. QED BY <1>0, <1>19, <2>4, ReleaseStays, ApprovalsStay, ReportsStay
           DEF ApprovalIsMade, EvidenceInv
<1>. QED BY <1>1, <1>2, <1>3, <1>4, <1>5, <1>6, <1>7, <1>8, <1>9, <1>10, <1>11, <1>12, <1>13,
            <1>14, <1>15, <1>16, <1>17, <1>18, <1>19 DEF Next

LEMMA EvidenceInit == Init => EvidenceInv
<1>. SUFFICES ASSUME Init PROVE EvidenceInv OBVIOUS
<1>1. ReleaseEvidence BY DEF Init, ReleaseEvidence, Published, NoPolicy
<1>2. ApprovalsGrounded BY DEF Init, ApprovalsGrounded
<1>3. RequestsGrounded BY DEF Init, RequestsGrounded, Grounded, Idle
<1>4. ReportsGrounded BY DEF Init, ReportsGrounded, NoReport
<1>. QED BY <1>1, <1>2, <1>3, <1>4, TypeInit DEF EvidenceInv

(* However many requests overlap, what is published has its evidence.      *)
THEOREM EvidenceCorrect == Spec => []ReleaseEvidence
<1>1. EvidenceInv => ReleaseEvidence BY DEF EvidenceInv
<1>. QED BY <1>1, EvidenceInit, EvidenceStep, PTL DEF Spec

-----------------------------------------------------------------------------
(* Each step that changes the policies saves one of them, and the index    *)
(* looks at all the others.                                                *)
LEMMA StepStores ==
  ASSUME [Next]_vars
  PROVE  UNCHANGED policy \/ \E p, s : Stored(p, s)
<1>1. CASE UNCHANGED vars BY <1>1 DEF vars
<1>2. ASSUME NEW r \in Request,
             Register(r) \/ GateSaves(r) \/ ApprovalSavesPolicy(r) \/ ReleaseSaves(r)
               \/ PromotionDemotes(r) \/ PromotionSaves(r)
      PROVE  \E p, s : Stored(p, s)
  BY <1>2 DEF Register, GateSaves, ApprovalSavesPolicy, ReleaseSaves, PromotionDemotes,
             PromotionSaves
<1>3. ASSUME NEW r \in Request,
             EvaluationBegins(r) \/ AttachBegins(r) \/ ApprovalBegins(r) \/ ReleaseBegins(r)
               \/ PromotionBegins(r)
      PROVE  UNCHANGED policy
  <2>1. ASSUME NEW p, NEW pc, NEW d, Reads(r, p, pc, d) PROVE UNCHANGED policy
    BY <2>1 DEF Reads
  <2>. QED BY <1>3, <2>1 DEF EvaluationBegins, AttachBegins, ApprovalBegins, ReleaseBegins,
                             PromotionBegins
<1>4. ASSUME NEW r \in Request,
             EvaluationReports(r) \/ GateFlags(r) \/ ApprovalReadsReport(r) \/ ApprovalIsMade(r)
      PROVE  UNCHANGED policy
  BY <1>4 DEF EvaluationReports, GateFlags, ApprovalReadsReport, ApprovalIsMade
<1>5. ASSUME NEW r \in Request,
             ApprovalSaves(r) \/ ReleaseChecksGate(r) \/ ReleaseChecksApproval(r)
               \/ PromotionLists(r)
      PROVE  UNCHANGED policy
  BY <1>5 DEF ApprovalSaves, ReleaseChecksGate, ReleaseChecksApproval, PromotionLists
<1>. QED BY <1>1, <1>2, <1>3, <1>4, <1>5 DEF Next

(* Over the repository with the unique index, no interleaving of requests  *)
(* leaves two current baselines.                                           *)
THEOREM OneBaselineCorrect == Unique => (Spec => []OneBaseline)
<1>. SUFFICES ASSUME Unique PROVE Spec => []OneBaseline OBVIOUS
<1>1. Init => OneBaseline BY DEF Init, OneBaseline, NoPolicy
<1>2. TypeInv /\ OneBaseline /\ [Next]_vars => OneBaseline'
  <2>. SUFFICES ASSUME TypeInv, OneBaseline, [Next]_vars PROVE OneBaseline' OBVIOUS
  <2>1. CASE UNCHANGED policy BY <2>1 DEF OneBaseline
  <2>2. ASSUME NEW p, NEW s, Stored(p, s) PROVE OneBaseline'
    <3>1. CASE Refused(p, s) BY <2>2, <3>1 DEF Stored, OneBaseline
    <3>2. CASE ~Refused(p, s)
      <4>1. policy' = [policy EXCEPT ![p] = s] BY <2>2, <3>2 DEF Stored
      <4>2. DOMAIN policy = Policy BY DEF TypeInv, TypeOK
      <4>3. ~s.is_current_baseline \/ \A q \in Policy \ {p} : ~policy[q].is_current_baseline
        BY <3>2 DEF Refused
      <4>. QED BY <4>1, <4>2, <4>3 DEF OneBaseline
    <3>. QED BY <3>1, <3>2
  <2>. QED BY <2>1, <2>2, StepStores
<1>. QED BY <1>1, <1>2, TypeInit, TypeStep, PTL DEF Spec

-----------------------------------------------------------------------------
(* One request at a time.  What the request carries is then still what the *)
(* repository holds, the policy whose gate is being saved is the only one  *)
(* whose stage and flag may differ, and a promotion has listed every       *)
(* baseline there is.                                                      *)
Lone == \A r, q \in Request : r = q

Agrees(p) == /\ policy[p].stage = "gate_passed" => p \in gate_passed
             /\ policy[p].stage = "gate_failed" => p \notin gate_passed

Saving(p) == \E r \in Request : request[r].pc = "save_gate" /\ request[r].policy = p

Agreement == \A p \in Policy : Saving(p) \/ Agrees(p)

Current(q) ==
  /\ q.pc \notin {"idle", "demote"} => q.seen = policy[q.policy]
  /\ q.pc \in {"flag", "save_gate"} => q.decision \in GateDecision
  /\ q.pc = "save_gate" => (q.decision = "passed" <=> q.policy \in gate_passed)
  /\ q.pc = "demote" => \A p \in Policy : policy[p].is_current_baseline => p \in q.rest

RequestsCurrent == \A r \in Request : Current(request[r])

AloneInv == TypeInv /\ OneBaseline /\ Agreement /\ RequestsCurrent

(* A request alone that begins, moves on or ends without a save.           *)
LEMMA ReadsAlone ==
  ASSUME Lone, AloneInv, TypeInv', NEW r \in Request, NEW p \in Policy,
         NEW pc \in {"report", "flag", "evidence", "gate", "list"}, NEW d,
         pc = "flag" => d \in GateDecision, Reads(r, p, pc, d)
  PROVE  AloneInv'
<1>1. \A x \in Request : x = r BY DEF Lone
<1>2. /\ request[r].pc = "idle" /\ UNCHANGED <<policy, gate_passed>>
      /\ request'[r].pc = pc /\ request'[r].policy = p /\ request'[r].seen = policy[p]
      /\ request'[r].decision = d
  BY DEF Reads, Free, AloneInv, TypeInv, TypeOK, Idle
<1>3. Agreement' BY <1>1, <1>2 DEF AloneInv, Agreement, Saving, Agrees
<1>4. RequestsCurrent' BY <1>1, <1>2 DEF RequestsCurrent, Current
<1>. QED BY <1>2, <1>3, <1>4 DEF AloneInv, OneBaseline

LEMMA MovesAlone ==
  ASSUME Lone, AloneInv, TypeInv', NEW r \in Request,
         request[r].pc \notin {"idle", "demote", "save_gate"},
         NEW pc \in {"flag", "stamp", "approval", "save_approval", "latest", "save_release"},
         pc = "flag" => request[r].decision \in GateDecision,
         GoTo(r, pc) \/ Done(r), UNCHANGED <<policy, gate_passed>>
  PROVE  AloneInv'
<1>1. \A x \in Request : x = r BY DEF Lone
<1>2. Current(request[r]) /\ request[r] \in RequestState
  BY DEF AloneInv, RequestsCurrent, TypeInv, TypeOK
<1>3. \/ request'[r].pc = "idle"
      \/ /\ request'[r].pc = pc /\ request'[r].policy = request[r].policy
         /\ request'[r].seen = request[r].seen /\ request'[r].decision = request[r].decision
  BY <1>2 DEF GoTo, Done, Idle, AloneInv, TypeInv, TypeOK, RequestState
<1>4. Agreement' BY <1>1, <1>3 DEF AloneInv, Agreement, Saving, Agrees
<1>5. RequestsCurrent' BY <1>1, <1>2, <1>3 DEF RequestsCurrent, Current
<1>. QED BY <1>4, <1>5 DEF AloneInv, OneBaseline

(* A save that leaves one baseline at most is not refused.                 *)
LEMMA SavesAlone ==
  ASSUME AloneInv, NEW p \in Policy, NEW s, Stored(p, s),
         s.is_current_baseline => \A q \in Policy \ {p} : ~policy[q].is_current_baseline
  PROVE  policy' = [policy EXCEPT ![p] = s] /\ OneBaseline'
<1>1. policy' = [policy EXCEPT ![p] = s] BY DEF Stored, Refused
<1>. QED BY <1>1 DEF AloneInv, TypeInv, TypeOK, OneBaseline

(* The last save of a request: the stage it saves agrees with the flag, or *)
(* is the one that was there.                                              *)
LEMMA EndsAlone ==
  ASSUME Lone, AloneInv, TypeInv', NEW r \in Request, Key(r) \in Policy, Done(r), NEW s,
         Stored(Key(r), s), UNCHANGED gate_passed,
         s.is_current_baseline => \A q \in Policy \ {Key(r)} : ~policy[q].is_current_baseline,
         s.stage = "gate_passed" => Key(r) \in gate_passed,
         s.stage = "gate_failed" => Key(r) \notin gate_passed
  PROVE  AloneInv'
<1>1. \A x \in Request : x = r BY DEF Lone
<1>2. policy' = [policy EXCEPT ![Key(r)] = s] /\ OneBaseline' BY SavesAlone
<1>3. request'[r].pc = "idle" BY DEF Done, Idle, AloneInv, TypeInv, TypeOK
<1>4. ASSUME NEW p \in Policy PROVE Agrees(p)'
  <2>1. CASE p = Key(r) BY <1>2, <2>1 DEF Agrees, AloneInv, TypeInv, TypeOK
  <2>2. CASE p # Key(r)
    <3>1. Agrees(p) BY <1>1, <2>2 DEF AloneInv, Agreement, Saving, Key
    <3>. QED BY <1>2, <2>2, <3>1 DEF Agrees, AloneInv, TypeInv, TypeOK
  <2>. QED BY <2>1, <2>2
<1>5. RequestsCurrent' BY <1>1, <1>3 DEF RequestsCurrent, Current
<1>. QED BY <1>2, <1>4, <1>5 DEF AloneInv, Agreement

(* What a request alone saves again is what the policy was, and no other   *)
(* policy is the baseline if it was.                                       *)
LEMMA RestagedAlone ==
  ASSUME AloneInv, NEW r \in Request, request[r].pc \notin {"idle", "demote"},
         NEW stage \in Stage
  PROVE  /\ Key(r) \in Policy /\ Seen(r) = policy[Key(r)]
         /\ [Seen(r) EXCEPT !.stage = stage].stage = stage
         /\ [Seen(r) EXCEPT !.stage = stage].is_current_baseline =>
              \A q \in Policy \ {Key(r)} : ~policy[q].is_current_baseline
<1>1. Key(r) \in Policy /\ Seen(r) = policy[Key(r)]
  BY DEF AloneInv, TypeInv, RequestsFit, Fits, RequestsCurrent, Current, Key, Seen
<1>2. Seen(r) \in PolicyState \/ Seen(r) = NoPolicy BY FieldTypes DEF AloneInv, TypeInv
<1>3. /\ [Seen(r) EXCEPT !.stage = stage].stage = stage
      /\ [Seen(r) EXCEPT !.stage = stage].is_current_baseline = Seen(r).is_current_baseline
  BY <1>2 DEF PolicyState, NoPolicy
<1>. QED BY <1>1, <1>3 DEF AloneInv, OneBaseline

-----------------------------------------------------------------------------
LEMMA AloneStep == Lone /\ AloneInv /\ [Next]_vars => AloneInv'
<1>. SUFFICES ASSUME Lone, AloneInv, [Next]_vars PROVE AloneInv' OBVIOUS
<1>0. TypeInv' BY TypeStep DEF AloneInv
<1>1. CASE UNCHANGED vars
  BY <1>0, <1>1 DEF vars, AloneInv, OneBaseline, Agreement, Saving, Agrees, RequestsCurrent,
                    Current
<1>2. ASSUME NEW r \in Request, Register(r) PROVE AloneInv'
  <2>. DEFINE s == [stage |-> "candidate", is_current_baseline |-> FALSE]
  <2>1. PICK p \in Policy : Stored(p, s) BY <1>2 DEF Register
  <2>2. policy' = [policy EXCEPT ![p] = s] /\ OneBaseline' BY <2>1, SavesAlone
  <2>3. \A x \in Request : request[x].pc = "idle" BY <1>2 DEF Lone, Register, Free
  <2>4. Agreement'
    BY <1>2, <2>2, <2>3 DEF Register, AloneInv, TypeInv, TypeOK, Agreement, Saving, Agrees
  <2>5. RequestsCurrent' BY <1>2, <2>3 DEF Register, RequestsCurrent, Current
  <2>. QED BY <1>0, <2>2, <2>4, <2>5 DEF AloneInv
<1>3. ASSUME NEW r \in Request,
             EvaluationBegins(r) \/ AttachBegins(r) \/ ApprovalBegins(r) \/ ReleaseBegins(r)
               \/ PromotionBegins(r)
      PROVE  AloneInv'
  <2>1. PICK p \in Policy, pc \in {"report", "flag", "evidence", "gate", "list"},
             d \in GateDecision \cup ApprovalDecision \cup {"none"} :
          Reads(r, p, pc, d) /\ (pc = "flag" => d \in GateDecision)
    BY <1>3 DEF EvaluationBegins, AttachBegins, ApprovalBegins, ReleaseBegins, PromotionBegins
  <2>. QED BY <1>0, <2>1, ReadsAlone
<1>4. ASSUME NEW r \in Request, EvaluationReports(r) PROVE AloneInv'
  <2>1. request[r].decision \in GateDecision
    BY <1>4 DEF EvaluationReports, AloneInv, TypeInv, RequestsFit, Fits
  <2>. QED BY <1>0, <1>4, <2>1, MovesAlone DEF EvaluationReports
<1>5. ASSUME NEW r \in Request, GateFlags(r) PROVE AloneInv'
  <2>1. \A x \in Request : x = r BY DEF Lone
  <2>2. /\ Current(request[r]) /\ request[r].pc = "flag" /\ request[r].decision \in GateDecision
        /\ Key(r) \in Policy
    BY <1>5 DEF GateFlags, AloneInv, RequestsCurrent, Current, TypeInv, RequestsFit, Fits, Key
  <2>3. /\ request'[r].pc = "save_gate" /\ request'[r].policy = Key(r)
        /\ request'[r].seen = request[r].seen /\ request'[r].decision = request[r].decision
    BY <1>5 DEF GateFlags, GoTo, Key, AloneInv, TypeInv, TypeOK, RequestState
  <2>4. UNCHANGED policy /\ (request[r].decision = "passed" <=> Key(r) \in gate_passed')
    BY <1>5, <2>2 DEF GateFlags
  <2>5. \A p \in Policy \ {Key(r)} : p \in gate_passed <=> p \in gate_passed'
    BY <1>5 DEF GateFlags
  <2>6. Agreement'
    BY <2>1, <2>2, <2>3, <2>4, <2>5 DEF AloneInv, Agreement, Saving, Agrees, Key
  <2>7. RequestsCurrent' BY <2>1, <2>2, <2>3, <2>4 DEF RequestsCurrent, Current, Key
  <2>. QED BY <1>0, <2>4, <2>6, <2>7 DEF AloneInv, OneBaseline
<1>6. ASSUME NEW r \in Request, GateSaves(r) PROVE AloneInv'
  <2>1. /\ request[r].pc = "save_gate" /\ Done(r) /\ UNCHANGED gate_passed
        /\ request[r].decision = "passed" <=> Key(r) \in gate_passed
    BY <1>6 DEF GateSaves, AloneInv, RequestsCurrent, Current, Key
  <2>2. PICK stage \in {"gate_passed", "gate_failed"} :
          /\ Stored(Key(r), [Seen(r) EXCEPT !.stage = stage])
          /\ stage = "gate_passed" <=> request[r].decision = "passed"
    BY <1>6 DEF GateSaves
  <2>3. stage \in Stage BY DEF Stage
  <2>. DEFINE s == [Seen(r) EXCEPT !.stage = stage]
  <2>4. /\ Key(r) \in Policy /\ s.stage = stage
        /\ s.is_current_baseline => \A q \in Policy \ {Key(r)} : ~policy[q].is_current_baseline
    BY <2>1, <2>3, RestagedAlone
  <2>5. Stored(Key(r), s) BY <2>2
  <2>. HIDE DEF s
  <2>. QED BY <1>0, <2>1, <2>2, <2>4, <2>5, EndsAlone
<1>7. ASSUME NEW r \in Request, ApprovalReadsReport(r) PROVE AloneInv'
  BY <1>0, <1>7, MovesAlone DEF ApprovalReadsReport
<1>8. ASSUME NEW r \in Request, ApprovalIsMade(r) PROVE AloneInv'
  <2>. DEFINE q == [request[r] EXCEPT !.pc = "approval", !.timestamp = made + 1]
  <2>1. request' = [request EXCEPT ![r] = q]
    BY <1>8 DEF ApprovalIsMade, AloneInv, TypeInv, TypeOK
  <2>2. /\ q.pc = "approval" /\ q.policy = request[r].policy /\ q.seen = request[r].seen
        /\ request[r].pc = "stamp" /\ UNCHANGED <<policy, gate_passed>>
    BY <1>8 DEF ApprovalIsMade, AloneInv, TypeInv, TypeOK, RequestState
  <2>. HIDE DEF q
  <2>3. request'[r] = q /\ \A x \in Request : x = r
    BY <2>1 DEF Lone, AloneInv, TypeInv, TypeOK
  <2>4. Agreement' BY <2>2, <2>3 DEF AloneInv, Agreement, Saving, Agrees
  <2>5. RequestsCurrent' BY <2>2, <2>3 DEF AloneInv, RequestsCurrent, Current
  <2>. QED BY <1>0, <2>2, <2>4, <2>5 DEF AloneInv, OneBaseline
<1>9. ASSUME NEW r \in Request, ApprovalSaves(r) PROVE AloneInv'
  BY <1>0, <1>9, MovesAlone DEF ApprovalSaves
<1>10. ASSUME NEW r \in Request, ApprovalSavesPolicy(r) PROVE AloneInv'
  <2>1. /\ request[r].pc = "save_approval" /\ Done(r) /\ UNCHANGED gate_passed
        /\ "approved" \in Stage
    BY <1>10 DEF ApprovalSavesPolicy, Stage
  <2>2. /\ Key(r) \in Policy /\ Seen(r) = policy[Key(r)]
        /\ Seen(r).is_current_baseline =>
              \A q \in Policy \ {Key(r)} : ~policy[q].is_current_baseline
    BY <2>1, RestagedAlone DEF AloneInv, OneBaseline
  <2>3. Agrees(Key(r)) BY <2>1, <2>2 DEF Lone, AloneInv, Agreement, Saving
  <2>. DEFINE s == [Seen(r) EXCEPT !.stage = "approved"]
  <2>4. /\ s.stage = "approved"
        /\ s.is_current_baseline => \A q \in Policy \ {Key(r)} : ~policy[q].is_current_baseline
    BY <2>1, RestagedAlone
  <2>5. Stored(Key(r), s) \/ Stored(Key(r), Seen(r)) BY <1>10 DEF ApprovalSavesPolicy
  <2>. HIDE DEF s
  <2>6. CASE Stored(Key(r), s) BY <1>0, <2>1, <2>2, <2>4, <2>6, EndsAlone
  <2>7. CASE Stored(Key(r), Seen(r))
    BY <1>0, <2>1, <2>2, <2>3, <2>7, EndsAlone DEF Agrees
  <2>. QED BY <2>5, <2>6, <2>7
<1>11. ASSUME NEW r \in Request, ReleaseChecksGate(r) \/ ReleaseChecksApproval(r)
       PROVE  AloneInv'
  <2>1. PICK pc \in {"latest", "save_release"} : GoTo(r, pc) \/ Done(r)
    BY <1>11 DEF ReleaseChecksGate, ReleaseChecksApproval
  <2>. QED BY <1>0, <1>11, <2>1, MovesAlone DEF ReleaseChecksGate, ReleaseChecksApproval
<1>12. ASSUME NEW r \in Request, ReleaseSaves(r) PROVE AloneInv'
  <2>1. /\ request[r].pc = "save_release" /\ Done(r) /\ UNCHANGED gate_passed
        /\ "released" \in Stage
    BY <1>12 DEF ReleaseSaves, Stage
  <2>. DEFINE s == [Seen(r) EXCEPT !.stage = "released"]
  <2>2. /\ Key(r) \in Policy /\ s.stage = "released"
        /\ s.is_current_baseline => \A q \in Policy \ {Key(r)} : ~policy[q].is_current_baseline
    BY <2>1, RestagedAlone
  <2>3. Stored(Key(r), s) BY <1>12 DEF ReleaseSaves
  <2>. HIDE DEF s
  <2>. QED BY <1>0, <2>1, <2>2, <2>3, EndsAlone
<1>13. ASSUME NEW r \in Request, PromotionLists(r) PROVE AloneInv'
  <2>. DEFINE rest == {p \in Policy : policy[p].is_current_baseline}
              q == [request[r] EXCEPT !.pc = "demote", !.rest = rest]
  <2>1. request' = [request EXCEPT ![r] = q]
    BY <1>13 DEF PromotionLists, AloneInv, TypeInv, TypeOK
  <2>2. request[r].pc = "list" /\ UNCHANGED <<policy, gate_passed>>
    BY <1>13 DEF PromotionLists
  <2>3. q.pc = "demote" /\ q.rest = rest BY DEF AloneInv, TypeInv, TypeOK, RequestState
  <2>. HIDE DEF q
  <2>4. request'[r] = q /\ \A x \in Request : x = r
    BY <2>1 DEF Lone, AloneInv, TypeInv, TypeOK
  <2>5. Agreement' BY <2>2, <2>3, <2>4 DEF AloneInv, Agreement, Saving, Agrees
  <2>6. RequestsCurrent' BY <2>2, <2>3, <2>4 DEF RequestsCurrent, Current
  <2>. QED BY <1>0, <2>2, <2>5, <2>6 DEF AloneInv, OneBaseline
<1>14. ASSUME NEW r \in Request, PromotionDemotes(r) PROVE AloneInv'
  <2>. DEFINE s == [stage |-> "released", is_current_baseline |-> FALSE]
  <2>1. PICK p \in request[r].rest :
          Stored(p, s) /\ request' = [request EXCEPT ![r].rest = @ \ {p}]
    BY <1>14 DEF PromotionDemotes
  <2>2. p \in Policy /\ request[r].pc = "demote" /\ UNCHANGED gate_passed
    BY <1>14, FieldTypes DEF PromotionDemotes, AloneInv, TypeInv
  <2>3. policy' = [policy EXCEPT ![p] = s] /\ OneBaseline' BY <2>1, <2>2, SavesAlone
  <2>4. request'[r].pc = "demote" /\ request'[r].rest = request[r].rest \ {p}
    BY <2>1, <2>2 DEF AloneInv, TypeInv, TypeOK, RequestState
  <2>5. \A x \in Request : x = r BY DEF Lone
  <2>6. Agreement'
    BY <2>2, <2>3, <2>5 DEF AloneInv, TypeInv, TypeOK, Agreement, Saving, Agrees
  <2>7. \A x \in Policy : policy'[x].is_current_baseline => x \in request'[r].rest
    BY <2>2, <2>3, <2>4 DEF AloneInv, TypeInv, TypeOK, RequestsCurrent, Current
  <2>8. RequestsCurrent' BY <2>4, <2>5, <2>7 DEF RequestsCurrent, Current
  <2>. QED BY <1>0, <2>3, <2>6, <2>8 DEF AloneInv
<1>15. ASSUME NEW r \in Request, PromotionSaves(r) PROVE AloneInv'
  <2>. DEFINE s == [stage |-> "baseline", is_current_baseline |-> TRUE]
  <2>1. /\ request[r].pc = "demote" /\ Done(r) /\ UNCHANGED gate_passed /\ Stored(Key(r), s)
        /\ \A q \in Policy : ~policy[q].is_current_baseline
    BY <1>15 DEF PromotionSaves, AloneInv, RequestsCurrent, Current
  <2>2. Key(r) \in Policy /\ s.stage = "baseline"
    BY <2>1 DEF AloneInv, TypeInv, RequestsFit, Fits, Key
  <2>. HIDE DEF s
  <2>. QED BY <1>0, <2>1, <2>2, EndsAlone
<1>. QED BY <1>1, <1>2, <1>3, <1>4, <1>5, <1>6, <1>7, <1>8, <1>9, <1>10, <1>11, <1>12, <1>13,
            <1>14, <1>15 DEF Next

(* Of requests that come one at a time, whether the repository has an      *)
(* index or not, none leaves a gate stage that the flag does not bear out, *)
(* or a second baseline.                                                   *)
THEOREM StagesCorrect == ASSUME Lone PROVE Spec => []StagesAgree
<1>1. Init => AloneInv
  <2>. SUFFICES ASSUME Init PROVE AloneInv OBVIOUS
  <2>1. OneBaseline /\ Agreement BY DEF Init, OneBaseline, Agreement, Agrees, NoPolicy
  <2>2. RequestsCurrent BY DEF Init, RequestsCurrent, Current, Idle
  <2>. QED BY <2>1, <2>2, TypeInit DEF AloneInv
<1>2. AloneInv => StagesAgree
  BY DEF AloneInv, Agreement, Saving, Agrees, StagesAgree, Quiet, Free
<1>3. Lone => (AloneInv /\ [Next]_vars => AloneInv') BY AloneStep
<1>4. AloneInv /\ [Next]_vars => AloneInv' BY <1>3
<1>. QED BY <1>1, <1>2, <1>4, PTL DEF Spec
=============================================================================
