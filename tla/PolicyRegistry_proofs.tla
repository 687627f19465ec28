------------------------ MODULE PolicyRegistry_proofs ------------------------
(***************************************************************************)
(* The registry keeps one released baseline, for every set of policies and *)
(* every audit store.  OneBaseline and BaselineWasReleased are inductive   *)
(* together with the fact that the current baseline is not archived, which *)
(* is what the guard of Archive is for.                                    *)
(***************************************************************************)
EXTENDS PolicyRegistry, TLAPS

NoneArchived == \A p \in is_current_baseline : stage[p] # "Archived"

(* A policy without an entry has the stage it will be registered with. *)
Fresh == \A p \in Policy \ registered : stage[p] = "Candidate"

BaselineInv == TypeOK /\ OneBaseline /\ BaselineWasReleased /\ NoneArchived /\ Fresh

-----------------------------------------------------------------------------
(* An audit record has an action of the log, whichever action it is for.   *)
LEMMA AuditActionType == \A a \in ApprovalAction : AuditActionOf(a) \in AuditAction
  BY DEF AuditActionOf, ApprovalAction, AuditAction

(* What Record leaves has its type, and only adds to the approvals.        *)
LEMMA RecordType ==
  ASSUME TypeOK, NEW p \in Policy, NEW a \in ApprovalAction, Record(p, a)
  PROVE  /\ approvals' \in [Policy -> SUBSET ApprovalAction]
         /\ audit' \in [Policy -> SUBSET AuditAction] /\ refused' \subseteq Policy
         /\ \A q \in Policy : approvals[q] \subseteq approvals'[q]
         /\ approvals' = [approvals EXCEPT ![p] = approvals[p] \cup {a}]
<1>1. AuditActionOf(a) \in AuditAction BY AuditActionType
<1>2. approvals' = [approvals EXCEPT ![p] = approvals[p] \cup {a}] BY DEF Record
<1>3. \/ audit' = audit
      \/ audit' = [audit EXCEPT ![p] = audit[p] \cup {AuditActionOf(a)}]
  BY DEF Record
<1>4. /\ approvals \in [Policy -> SUBSET ApprovalAction]
      /\ audit \in [Policy -> SUBSET AuditAction]
  BY DEF TypeOK
<1>5. refused' \subseteq Policy BY DEF Record, TypeOK
<1>. QED BY <1>1, <1>2, <1>3, <1>4, <1>5

(* Every variable keeps its type, whatever the calls.                      *)
LEMMA TypeStep == TypeOK /\ [Next]_vars => TypeOK'
<1>. SUFFICES ASSUME TypeOK, [Next]_vars PROVE TypeOK' OBVIOUS
<1>1. CASE UNCHANGED vars BY <1>1 DEF TypeOK, vars
<1>2. ASSUME NEW p \in Policy, RegisterCandidate(p) PROVE TypeOK'
  BY <1>2 DEF TypeOK, RegisterCandidate, PolicyStage, logs
<1>3. ASSUME NEW p \in Policy, NEW d \in GateDecision, AttachGateReport(p, d) PROVE TypeOK'
  BY <1>3 DEF TypeOK, AttachGateReport, PolicyStage, GateDecision, logs
<1>4. ASSUME NEW p \in Policy, Release(p) PROVE TypeOK'
  <2>1. Record(p, "Release") /\ "Release" \in ApprovalAction
    BY <1>4 DEF Release, ApprovalAction
  <2>. QED BY <1>4, <2>1, RecordType DEF TypeOK, Release, PolicyStage
<1>5. ASSUME NEW p \in Policy, NEW a \in {"PromoteBaseline", "RollbackBaseline"},
             MayBecomeBaseline(p), MoveBaseline(p), Record(p, a),
             UNCHANGED <<registered, gate_report>>
      PROVE TypeOK'
  <2>1. a \in ApprovalAction BY DEF ApprovalAction
  <2>2. stage' \in [Policy -> PolicyStage] BY <1>5 DEF TypeOK, MoveBaseline, PolicyStage
  <2>3. is_current_baseline' \subseteq registered BY <1>5 DEF MoveBaseline, MayBecomeBaseline
  <2>. QED BY <1>5, <2>1, <2>2, <2>3, RecordType DEF TypeOK
<1>6. ASSUME NEW p \in Policy, Archive(p) PROVE TypeOK'
  <2>1. Record(p, "Archive") /\ "Archive" \in ApprovalAction
    BY <1>6 DEF Archive, ApprovalAction
  <2>. QED BY <1>6, <2>1, RecordType DEF TypeOK, Archive, PolicyStage
<1>. QED BY <1>1, <1>2, <1>3, <1>4, <1>5, <1>6 DEF Next, PromoteBaseline, RollbackBaseline

(* The registry's types hold in every behaviour.                           *)
THEOREM TypeCorrect == Spec => []TypeOK
<1>1. Init => TypeOK BY DEF Init, TypeOK, PolicyStage, GateDecision
<1>. QED BY <1>1, TypeStep, PTL DEF Spec

-----------------------------------------------------------------------------
(* The invariant survives each call. Two actions matter: a promotion, for  *)
(* which every other flag is cleared, and a gate report on the baseline,   *)
(* which takes its stage away and leaves the flag.                         *)
LEMMA BaselineStep == BaselineInv /\ [Next]_vars => BaselineInv'
<1>. SUFFICES ASSUME BaselineInv, [Next]_vars PROVE BaselineInv' OBVIOUS
<1>. USE DEF BaselineInv
<1>0. TypeOK' BY TypeStep
<1>a. /\ stage \in [Policy -> PolicyStage] /\ is_current_baseline \subseteq Policy
      /\ is_current_baseline \subseteq registered
      /\ approvals \in [Policy -> SUBSET ApprovalAction]
  BY DEF TypeOK
<1>1. CASE UNCHANGED vars
  BY <1>0, <1>1 DEF vars, OneBaseline, BaselineWasReleased, NoneArchived, Fresh
<1>2. ASSUME NEW p \in Policy, RegisterCandidate(p) PROVE BaselineInv'
  BY <1>0, <1>a, <1>2 DEF RegisterCandidate, logs, OneBaseline, BaselineWasReleased, NoneArchived, Fresh
<1>3. ASSUME NEW p \in Policy, NEW d \in GateDecision, AttachGateReport(p, d) PROVE BaselineInv'
  BY <1>0, <1>a, <1>3 DEF AttachGateReport, logs, OneBaseline, BaselineWasReleased, NoneArchived, Fresh
<1>4. ASSUME NEW p \in Policy, Release(p) PROVE BaselineInv'
  <2>1. Record(p, "Release") /\ "Release" \in ApprovalAction
    BY <1>4 DEF Release, ApprovalAction
  <2>2. /\ \A q \in Policy : approvals[q] \subseteq approvals'[q]
        /\ "Release" \in approvals'[p]
    BY <1>a, <2>1, RecordType
  <2>3. /\ stage' = [stage EXCEPT ![p] = "Released"] /\ registered' = registered
        /\ is_current_baseline' = is_current_baseline /\ p \in registered
    BY <1>4 DEF Release
  <2>. QED BY <1>0, <1>a, <2>2, <2>3 DEF OneBaseline, BaselineWasReleased, NoneArchived, Fresh
<1>5. ASSUME NEW p \in Policy, NEW a \in {"PromoteBaseline", "RollbackBaseline"},
             MayBecomeBaseline(p), MoveBaseline(p), Record(p, a), UNCHANGED registered
      PROVE BaselineInv'
  <2>1. \A q \in Policy : approvals[q] \subseteq approvals'[q]
    BY <1>5, RecordType DEF ApprovalAction
  <2>2. /\ \A q \in Policy : stage'[q] = IF q = p THEN "Baseline"
                                  ELSE IF q \in is_current_baseline THEN "Released" ELSE stage[q]
        /\ is_current_baseline' = {p}
    BY <1>5 DEF MoveBaseline
  <2>3. stage[p] \in {"Released", "Baseline"} BY <1>5 DEF MayBecomeBaseline
  <2>4. OneBaseline' BY <1>a, <2>2 DEF OneBaseline
  <2>5. BaselineWasReleased' BY <1>a, <2>1, <2>2, <2>3 DEF BaselineWasReleased
  <2>6. NoneArchived' BY <2>2 DEF NoneArchived
  <2>7. Fresh' BY <1>5, <1>a, <2>2 DEF Fresh, MayBecomeBaseline
  <2>. QED BY <1>0, <2>4, <2>5, <2>6, <2>7
<1>6. ASSUME NEW p \in Policy, Archive(p) PROVE BaselineInv'
  <2>1. Record(p, "Archive") /\ "Archive" \in ApprovalAction
    BY <1>6 DEF Archive, ApprovalAction
  <2>2. \A q \in Policy : approvals[q] \subseteq approvals'[q] BY <2>1, RecordType
  <2>3. /\ stage' = [stage EXCEPT ![p] = "Archived"] /\ p \notin is_current_baseline
        /\ is_current_baseline' = is_current_baseline /\ registered' = registered
        /\ p \in registered
    BY <1>6 DEF Archive
  <2>. QED BY <1>0, <1>a, <2>2, <2>3 DEF OneBaseline, BaselineWasReleased, NoneArchived, Fresh
<1>. QED BY <1>1, <1>2, <1>3, <1>4, <1>5, <1>6 DEF Next, PromoteBaseline, RollbackBaseline

LEMMA BaselineInit == Init => BaselineInv
BY DEF Init, BaselineInv, TypeOK, OneBaseline, BaselineWasReleased, NoneArchived, Fresh,
       PolicyStage, GateDecision

(* However calls follow one another, no two policies are the baseline.     *)
THEOREM OneBaselineCorrect == Spec => []OneBaseline
<1>1. BaselineInv => OneBaseline BY DEF BaselineInv
<1>. QED BY <1>1, BaselineInit, BaselineStep, PTL DEF Spec

(* No policy comes to stand released, or to be the baseline, but through a *)
(* release of its own.                                                     *)
THEOREM ReleaseCorrect == Spec => []BaselineWasReleased
<1>1. BaselineInv => BaselineWasReleased BY DEF BaselineInv
<1>. QED BY <1>1, BaselineInit, BaselineStep, PTL DEF Spec

-----------------------------------------------------------------------------
(* A record keeps the books of the policy it is about, and of no other.    *)
LEMMA RecordKeepsBooks ==
  ASSUME TypeOK, ApprovalsAudited, NEW p \in Policy, NEW a \in ApprovalAction, Record(p, a)
  PROVE  ApprovalsAudited'
<1>. DEFINE due(q) == {AuditActionOf(b) : b \in approvals[q]}
<1>. DEFINE later(q) == {AuditActionOf(b) : b \in approvals'[q]}
<1>1. approvals \in [Policy -> SUBSET ApprovalAction] /\ audit \in [Policy -> SUBSET AuditAction]
  BY DEF TypeOK
<1>2. approvals' = [approvals EXCEPT ![p] = approvals[p] \cup {a}] BY DEF Record
<1>3. later(p) = due(p) \cup {AuditActionOf(a)} BY <1>1, <1>2
<1>4. \A q \in Policy \ {p} : later(q) = due(q) BY <1>1, <1>2
<1>5. \A q \in Policy : audit[q] \subseteq due(q) /\ (q \notin refused => audit[q] = due(q))
  BY DEF ApprovalsAudited
<1>6. \A q \in Policy : audit'[q] \subseteq later(q)
                         /\ (q \notin refused' => audit'[q] = later(q))
  <2>1. CASE audit' = [audit EXCEPT ![p] = audit[p] \cup {AuditActionOf(a)}] /\ refused' = refused
    <3>1. audit'[p] = audit[p] \cup {AuditActionOf(a)} BY <1>1, <2>1
    <3>2. \A q \in Policy \ {p} : audit'[q] = audit[q] BY <1>1, <2>1
    <3>. HIDE DEF due, later
    <3>. QED BY <1>3, <1>4, <1>5, <2>1, <3>1, <3>2
  <2>2. CASE audit' = audit /\ refused' = refused \cup {p}
    <3>. HIDE DEF due, later
    <3>. QED BY <1>3, <1>4, <1>5, <2>2
  <2>. QED BY <2>1, <2>2 DEF Record
<1>. QED BY <1>6 DEF ApprovalsAudited

(* Whatever the store refuses, the audit never claims an approval that was *)
(* not given, and misses one only of a policy it has refused a record of.  *)
THEOREM AuditCorrect == Spec => []ApprovalsAudited
<1>1. Init => ApprovalsAudited BY DEF Init, ApprovalsAudited
<1>2. TypeOK /\ ApprovalsAudited /\ [Next]_vars => ApprovalsAudited'
  <2>. SUFFICES ASSUME TypeOK, ApprovalsAudited, [Next]_vars PROVE ApprovalsAudited' OBVIOUS
  <2>1. CASE UNCHANGED logs
    <3>1. UNCHANGED <<approvals, audit, refused>> BY <2>1 DEF logs
    <3>. QED BY <3>1 DEF ApprovalsAudited
  <2>2. CASE \E p \in Policy, a \in ApprovalAction : Record(p, a)
    BY <2>2, RecordKeepsBooks
  <2>3. UNCHANGED logs \/ \E p \in Policy, a \in ApprovalAction : Record(p, a)
    BY DEF Next, vars, logs, RegisterCandidate, AttachGateReport, Release, PromoteBaseline,
           RollbackBaseline, Archive, ApprovalAction
  <2>. QED BY <2>1, <2>2, <2>3
<1>. QED BY <1>1, <1>2, TypeCorrect, PTL DEF Spec

-----------------------------------------------------------------------------
(* Each call is a step of PolicyBaseline or none.                          *)
LEMMA GovernanceStep ==
  ASSUME BaselineInv, [Next]_vars
  PROVE  [Governance!Next]_<<{p \in Policy : "Release" \in approvals[p]}, is_current_baseline,
                             {p \in Policy : stage[p] = "Archived"}>>
<1>. DEFINE Released == {p \in Policy : "Release" \in approvals[p]}
            Archived == {p \in Policy : stage[p] = "Archived"}
<1>a. /\ stage \in [Policy -> PolicyStage] /\ is_current_baseline \subseteq Policy
      /\ approvals \in [Policy -> SUBSET ApprovalAction]
  BY DEF BaselineInv, TypeOK
<1>1. CASE UNCHANGED vars
  <2>1. Released' = Released /\ Archived' = Archived BY <1>1 DEF vars
  <2>. QED BY <1>1, <2>1 DEF vars
<1>2. ASSUME NEW p \in Policy, RegisterCandidate(p)
      PROVE  UNCHANGED <<Released, is_current_baseline, Archived>>
  <2>1. stage' = stage BY <1>a, <1>2 DEF RegisterCandidate, logs, BaselineInv, Fresh
  <2>. QED BY <1>2, <2>1 DEF RegisterCandidate, logs
<1>3. ASSUME NEW p \in Policy, NEW d \in GateDecision, AttachGateReport(p, d)
      PROVE  UNCHANGED <<Released, is_current_baseline, Archived>>
  <2>1. Archived' = Archived BY <1>a, <1>3 DEF AttachGateReport, logs
  <2>. QED BY <1>3, <2>1 DEF AttachGateReport, logs
<1>4. ASSUME NEW p \in Policy, Release(p) PROVE Governance!Release(p)
  <2>1. approvals' = [approvals EXCEPT ![p] = approvals[p] \cup {"Release"}]
    BY <1>4 DEF Release, Record
  <2>2. Released' = Released \cup {p} BY <1>a, <2>1
  <2>3. Archived' = Archived /\ p \notin Archived BY <1>a, <1>4 DEF Release
  <2>. QED BY <1>4, <2>2, <2>3 DEF Release, Governance!Release
<1>5. ASSUME NEW p \in Policy, NEW a \in {"PromoteBaseline", "RollbackBaseline"},
             MayBecomeBaseline(p), MoveBaseline(p), Record(p, a)
      PROVE  Governance!SetBaseline(p)
  <2>1. approvals' = [approvals EXCEPT ![p] = approvals[p] \cup {a}] /\ a # "Release"
    BY <1>5 DEF Record
  <2>2. Released' = Released BY <1>a, <2>1
  <2>3. Archived' = Archived
    BY <1>a, <1>5 DEF MoveBaseline, MayBecomeBaseline, BaselineInv, NoneArchived
  <2>4. p \in Released \ Archived
    BY <1>5 DEF MayBecomeBaseline, BaselineInv, BaselineWasReleased
  <2>5. is_current_baseline' = {p} BY <1>5 DEF MoveBaseline
  <2>. QED BY <2>2, <2>3, <2>4, <2>5 DEF Governance!SetBaseline
<1>6. ASSUME NEW p \in Policy, Archive(p) PROVE Governance!Archive(p)
  <2>1. approvals' = [approvals EXCEPT ![p] = approvals[p] \cup {"Archive"}]
    BY <1>6 DEF Archive, Record
  <2>2. Released' = Released BY <1>a, <2>1
  <2>3. Archived' = Archived \cup {p} BY <1>a, <1>6 DEF Archive
  <2>. QED BY <1>6, <2>2, <2>3 DEF Archive, Governance!Archive
<1>. QED BY <1>1, <1>2, <1>3, <1>4, <1>5, <1>6
         DEF Next, PromoteBaseline, RollbackBaseline, Governance!Next

(* The registry implements PolicyBaseline: one baseline at a time, among   *)
(* the released policies, and archived policies stay out.                  *)
THEOREM GovernanceImplemented == Spec => GovernsBaseline
<1>1. Init => Governance!Init BY DEF Init, Governance!Init
<1>2. BaselineInv /\ [Next]_vars =>
        [Governance!Next]_<<{p \in Policy : "Release" \in approvals[p]}, is_current_baseline,
                            {p \in Policy : stage[p] = "Archived"}>>
  BY GovernanceStep
<1>. QED BY <1>1, <1>2, BaselineInit, BaselineStep, PTL
         DEF Spec, GovernsBaseline, Governance!Spec
=============================================================================
