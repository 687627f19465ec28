---------------------------- MODULE PolicyRegistry ----------------------------
(***************************************************************************)
(* InMemoryPolicyRegistry: candidates, their gate reports, release,        *)
(* baseline promotion and rollback, archiving.  A call is one step; a call *)
(* that is refused changes nothing.  The audit record is written last, and *)
(* when the store refuses it the change it was about stays.                *)
(***************************************************************************)
EXTENDS Integers

CONSTANTS Policy,       \* policy references (id and version)
          AuditOutcome  \* what appending an audit record may return

ASSUME AuditAssumption == AuditOutcome # {} /\ AuditOutcome \subseteq BOOLEAN

VARIABLES registered,           \* the policies with an entry
          stage,
          gate_report,          \* the decision of the entry's last gate report
          is_current_baseline,  \* the entries with the flag
          approvals,            \* the actions approved
          audit,                \* the actions in the audit log
          refused               \* history: the policies a record of which was refused

vars == <<registered, stage, gate_report, is_current_baseline, approvals, audit, refused>>
logs == <<approvals, audit, refused>>

PolicyStage == {"Candidate", "GatePassed", "GateFailed", "Released", "Baseline", "Archived"}
GateDecision == {"Passed", "Failed"}
ApprovalAction == {"Release", "PromoteBaseline", "RollbackBaseline", "Archive"}
AuditAction == {"PolicyReleased", "PolicyRolledBack", "PolicyArchived"}

Init ==
  /\ registered = {} /\ is_current_baseline = {}
  /\ stage = [p \in Policy |-> "Candidate"]
  /\ gate_report = [p \in Policy |-> "none"]
  /\ approvals = [p \in Policy |-> {}] /\ audit = [p \in Policy |-> {}]
  /\ refused = {}

-----------------------------------------------------------------------------
(* What an approved change leaves behind. A promotion is audited under the *)
(* action of a release.                                                    *)
AuditActionOf(a) ==
  CASE a \in {"Release", "PromoteBaseline"} -> "PolicyReleased"
    [] a = "RollbackBaseline" -> "PolicyRolledBack"
    [] a = "Archive" -> "PolicyArchived"

(* No audit record for a rollback. *)
RecordsNoRollback(p, a) ==
  /\ approvals' = [approvals EXCEPT ![p] = @ \cup {a}]
  /\ \E ok \in AuditOutcome :
       /\ audit' = IF ok /\ a # "RollbackBaseline"
                    THEN [audit EXCEPT ![p] = @ \cup {AuditActionOf(a)}] ELSE audit
       /\ refused' = IF ok THEN refused ELSE refused \cup {p}

Record(p, a) ==
  /\ approvals' = [approvals EXCEPT ![p] = @ \cup {a}]
  /\ \E ok \in AuditOutcome :
       /\ audit' = IF ok THEN [audit EXCEPT ![p] = @ \cup {AuditActionOf(a)}] ELSE audit
       /\ refused' = IF ok THEN refused ELSE refused \cup {p}

RegisterCandidate(p) ==
  /\ p \notin registered
  /\ registered' = registered \cup {p}
  /\ stage' = [stage EXCEPT ![p] = "Candidate"]
  /\ UNCHANGED <<gate_report, is_current_baseline, logs>>

(* The decision itself becomes the stage. *)
AttachesDecision(p, decision) ==
  /\ p \in registered /\ stage[p] # "Archived"
  /\ gate_report' = [gate_report EXCEPT ![p] = decision]
  /\ stage' = [stage EXCEPT ![p] = decision]
  /\ UNCHANGED <<registered, is_current_baseline, logs>>

(* Whatever the stage: a released policy and the current baseline as well. *)
AttachGateReport(p, decision) ==
  /\ p \in registered /\ stage[p] # "Archived"
  /\ gate_report' = [gate_report EXCEPT ![p] = decision]
  /\ stage' = [stage EXCEPT ![p] = IF decision = "Passed" THEN "GatePassed" ELSE "GateFailed"]
  /\ UNCHANGED <<registered, is_current_baseline, logs>>

Release(p) ==
  /\ p \in registered /\ gate_report[p] = "Passed" /\ stage[p] = "GatePassed"
  /\ stage' = [stage EXCEPT ![p] = "Released"]
  /\ Record(p, "Release")
  /\ UNCHANGED <<registered, gate_report, is_current_baseline>>

GatedIsEnough(p) == p \in registered /\ stage[p] \in {"GatePassed", "Released", "Baseline"}

MayBecomeBaseline(p) == p \in registered /\ stage[p] \in {"Released", "Baseline"}

(* The entries that were current keep their flag. *)
MovesStageOnly(p) ==
  /\ stage' = [q \in Policy |-> IF q = p THEN "Baseline"
                                ELSE IF q \in is_current_baseline THEN "Released" ELSE stage[q]]
  /\ is_current_baseline' = is_current_baseline \cup {p}

(* Every entry with the flag loses it and becomes Released, whatever its   *)
(* stage was.                                                              *)
MoveBaseline(p) ==
  /\ stage' = [q \in Policy |-> IF q = p THEN "Baseline"
                                ELSE IF q \in is_current_baseline THEN "Released" ELSE stage[q]]
  /\ is_current_baseline' = {p}

PromoteBaseline(p) ==
  /\ MayBecomeBaseline(p) /\ MoveBaseline(p)
  /\ Record(p, "PromoteBaseline") /\ UNCHANGED <<registered, gate_report>>

RollbackBaseline(p) ==
  /\ MayBecomeBaseline(p) /\ MoveBaseline(p)
  /\ Record(p, "RollbackBaseline") /\ UNCHANGED <<registered, gate_report>>

(* The stage decides whether a baseline may be archived, not the flag. *)
ArchivesByStage(p) ==
  /\ p \in registered /\ stage[p] # "Baseline"
  /\ stage' = [stage EXCEPT ![p] = "Archived"]
  /\ is_current_baseline' = is_current_baseline \ {p}
  /\ Record(p, "Archive") /\ UNCHANGED <<registered, gate_report>>

Archive(p) ==
  /\ p \in registered /\ p \notin is_current_baseline
  /\ stage' = [stage EXCEPT ![p] = "Archived"]
  /\ Record(p, "Archive")
  /\ UNCHANGED <<registered, gate_report, is_current_baseline>>

Next == \E p \in Policy :
          \/ RegisterCandidate(p)
          \/ \E decision \in GateDecision : AttachGateReport(p, decision)
          \/ Release(p) \/ PromoteBaseline(p) \/ RollbackBaseline(p) \/ Archive(p)

Spec == Init /\ [][Next]_vars

-----------------------------------------------------------------------------
(* PROPERTIES *)

(* Every variable has its type. *)
TypeOK ==
  /\ registered \subseteq Policy /\ is_current_baseline \subseteq registered
  /\ stage \in [Policy -> PolicyStage] /\ gate_report \in [Policy -> GateDecision \cup {"none"}]
  /\ approvals \in [Policy -> SUBSET ApprovalAction] /\ audit \in [Policy -> SUBSET AuditAction]
  /\ refused \subseteq Policy

(* At most one policy is the current baseline, and no other has the stage, *)
(* however gate reports, releases and rollbacks come in between. (The      *)
(* current one may have lost the stage to a gate report.)                  *)
OneBaseline ==
  /\ \A p, q \in is_current_baseline : p = q
  /\ \A p \in Policy : stage[p] = "Baseline" => p \in is_current_baseline

(* What runs as the baseline, or may be made it, was released by an        *)
(* approval of its own: a passed gate report alone never leads there.      *)
BaselineWasReleased ==
  \A p \in Policy : p \in is_current_baseline \/ stage[p] \in {"Released", "Baseline"} =>
    "Release" \in approvals[p]

(* The audit never says of a policy what was not approved, and, unless the *)
(* store has refused a record of it, says all of it.                       *)
ApprovalsAudited ==
  \A p \in Policy :
    LET due == {AuditActionOf(a) : a \in approvals[p]}
    IN audit[p] \subseteq due /\ (p \notin refused => audit[p] = due)

Governance == INSTANCE PolicyBaseline
                WITH released <- {p \in Policy : "Release" \in approvals[p]},
                     baseline <- is_current_baseline,
                     archived <- {p \in Policy : stage[p] = "Archived"}

(* The registry seen from outside: releases, one baseline at a time among  *)
(* the released policies and never again none, and archived policies that  *)
(* stay out of both.                                                       *)
GovernsBaseline == Governance!Spec
=============================================================================
