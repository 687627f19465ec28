--------------------------- MODULE PolicyGovernance ---------------------------
(***************************************************************************)
(* Model governance in the Python API.  Every operation is a request in a  *)
(* worker thread; the repository locks each of its calls and nothing       *)
(* longer, so a request reads a policy in one step and replaces it, with   *)
(* what it read, in a later one.  The SQLite repository refuses a second   *)
(* current baseline, the in-memory one does not.  (Audit records and       *)
(* events, which no request of this part reads, are left out, and so are   *)
(* the permission and reason checks that end a request before its first    *)
(* read.)                                                                  *)
(***************************************************************************)
EXTENDS Integers, FiniteSets

CONSTANTS Policy,      \* policy keys
          Request,     \* request threads
          Evaluation,  \* evaluation ids, which the client names
          Unique,      \* has the repository a unique index on the current baseline
          Decision,    \* the gate and approval decisions that clients bring
          MaxApprovals \* bound on the approvals made

ASSUME ApprovalsAssumption == MaxApprovals \in Nat

VARIABLES policy,       \* the PolicyStateResponse of each key
          gate_passed,  \* the keys with the gate flag
          report,       \* the evaluation report saved under each id
          approvals,    \* the decisions of a policy's approvals, the latest and its time
          request,
          made,         \* approvals made so far, the clock of their timestamps
          evaluated     \* history: the policies with a passed report saved at some time

vars == <<policy, gate_passed, report, approvals, request, made, evaluated>>
evaluation == <<report, evaluated>>
stored == <<policy, gate_passed, approvals, made, evaluation>>

Stage == {"candidate", "gate_passed", "gate_failed", "approved", "released", "baseline"}
PolicyState == [stage : Stage, is_current_baseline : BOOLEAN]
NoPolicy == [stage |-> "none", is_current_baseline |-> FALSE]
GateDecision == {"passed", "failed"}
ApprovalDecision == {"approved", "rejected"}
Step == {"idle", "report", "flag", "save_gate", "evidence", "stamp", "approval", "save_approval",
         "gate", "latest", "save_release", "list", "demote"}

Report == [policy : Policy \cup {"none"}, decision : GateDecision \cup {"none"}]
NoReport == [policy |-> "none", decision |-> "none"]
Approvals == [all : SUBSET ApprovalDecision, latest : ApprovalDecision \cup {"none"}, at : Nat]

RequestState == [pc : Step, policy : Policy \cup {"none"}, seen : PolicyState \cup {NoPolicy},
                 decision : GateDecision \cup ApprovalDecision \cup {"none"},
                 rest : SUBSET Policy, timestamp : Nat]
Idle == [pc |-> "idle", policy |-> "none", seen |-> NoPolicy, decision |-> "none",
         rest |-> {}, timestamp |-> 0]

Init ==
  /\ policy = [p \in Policy |-> NoPolicy] /\ gate_passed = {}
  /\ report = [e \in Evaluation |-> NoReport] /\ evaluated = {}
  /\ approvals = [p \in Policy |-> [all |-> {}, latest |-> "none", at |-> 0]]
  /\ request = [r \in Request |-> Idle] /\ made = 0

-----------------------------------------------------------------------------
(* The index is there for the lookups only. *)
RefusedNever(p, s) == FALSE

(* save_policy: a second current baseline is refused, and the request ends *)
(* there with the exception.                                               *)
Refused(p, s) ==
  Unique /\ s.is_current_baseline /\ \E q \in Policy \ {p} : policy[q].is_current_baseline

Stored(p, s) == policy' = IF Refused(p, s) THEN policy ELSE [policy EXCEPT ![p] = s]

Free(r) == request[r].pc = "idle"
Key(r) == request[r].policy
Seen(r) == request[r].seen
GoTo(r, pc) == request' = [request EXCEPT ![r].pc = pc]
Done(r) == request' = [request EXCEPT ![r] = Idle]

(* A request that has read an existing policy and goes on.                 *)
Reads(r, p, pc, decision) ==
  /\ Free(r) /\ policy[p] # NoPolicy
  /\ request' = [request EXCEPT ![r] = [Idle EXCEPT !.pc = pc, !.policy = p, !.seen = policy[p],
                                                    !.decision = decision]]
  /\ UNCHANGED stored

(* register_policy, and complete_training_job for the policy it trained: a *)
(* new candidate takes the place of whatever is there; the gate flag, the  *)
(* reports and the approvals of the key stay.                              *)
Register(r) ==
  /\ Free(r)
  /\ \E p \in Policy : Stored(p, [stage |-> "candidate", is_current_baseline |-> FALSE])
  /\ UNCHANGED <<gate_passed, approvals, request, made, evaluation>>

-----------------------------------------------------------------------------
(* run_standard_evaluation saves the report first, in the place of any     *)
(* other with its id; attach_gate_report has none. Both then set the flag  *)
(* and save what they read with a new stage.                               *)
EvaluationBegins(r) ==
  \E p \in Policy, d \in GateDecision \cap Decision : Reads(r, p, "report", d)

EvaluationReports(r) ==
  /\ request[r].pc = "report" /\ GoTo(r, "flag")
  /\ \E e \in Evaluation :
       report' = [report EXCEPT ![e] = [policy |-> Key(r), decision |-> request[r].decision]]
  /\ evaluated' = IF request[r].decision = "passed" THEN evaluated \cup {Key(r)} ELSE evaluated
  /\ UNCHANGED <<policy, gate_passed, approvals, made>>

AttachBegins(r) ==
  \E p \in Policy, d \in GateDecision \cap Decision : Reads(r, p, "flag", d)

(* A failed gate leaves the flag as it was. *)
FlagsPassedOnly(r) ==
  /\ request[r].pc = "flag" /\ GoTo(r, "save_gate")
  /\ gate_passed' = IF request[r].decision = "passed" THEN gate_passed \cup {Key(r)}
                                                      ELSE gate_passed
  /\ UNCHANGED <<policy, approvals, made, evaluation>>

GateFlags(r) ==
  /\ request[r].pc = "flag" /\ GoTo(r, "save_gate")
  /\ gate_passed' = IF request[r].decision = "passed" THEN gate_passed \cup {Key(r)}
                                                      ELSE gate_passed \ {Key(r)}
  /\ UNCHANGED <<policy, approvals, made, evaluation>>

(* The decision is saved as the stage. *)
SavesDecision(r) ==
  /\ request[r].pc = "save_gate" /\ Done(r)
  /\ Stored(Key(r), [Seen(r) EXCEPT !.stage = request[r].decision])
  /\ UNCHANGED <<gate_passed, approvals, made, evaluation>>

GateSaves(r) ==
  /\ request[r].pc = "save_gate" /\ Done(r)
  /\ Stored(Key(r), [Seen(r) EXCEPT !.stage =
                       IF request[r].decision = "passed" THEN "gate_passed" ELSE "gate_failed"])
  /\ UNCHANGED <<gate_passed, approvals, made, evaluation>>

-----------------------------------------------------------------------------
(* approve_policy: any report of the policy will do for a rejection, a     *)
(* passed one is needed to approve; the stage is not looked at. The time   *)
(* of an approval is taken when it is made, and the latest is the one with *)
(* the latest time, in whatever order they are saved.                      *)
ApprovalBegins(r) ==
  \E p \in Policy, d \in ApprovalDecision \cap Decision : Reads(r, p, "evidence", d)

Supports(saved, p, d) == saved.policy = p /\ (d = "approved" => saved.decision = "passed")

ApprovalReadsReport(r) ==
  /\ request[r].pc = "evidence"
  /\ \/ /\ made < MaxApprovals /\ GoTo(r, "stamp")
        /\ \E e \in Evaluation : Supports(report[e], Key(r), request[r].decision)
     \/ Done(r) \* an id without a report, or with one that does not do
  /\ UNCHANGED stored

ApprovalIsMade(r) ==
  /\ request[r].pc = "stamp" /\ made' = made + 1
  /\ request' = [request EXCEPT ![r].pc = "approval", ![r].timestamp = made + 1]
  /\ UNCHANGED <<policy, gate_passed, approvals, evaluation>>

ApprovalSaves(r) ==
  /\ request[r].pc = "approval" /\ GoTo(r, "save_approval")
  /\ LET d == request[r].decision
         t == request[r].timestamp
     IN approvals' = [approvals EXCEPT ![Key(r)] =
                        [all |-> @.all \cup {d}, latest |-> IF t > @.at THEN d ELSE @.latest,
                         at |-> IF t > @.at THEN t ELSE @.at]]
  /\ UNCHANGED <<policy, gate_passed, made, evaluation>>

ApprovalSavesPolicy(r) ==
  /\ request[r].pc = "save_approval" /\ Done(r)
  /\ Stored(Key(r), IF request[r].decision = "approved" THEN [Seen(r) EXCEPT !.stage = "approved"]
                                                        ELSE Seen(r))
  /\ UNCHANGED <<gate_passed, approvals, made, evaluation>>

-----------------------------------------------------------------------------
(* release_policy: the policy, the flag, the latest approval, in this      *)
(* order, and then the stage of the policy that was read.                  *)
ReleaseBegins(r) == \E p \in Policy : Reads(r, p, "gate", "none")

ReleaseChecksGate(r) ==
  /\ request[r].pc = "gate"
  /\ IF Key(r) \in gate_passed THEN GoTo(r, "latest") ELSE Done(r)
  /\ UNCHANGED stored

(* The approval is not asked for. *)
ChecksStageOnly(r) ==
  /\ request[r].pc = "latest"
  /\ IF Seen(r).stage \in {"gate_passed", "approved", "released", "baseline"}
       THEN GoTo(r, "save_release") ELSE Done(r)
  /\ UNCHANGED stored

ReleaseChecksApproval(r) ==
  /\ request[r].pc = "latest"
  /\ IF /\ approvals[Key(r)].latest = "approved"
        /\ Seen(r).stage \in {"approved", "released", "baseline"}
       THEN GoTo(r, "save_release") ELSE Done(r)
  /\ UNCHANGED stored

ReleaseSaves(r) ==
  /\ request[r].pc = "save_release" /\ Done(r)
  /\ Stored(Key(r), [Seen(r) EXCEPT !.stage = "released"])
  /\ UNCHANGED <<gate_passed, approvals, made, evaluation>>

-----------------------------------------------------------------------------
(* promote_policy_baseline: every listed baseline is saved as released,    *)
(* one call each, then the policy that was read is saved as the baseline.  *)
PromotionBegins(r) ==
  \E p \in Policy : policy[p].stage \in {"released", "baseline"} /\ Reads(r, p, "list", "none")

PromotionLists(r) ==
  /\ request[r].pc = "list"
  /\ request' = [request EXCEPT ![r].pc = "demote",
                   ![r].rest = {p \in Policy : policy[p].is_current_baseline}]
  /\ UNCHANGED stored

PromotionDemotes(r) ==
  /\ request[r].pc = "demote"
  /\ \E p \in request[r].rest :
       /\ Stored(p, [stage |-> "released", is_current_baseline |-> FALSE])
       /\ request' = [request EXCEPT ![r].rest = @ \ {p}]
  /\ UNCHANGED <<gate_passed, approvals, made, evaluation>>

PromotionSaves(r) ==
  /\ request[r].pc = "demote" /\ request[r].rest = {} /\ Done(r)
  /\ Stored(Key(r), [stage |-> "baseline", is_current_baseline |-> TRUE])
  /\ UNCHANGED <<gate_passed, approvals, made, evaluation>>

-----------------------------------------------------------------------------
Next == \E r \in Request :
  \/ Register(r)
  \/ EvaluationBegins(r) \/ EvaluationReports(r) \/ AttachBegins(r)
  \/ GateFlags(r) \/ GateSaves(r)
  \/ ApprovalBegins(r) \/ ApprovalReadsReport(r) \/ ApprovalIsMade(r)
  \/ ApprovalSaves(r) \/ ApprovalSavesPolicy(r)
  \/ ReleaseBegins(r) \/ ReleaseChecksGate(r) \/ ReleaseChecksApproval(r) \/ ReleaseSaves(r)
  \/ PromotionBegins(r) \/ PromotionLists(r) \/ PromotionDemotes(r) \/ PromotionSaves(r)

Spec == Init /\ [][Next]_vars

-----------------------------------------------------------------------------
(* PROPERTIES *)

(* Every variable has its type. *)
TypeOK ==
  /\ policy \in [Policy -> PolicyState \cup {NoPolicy}] /\ gate_passed \subseteq Policy
  /\ report \in [Evaluation -> Report] /\ evaluated \subseteq Policy
  /\ approvals \in [Policy -> Approvals] /\ made \in Nat
  /\ request \in [Request -> RequestState]

Quiet == \A r \in Request : Free(r)

(* However requests overlap, a policy stands released, or is the baseline, *)
(* only if an evaluation of it passed at some time (its report may have    *)
(* been replaced since) and an approval of it was given.                   *)
Published(s) == s.stage \in {"released", "baseline"} \/ s.is_current_baseline
Evidence(p) == p \in evaluated /\ "approved" \in approvals[p].all
ReleaseEvidence == \A p \in Policy : Published(policy[p]) => Evidence(p)

(* The unique index keeps one current baseline at most, however the lists  *)
(* and the saves of two promotions interleave.                             *)
OneBaseline ==
  \A p, q \in Policy : policy[p].is_current_baseline /\ policy[q].is_current_baseline => p = q

(* When requests came one at a time and none is under way, the gate stages *)
(* agree with the flag that a release asks for, and one baseline at most   *)
(* is current even without the index.                                      *)
StagesAgree ==
  Quiet => /\ \A p \in Policy : /\ policy[p].stage = "gate_passed" => p \in gate_passed
                                /\ policy[p].stage = "gate_failed" => p \notin gate_passed
           /\ OneBaseline

(* ADR-0018 says a policy must have a passed gate and an approval as its   *)
(* latest one to be released: both hold when the release takes effect.     *)
ReleasedWithEvidence ==
  [][\A r \in Request : request[r].pc = "save_release" /\ request'[r].pc = "idle" =>
       Key(r) \in gate_passed /\ approvals[Key(r)].latest = "approved"]_vars
=============================================================================
