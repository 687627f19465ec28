------------------------------ MODULE ApiRequests ------------------------------
(***************************************************************************)
(* A request to the HTTP facade from its header to its answer: the body is *)
(* parsed, the role of the header is normalized, the operation is allowed  *)
(* or not, a change is saved, and its evidence follows: the audit record,  *)
(* an event for that record, the operation's own event, each event first a *)
(* row and then an entry of the stream in memory; some operations have no  *)
(* record of success, some no event of their own.  Each of these is a call *)
(* of its own, made by a worker thread of the server, and the process may  *)
(* be killed between any two.  The operation modelled to the letter is the *)
(* export of an evaluation report, whose id is made of the number of event *)
(* rows; the other changes are saved in one call, and where an operation   *)
(* leaves several records or events of one kind they are one here.         *)
(***************************************************************************)
EXTENDS Integers, FiniteSets

CONSTANTS Request,   \* requests, each made once
          RawRole,   \* what the role header may hold
          Action,    \* the operations that are asked for
          MaxCrashes \* bound on the crashes

VARIABLES request,
          changed,  \* requests whose change is saved
          exports,  \* the request whose report each export id holds
          audited,  \* rows of the audit log: request and result
          rows,     \* rows of the events table: request and topic
          stream,   \* the same of the stream in memory
          saved,    \* history: the id each request saved its export under
          shared,   \* history: exports that were under way together
          crashes

vars == <<request, changed, exports, audited, rows, stream, saved, shared, crashes>>
evidence == <<audited, rows, stream>>

-----------------------------------------------------------------------------
(* security.py                                                             *)
Role == {"operator", "algorithm_engineer", "test_engineer", "auditor", "admin"}

TaskActions == {"task.submit", "task.confirm", "task.handoff"}
Overrides == {"control.emergency_stop", "control.safe_stand", "control.manual_control",
              "control.pause", "control.resume"}
Evaluations == {"evaluation.run", "evaluation.read", "evaluation.export"}
TrainingChanges == {"training.submit", "training.start", "training.checkpoint",
                    "training.complete", "training.fail", "training.cancel"}
PolicyChanges == {"policy.register", "policy.gate_report", "policy.approve", "policy.release",
                  "policy.promote_baseline"}
SceneChanges == {"scene.write", "scene.publish_baseline", "scene.archive"}
CommonReads == {"scene.read", "control.read", "replay.read", "events.read"}

permissions_for_role ==
  [operator |-> CommonReads \cup TaskActions \cup {"task.cancel"} \cup Overrides,
   algorithm_engineer |->
     CommonReads \cup TaskActions \cup {"training.read", "policy.approval.read"}
       \cup TrainingChanges \cup Evaluations \cup PolicyChanges,
   test_engineer |->
     CommonReads \cup SceneChanges \cup TaskActions \cup {"task.cancel", "training.read"}
       \cup Overrides \cup Evaluations,
   auditor |->
     CommonReads \cup {"audit.read", "training.read", "evaluation.read", "evaluation.export",
                       "policy.approval.read"},
   admin |-> {"*"}]

NeedsReason ==
  {"scene.publish_baseline", "scene.archive", "task.cancel", "control.manual_control",
   "policy.gate_report", "policy.approve", "policy.release", "policy.promote_baseline",
   "training.fail", "training.cancel"}

(* A role that is not known is taken for the administrator's. *)
normalize_to_admin(raw) == IF raw \in Role THEN raw ELSE "admin"

normalize_role(raw) == IF raw \in Role THEN raw ELSE "operator"

authorize(role, action) ==
  permissions_for_role[role] \cap {"*", action} # {}

Reads == CommonReads \cup {"audit.read", "training.read", "evaluation.read",
                           "policy.approval.read"}

(* The body of a request: some routes take required fields from it, some   *)
(* check what a field holds, and most that change something need an object;*)
(* a handoff may come without a body, and two routes do not look at it.    *)
Body == {"good", "field missing", "field wrong", "no object", "empty"}
Required ==
  {"scene.write", "task.submit", "policy.register", "policy.gate_report", "policy.approve",
   "evaluation.run", "training.submit", "training.checkpoint", "training.complete"}
    \cup Overrides
Checked == Required \cup {"task.handoff", "evaluation.export"}

Bodyless == Reads \cup {"task.confirm", "training.start"}

Malformed(action, body) ==
  \/ body = "field missing" /\ action \in Required
  \/ body = "field wrong" /\ action \in Checked
  \/ body = "no object" /\ action \notin Bodyless
  \/ body = "empty" /\ action \notin Bodyless \cup {"task.handoff"}

(* The evidence of an operation: changes without a record of success, what *)
(* has no event of its own, and what is recorded when its state forbids it.*)
Unaudited == TaskActions \cup {"training.submit", "training.checkpoint"}
WithoutEvent == {"task.cancel", "policy.release", "policy.promote_baseline", "audit.read"}
RefusalAudited == {"scene.publish_baseline", "scene.archive", "task.cancel", "policy.approve",
                   "policy.release", "policy.promote_baseline"}

(* What is refused without a trace: for the state of its object or of the  *)
(* scene it names, and for what the body says.                             *)
SilentConflict == TrainingChanges \cup TaskActions \cup {"scene.write", "evaluation.run"}
SilentInvalid == {"scene.write", "task.submit", "evaluation.run", "policy.register",
                  "training.submit", "training.checkpoint", "training.complete"}

-----------------------------------------------------------------------------
Fresh == [pc |-> "new", raw |-> "", action |-> "none", reason |-> FALSE, count |-> 0]

Init ==
  /\ request = [r \in Request |-> Fresh]
  /\ changed = {} /\ exports = [n \in {} |-> "none"]
  /\ audited = {} /\ rows = {} /\ stream = {}
  /\ saved = [r \in Request |-> 0] /\ shared = {} /\ crashes = 0

At(r, pc) == request[r].pc = pc
GoTo(r, pc) == request' = [request EXCEPT ![r].pc = pc]
Answered == {"200", "403", "404", "409", "422"}
Ended(r) == request[r].pc \in Answered \cup {"new", "killed"}
Exporting(r) == request[r].action = "evaluation.export" /\ ~Ended(r)

(* The body is parsed before the application is called: what is malformed  *)
(* is answered at once and leaves no trace, even if it was not allowed.    *)
Arrives(r) ==
  /\ At(r, "new")
  /\ \E raw \in RawRole, action \in Action, reason \in BOOLEAN, body \in Body :
       request' = [request EXCEPT ![r] =
         [Fresh EXCEPT !.pc = IF Malformed(action, body) THEN "422" ELSE "authorize",
                       !.raw = raw, !.action = action, !.reason = reason]]
  /\ UNCHANGED <<changed, exports, evidence, saved, shared, crashes>>

(* _require_high_risk_reason and _require_permission, then the look for    *)
(* what the operation is about: it may be missing, in a state that forbids *)
(* the operation, or asked for what is not valid.                          *)
Authorizes(r) ==
  /\ At(r, "authorize")
  /\ LET q == request[r]
     IN IF ~authorize(normalize_role(q.raw), q.action) THEN GoTo(r, "audit_denied")
        ELSE IF q.action \in NeedsReason /\ ~q.reason THEN GoTo(r, "audit_rejected")
        ELSE \/ GoTo(r, "404")
             \/ q.action \in SilentConflict /\ GoTo(r, "409")
             \/ q.action \in SilentInvalid /\ GoTo(r, "422")
             \/ q.action \in RefusalAudited /\ GoTo(r, "audit_rejected")
             \/ GoTo(r, CASE q.action = "audit.read" -> "audit_success"
                          [] q.action \in Reads \ {"audit.read"} -> "200"
                          [] q.action = "evaluation.export" -> "count"
                          [] OTHER -> "change")
  /\ shared' = shared \cup (IF request'[r].pc = "count" /\ \E q \in Request \ {r} : Exporting(q)
                            THEN {q \in Request : Exporting(q)} \cup {r} ELSE {})
  /\ UNCHANGED <<changed, exports, evidence, saved, crashes>>

Changes(r) ==
  /\ At(r, "change") /\ changed' = changed \cup {r}
  /\ GoTo(r, IF request[r].action \in Unaudited THEN "row_own" ELSE "audit_success")
  /\ UNCHANGED <<exports, evidence, saved, shared, crashes>>

(* The number of events is taken from the stream. *)
CountsStream(r) ==
  /\ At(r, "count")
  /\ request' = [request EXCEPT ![r] = [@ EXCEPT !.pc = "export", !.count = Cardinality(stream)]]
  /\ UNCHANGED <<changed, exports, evidence, saved, shared, crashes>>

(* export_evaluation_report                                                *)
CountsEvents(r) ==
  /\ At(r, "count")
  /\ request' = [request EXCEPT ![r] = [@ EXCEPT !.pc = "export", !.count = Cardinality(rows)]]
  /\ UNCHANGED <<changed, exports, evidence, saved, shared, crashes>>

SavesExport(r) ==
  /\ At(r, "export") /\ GoTo(r, "audit_success")
  /\ LET id == request[r].count + 1
     IN /\ exports' = [n \in DOMAIN exports \cup {id} |-> IF n = id THEN r ELSE exports[n]]
        /\ saved' = [saved EXCEPT ![r] = id]
  /\ changed' = changed \cup {r}
  /\ UNCHANGED <<evidence, shared, crashes>>

AuditStep == [audit_denied |-> "denied", audit_rejected |-> "rejected", audit_success |-> "success"]

(* The record and its event are entered for what succeeded only. *)
AuditsSuccess(r) ==
  /\ request[r].pc \in DOMAIN AuditStep
  /\ LET result == AuditStep[request[r].pc]
     IN IF result = "success"
          THEN audited' = audited \cup {<<r, result>>} /\ GoTo(r, "row_success")
          ELSE GoTo(r, "row_denied") /\ UNCHANGED audited
  /\ UNCHANGED <<changed, exports, rows, stream, saved, shared, crashes>>

(* _append_audit                                                           *)
Audits(r) ==
  /\ request[r].pc \in DOMAIN AuditStep
  /\ LET result == AuditStep[request[r].pc]
     IN /\ audited' = audited \cup {<<r, result>>}
        /\ GoTo(r, CASE result = "denied" -> "row_denied" [] result = "rejected" -> "row_rejected"
                     [] result = "success" -> "row_success")
  /\ UNCHANGED <<changed, exports, rows, stream, saved, shared, crashes>>

(* _append_event: the row, then the stream; the event of the audit record, *)
(* and then the operation's own, if it has one.                            *)
RowStep == [row_denied |-> "stream_denied", row_rejected |-> "stream_rejected",
            row_success |-> "stream_success", row_own |-> "stream_own"]
StreamSteps == {"stream_denied", "stream_rejected", "stream_success", "stream_own"}
AfterStream(q) ==
  CASE q.pc = "stream_denied" -> "403"
    [] q.pc = "stream_rejected" -> IF q.action \in NeedsReason /\ ~q.reason THEN "422" ELSE "409"
    [] q.pc = "stream_success" -> IF q.action \in WithoutEvent THEN "200" ELSE "row_own"
    [] q.pc = "stream_own" -> "200"
Topic(pc) == IF pc \in {"row_own", "stream_own"} THEN "own" ELSE "audit.record"

AppendsRow(r) ==
  /\ request[r].pc \in DOMAIN RowStep
  /\ rows' = rows \cup {<<r, Topic(request[r].pc)>>} /\ GoTo(r, RowStep[request[r].pc])
  /\ UNCHANGED <<changed, exports, audited, stream, saved, shared, crashes>>

AppendsToStream(r) ==
  /\ request[r].pc \in StreamSteps
  /\ stream' = stream \cup {<<r, Topic(request[r].pc)>>} /\ GoTo(r, AfterStream(request[r]))
  /\ UNCHANGED <<changed, exports, audited, rows, saved, shared, crashes>>

(* The process is killed and started again, with an empty stream.          *)
Crash ==
  /\ crashes < MaxCrashes /\ crashes' = crashes + 1
  /\ request' = [r \in Request |->
       IF Ended(r) THEN request[r] ELSE [request[r] EXCEPT !.pc = "killed"]]
  /\ stream' = {}
  /\ UNCHANGED <<changed, exports, audited, rows, saved, shared>>

Next ==
  \/ \E r \in Request :
       \/ Arrives(r) \/ Authorizes(r) \/ Changes(r) \/ CountsEvents(r) \/ SavesExport(r)
       \/ Audits(r) \/ AppendsRow(r) \/ AppendsToStream(r)
  \/ Crash

Spec == Init /\ [][Next]_vars

-----------------------------------------------------------------------------
(* PROPERTIES *)

(* Every variable has its type.                                            *)
TypeOK ==
  /\ request \in [Request ->
       [pc : Answered \cup {"new", "killed", "authorize", "change", "count", "export"}
               \cup DOMAIN AuditStep \cup DOMAIN RowStep \cup StreamSteps,
        raw : RawRole \cup {""}, action : Action \cup {"none"}, reason : BOOLEAN, count : Nat]]
  /\ changed \subseteq Request /\ shared \subseteq Request /\ crashes \in Nat
  /\ exports \in [DOMAIN exports -> Request] /\ DOMAIN exports \subseteq Nat \ {0}
  /\ saved \in [Request -> Nat]
  /\ audited \subseteq Request \X {"denied", "rejected", "success"}
  /\ rows \subseteq Request \X {"audit.record", "own"} /\ stream \subseteq rows

(* Wherever a crash falls, the audit log never says success of a change    *)
(* that was not saved, an event is never in the stream without its row or  *)
(* in a row before what it tells; and a request that was answered as done  *)
(* or as forbidden has all the evidence its operation leaves.              *)
EvidenceIsTrue ==
  /\ \A r \in Request :
       <<r, "success">> \in audited => r \in changed \/ request[r].action = "audit.read"
  /\ stream \subseteq rows
  /\ \A r \in Request :
       /\ <<r, "audit.record">> \in rows =>
            \E result \in {"denied", "rejected", "success"} : <<r, result>> \in audited
       /\ <<r, "own">> \in rows =>
            r \in changed /\ (<<r, "success">> \in audited \/ request[r].action \in Unaudited)
  /\ \A r \in Request :
       LET action == request[r].action
       IN /\ At(r, "200") /\ action \notin Reads => r \in changed
          /\ At(r, "200") /\ action \notin Unaudited \cup (Reads \ {"audit.read"}) =>
               <<r, "success">> \in audited /\ <<r, "audit.record">> \in rows
          /\ At(r, "200") /\ action \notin WithoutEvent \cup Reads => <<r, "own">> \in rows
          /\ At(r, "403") => <<r, "denied">> \in audited
          /\ r \in changed => request[r].pc \notin {"403", "404", "409", "422"}

(* A request whose role is missing or unknown neither trains a policy, nor *)
(* takes one towards its release, nor reads the audit log; an auditor      *)
(* changes nothing but adds exports; and no change that needs a reason is  *)
(* made without one.                                                       *)
NobodyElevated ==
  \A r \in Request :
    LET q == request[r]
    IN /\ r \in changed /\ q.raw \notin Role =>
            q.action \notin TrainingChanges \cup PolicyChanges \cup SceneChanges
       /\ At(r, "200") /\ q.raw \notin Role => q.action # "audit.read"
       /\ r \in changed /\ q.raw = "auditor" => q.action = "evaluation.export"
       /\ r \in changed /\ q.action \in NeedsReason => q.reason

(* An export that was answered, and that overlapped no other, is never     *)
(* replaced, although a crash may make a later one take the same number.   *)
AnsweredExportsKept ==
  \A r \in Request \ shared :
    At(r, "200") /\ saved[r] # 0 => saved[r] \in DOMAIN exports /\ exports[saved[r]] = r
=============================================================================
