-------------------------- MODULE Application_proofs --------------------------
(***************************************************************************)
(* Proofs about the parts of Application, for any requests, tasks, scenes, *)
(* jobs, records, policies, routes, texts and crashes.                     *)
(*                                                                         *)
(* First the parts that have no module of proofs of their own, each with   *)
(* its inductive invariant: the requests to the facade (Told, Allowed,     *)
(* ExportsApart, ExportsCounted), training jobs (SavesForward, JobAlone,   *)
(* PolicyComes), the route of a simulation run (OnRoute, DwellsAddUp) and  *)
(* its budget (InBudget), the backends (HasItsScene, RunsInIt), the        *)
(* windows (FollowsLast) and the local run (LocalPlace, LocalZone,         *)
(* LocalTelling, LocalFiles).  Then the composition: a step of the         *)
(* application is a step of a part or leaves its variables alone, so that  *)
(* what the part promises in its own specification the application keeps.  *)
(***************************************************************************)
EXTENDS Application, FiniteSetTheorems, SequenceTheorems, WellFoundedInduction, TLAPS

-----------------------------------------------------------------------------
(* THE FACADE.                                                             *)
(* Nothing that a request leaves is ever touched by another, but for the   *)
(* exports; so what holds of one request wherever it stands (Told,         *)
(* Allowed) tells the evidence and the roles.  The exports need two more:  *)
(* requests that export together are all in shared (ExportsApart), and the *)
(* number of rows has passed the number of an export as soon as the event  *)
(* of its audit record is entered (ExportsCounted).                        *)

Pc == Answered \cup {"new", "killed", "authorize", "change", "count", "export"}
        \cup DOMAIN AuditStep \cup DOMAIN RowStep \cup StreamSteps
RequestState == [pc : Pc, raw : RawRole \cup {""}, action : Action \cup {"none"},
                 reason : BOOLEAN, count : Nat]
Result == {"denied", "rejected", "success"}

TypeInv ==
  /\ request \in [Request -> RequestState]
  /\ changed \subseteq Request /\ shared \subseteq Request /\ crashes \in Nat
  /\ exports \in [DOMAIN exports -> Request] /\ DOMAIN exports \subseteq Nat \ {0}
  /\ saved \in [Request -> Nat]
  /\ audited \subseteq Request \X Result
  /\ rows \subseteq Request \X {"audit.record", "own"} /\ IsFiniteSet(rows)

(* Where a request stands after its change, and after a record of success. *)
AfterRecord == {"row_success", "stream_success", "row_own", "stream_own", "200", "killed"}
AfterChange == AfterRecord \cup {"audit_success"}

(* What a request has left behind, wherever it stands: none that has just  *)
(* arrived has left anything, and every step leaves its part of it.        *)
Told(r) ==
  LET q == request[r]
      success == <<r, "success">> \in audited
      recorded == <<r, "audit.record">> \in rows
      done == r \in changed
  IN /\ q.pc = "new" => /\ \A x \in Result : <<r, x>> \notin audited
                        /\ ~recorded /\ <<r, "own">> \notin rows
     /\ done => q.pc \in AfterChange
     /\ q.pc = "change" => q.action \notin Reads \cup {"evaluation.export"}
     /\ q.pc \in {"count", "export"} => q.action = "evaluation.export"
     /\ q.pc = "audit_success" => done \/ q.action = "audit.read"
     /\ success => done \/ q.action = "audit.read"
     /\ recorded => \E x \in Result : <<r, x>> \in audited
     /\ <<r, "own">> \in rows => done /\ (success \/ q.action \in Unaudited)
     /\ q.pc \in {"row_denied", "stream_denied", "403"} => <<r, "denied">> \in audited
     /\ q.pc = "row_rejected" => <<r, "rejected">> \in audited
     /\ q.pc \in {"row_success", "stream_success"} => success
     /\ q.pc \in {"stream_denied", "stream_rejected", "stream_success"} => recorded
     /\ q.pc \in {"row_own", "stream_own"} =>
          done /\ (q.action \in Unaudited \/ (success /\ recorded))
     /\ q.pc = "stream_own" => <<r, "own">> \in rows
     /\ q.pc = "200" =>
          /\ q.action \notin Reads => done
          /\ q.action \notin Unaudited \cup (Reads \ {"audit.read"}) => success /\ recorded
          /\ q.action \notin WithoutEvent \cup Reads => <<r, "own">> \in rows

(* What was authorized was allowed, and a change is none of the reads.     *)
Allowed(r) ==
  LET q == request[r]
  IN /\ q.pc \in (AfterChange \ {"killed"}) \cup {"change", "count", "export"} \/ r \in changed =>
          authorize(normalize_role(q.raw), q.action) /\ (q.action \in NeedsReason => q.reason)
     /\ r \in changed => q.action \notin Reads

EvidenceInv ==
  /\ TypeInv
  /\ stream \subseteq rows
  /\ \A r \in Request : Told(r) /\ Allowed(r)

(* Exports that are under way together are in shared.                      *)
OnExport(r) ==
  /\ request[r].action = "evaluation.export"
  /\ request[r].pc \in (AfterChange \ {"200", "killed"}) \cup {"count", "export"}
ExportsApart ==
  \A r, p \in Request : r # p /\ OnExport(r) /\ OnExport(p) => r \in shared

(* The number an export was saved under, and how it lies to that of rows:  *)
(* the events had been counted before its own were entered.                *)
ExportsCounted ==
  \A r \in Request :
    LET q == request[r]
    IN /\ saved[r] # 0 => /\ saved[r] = q.count + 1 /\ q.action = "evaluation.export"
                          /\ q.pc \in AfterChange
       /\ q.pc \in {"authorize", "change", "count", "export", "audit_success", "row_success"} =>
            <<r, "audit.record">> \notin rows
       /\ q.pc = "export" \/ saved[r] # 0 => q.count <= Cardinality(rows)
       /\ saved[r] # 0 /\ q.pc \in AfterRecord \ {"row_success", "killed"} =>
            saved[r] <= Cardinality(rows)

(* The report of a request that shared nothing is where it was saved, and  *)
(* what has counted the rows since will be saved under a later number.     *)
ExportsKept ==
  \A r \in Request \ shared :
    saved[r] # 0 /\ request[r].pc # "killed" =>
      /\ saved[r] \in DOMAIN exports /\ exports[saved[r]] = r
      /\ \A p \in Request :
           p # r /\ request[p].pc = "export" => saved[r] <= request[p].count

ExportInv == EvidenceInv /\ ExportsApart /\ ExportsCounted /\ ExportsKept

-----------------------------------------------------------------------------
(* The operators of the module.                                            *)

LEMMA Steps ==
  /\ DOMAIN AuditStep = {"audit_denied", "audit_rejected", "audit_success"}
  /\ AuditStep["audit_denied"] = "denied" /\ AuditStep["audit_rejected"] = "rejected"
  /\ AuditStep["audit_success"] = "success"
  /\ DOMAIN RowStep = {"row_denied", "row_rejected", "row_success", "row_own"}
  /\ RowStep["row_denied"] = "stream_denied" /\ RowStep["row_rejected"] = "stream_rejected"
  /\ RowStep["row_success"] = "stream_success" /\ RowStep["row_own"] = "stream_own"
BY DEF AuditStep, RowStep

LEMMA Streams ==
  ASSUME NEW q
  PROVE  /\ q.pc = "stream_denied" => AfterStream(q) = "403"
         /\ q.pc = "stream_rejected" => AfterStream(q) \in {"409", "422"}
         /\ q.pc = "stream_success" /\ q.action \in WithoutEvent => AfterStream(q) = "200"
         /\ q.pc = "stream_success" /\ q.action \notin WithoutEvent => AfterStream(q) = "row_own"
         /\ q.pc = "stream_own" => AfterStream(q) = "200"
BY DEF AfterStream

LEMMA Arrived ==
  ASSUME NEW r \in Request, Arrives(r)
  PROVE  \E q \in RequestState :
           request' = [request EXCEPT ![r] = q] /\ q.pc \in {"422", "authorize"}
<1>1. PICK raw \in RawRole, action \in Action, reason \in BOOLEAN, pc \in {"422", "authorize"} :
        request' = [request EXCEPT ![r] = [Fresh EXCEPT !.pc = pc, !.raw = raw,
                                                        !.action = action, !.reason = reason]]
  BY DEF Arrives
<1>. DEFINE q == [Fresh EXCEPT !.pc = pc, !.raw = raw, !.action = action, !.reason = reason]
<1>2. q \in RequestState /\ q.pc = pc BY DEF Fresh, RequestState, Pc, Answered
<1>3. request' = [request EXCEPT ![r] = q] BY <1>1
<1>. HIDE DEF q
<1>. QED BY <1>2, <1>3

LEMMA AuthorizedTo ==
  ASSUME request \in [Request -> RequestState], NEW r \in Request, Authorizes(r)
  PROVE  \E pc \in Pc :
           /\ request' = [request EXCEPT ![r] = [@ EXCEPT !.pc = pc]]
           /\ \/ pc \in {"audit_denied", "audit_rejected", "404", "409", "422"}
              \/ /\ authorize(normalize_role(request[r].raw), request[r].action)
                 /\ request[r].action \in NeedsReason => request[r].reason
                 /\ \/ pc = "audit_success" /\ request[r].action = "audit.read"
                    \/ pc = "200" /\ request[r].action \in Reads \ {"audit.read"}
                    \/ pc = "count" /\ request[r].action = "evaluation.export"
                    \/ pc = "change" /\ request[r].action \notin Reads \cup {"evaluation.export"}
BY Steps DEF Authorizes, GoTo, Pc, Answered, At

LEMMA GoesTo ==
  ASSUME request \in [Request -> RequestState], NEW r \in Request, NEW pc \in Pc, GoTo(r, pc)
  PROVE  /\ request' \in [Request -> RequestState]
         /\ request'[r].pc = pc /\ request'[r].raw = request[r].raw
         /\ request'[r].action = request[r].action /\ request'[r].reason = request[r].reason
         /\ request'[r].count = request[r].count
         /\ \A p \in Request : p # r => request'[p] = request[p]
BY DEF GoTo, RequestState

-----------------------------------------------------------------------------
(* The evidence.                                                           *)

(* What the others have left stays, and so does what holds of it.          *)
LEMMA OthersTell ==
  ASSUME NEW p \in Request, Told(p), Allowed(p), request'[p] = request[p],
         p \in changed' <=> p \in changed,
         \A x : <<p, x>> \in audited' <=> <<p, x>> \in audited,
         \A x : <<p, x>> \in rows' <=> <<p, x>> \in rows
  PROVE  Told(p)' /\ Allowed(p)'
<1>1. Told(p)' BY DEF Told
<1>2. Allowed(p)' BY DEF Allowed
<1>. QED BY <1>1, <1>2

LEMMA ArrivesTells ==
  ASSUME EvidenceInv, NEW r \in Request, Arrives(r) PROVE EvidenceInv'
<1>1. PICK q \in RequestState :
        request' = [request EXCEPT ![r] = q] /\ q.pc \in {"422", "authorize"}
  BY Arrived
<1>4. /\ UNCHANGED <<changed, exports, audited, rows, stream, saved, shared, crashes>>
      /\ request[r].pc = "new" /\ TypeInv /\ Told(r) /\ Allowed(r) /\ stream \subseteq rows
  BY DEF Arrives, evidence, At, EvidenceInv
<1>5. request' \in [Request -> RequestState] /\ request'[r].pc \in {"422", "authorize"}
  BY <1>1, <1>4 DEF TypeInv
<1>6. TypeInv' BY <1>4, <1>5 DEF TypeInv
<1>7. ASSUME NEW p \in Request, p # r PROVE Told(p)' /\ Allowed(p)'
  <2>1. request'[p] = request[p] BY <1>1, <1>4, <1>7 DEF TypeInv
  <2>2. Told(p) /\ Allowed(p) BY DEF EvidenceInv
  <2>. QED BY <1>4, <2>1, <2>2, OthersTell
<1>8. /\ r \notin changed /\ \A x \in Result : <<r, x>> \notin audited
      /\ <<r, "audit.record">> \notin rows /\ <<r, "own">> \notin rows
  BY <1>4 DEF Told, AfterChange, AfterRecord
<1>9. Told(r)' BY <1>4, <1>5, <1>8 DEF Told, Result
<1>10. Allowed(r)' BY <1>4, <1>5, <1>8 DEF Allowed, AfterChange, AfterRecord
<1>. QED BY <1>4, <1>6, <1>7, <1>9, <1>10 DEF EvidenceInv

LEMMA AuthorizesTells ==
  ASSUME EvidenceInv, NEW r \in Request, Authorizes(r) PROVE EvidenceInv'
<1>0. /\ UNCHANGED <<changed, exports, audited, rows, stream, saved, crashes>>
      /\ request[r].pc = "authorize" /\ TypeInv /\ Told(r) /\ stream \subseteq rows
  BY DEF Authorizes, evidence, At, EvidenceInv
<1>1. PICK pc \in Pc :
        /\ request' = [request EXCEPT ![r] = [@ EXCEPT !.pc = pc]]
        /\ \/ pc \in {"audit_denied", "audit_rejected", "404", "409", "422"}
           \/ /\ authorize(normalize_role(request[r].raw), request[r].action)
              /\ request[r].action \in NeedsReason => request[r].reason
              /\ \/ pc = "audit_success" /\ request[r].action = "audit.read"
                 \/ pc = "200" /\ request[r].action \in Reads \ {"audit.read"}
                 \/ pc = "count" /\ request[r].action = "evaluation.export"
                 \/ pc = "change" /\ request[r].action \notin Reads \cup {"evaluation.export"}
  BY <1>0, AuthorizedTo DEF TypeInv
<1>2. GoTo(r, pc) BY <1>1 DEF GoTo
<1>3. /\ request' \in [Request -> RequestState]
      /\ request'[r].pc = pc /\ request'[r].raw = request[r].raw
      /\ request'[r].action = request[r].action /\ request'[r].reason = request[r].reason
      /\ \A p \in Request : p # r => request'[p] = request[p]
  BY <1>0, <1>2, GoesTo DEF TypeInv
<1>4. TypeInv'
  <2>1. shared' \subseteq Request BY <1>0 DEF Authorizes, TypeInv
  <2>. QED BY <1>0, <1>3, <2>1 DEF TypeInv
<1>5. ASSUME NEW p \in Request, p # r PROVE Told(p)' /\ Allowed(p)'
  <2>1. Told(p) /\ Allowed(p) /\ request'[p] = request[p] BY <1>3, <1>5 DEF EvidenceInv
  <2>. QED BY <1>0, <2>1, OthersTell
<1>6. r \notin changed BY <1>0 DEF Told, AfterChange, AfterRecord
<1>7. Told(r)'
  <2>1. CASE pc \in {"audit_denied", "audit_rejected", "404", "409", "422"}
    BY <1>0, <1>3, <1>6, <2>1 DEF Told
  <2>2. CASE pc = "audit_success" /\ request[r].action = "audit.read"
    BY <1>0, <1>3, <1>6, <2>2 DEF Told
  <2>3. CASE pc = "200" /\ request[r].action \in Reads \ {"audit.read"}
    BY <1>0, <1>3, <1>6, <2>3 DEF Told
  <2>4. CASE pc = "count" /\ request[r].action = "evaluation.export"
    BY <1>0, <1>3, <1>6, <2>4 DEF Told
  <2>5. CASE pc = "change" /\ request[r].action \notin Reads \cup {"evaluation.export"}
    BY <1>0, <1>3, <1>6, <2>5 DEF Told
  <2>. QED BY <1>1, <2>1, <2>2, <2>3, <2>4, <2>5
<1>8. Allowed(r)'
  <2>1. CASE pc \in {"audit_denied", "audit_rejected", "404", "409", "422"}
    BY <1>0, <1>3, <1>6, <2>1 DEF Allowed, AfterChange, AfterRecord
  <2>2. CASE /\ authorize(normalize_role(request[r].raw), request[r].action)
             /\ request[r].action \in NeedsReason => request[r].reason
    BY <1>0, <1>3, <1>6, <2>2 DEF Allowed
  <2>. QED BY <1>1, <2>1, <2>2
<1>. QED BY <1>0, <1>4, <1>5, <1>7, <1>8 DEF EvidenceInv

(* A step of one request that leaves the others' evidence alone.           *)
LEMMA StepTells ==
  ASSUME EvidenceInv, NEW r \in Request, TypeInv',
         \A p \in Request : p # r => request'[p] = request[p],
         \A p \in Request : p # r => (p \in changed' <=> p \in changed),
         \A p \in Request : \A x : p # r => (<<p, x>> \in audited' <=> <<p, x>> \in audited),
         \A p \in Request : \A x : p # r => (<<p, x>> \in rows' <=> <<p, x>> \in rows),
         stream' \subseteq rows', Told(r)', Allowed(r)'
  PROVE  EvidenceInv'
<1>1. ASSUME NEW p \in Request, p # r PROVE Told(p)' /\ Allowed(p)'
  <2>1. Told(p) /\ Allowed(p) /\ request'[p] = request[p] BY <1>1 DEF EvidenceInv
  <2>. QED BY <1>1, <2>1, OthersTell
<1>. QED BY <1>1 DEF EvidenceInv

LEMMA ChangesTells ==
  ASSUME EvidenceInv, NEW r \in Request, Changes(r) PROVE EvidenceInv'
<1>0. /\ UNCHANGED <<exports, audited, rows, stream, saved, shared, crashes>>
      /\ changed' = changed \cup {r} /\ request[r].pc = "change"
      /\ TypeInv /\ Told(r) /\ Allowed(r) /\ stream \subseteq rows
  BY DEF Changes, evidence, At, EvidenceInv
<1>1. PICK pc \in Pc : /\ GoTo(r, pc)
                       /\ \/ pc = "row_own" /\ request[r].action \in Unaudited
                          \/ pc = "audit_success"
  BY Steps DEF Changes, Pc
<1>2. /\ request' \in [Request -> RequestState]
      /\ request'[r].pc = pc /\ request'[r].raw = request[r].raw
      /\ request'[r].action = request[r].action /\ request'[r].reason = request[r].reason
      /\ \A p \in Request : p # r => request'[p] = request[p]
  BY <1>0, <1>1, GoesTo DEF TypeInv
<1>3. TypeInv' BY <1>0, <1>2 DEF TypeInv
<1>4. Told(r)' BY <1>0, <1>1, <1>2 DEF Told, AfterChange, AfterRecord
<1>5. Allowed(r)' BY <1>0, <1>1, <1>2 DEF Told, Allowed
<1>. QED BY <1>0, <1>2, <1>3, <1>4, <1>5, StepTells

LEMMA CountsTells ==
  ASSUME EvidenceInv, NEW r \in Request, CountsEvents(r)
  PROVE  /\ EvidenceInv' /\ Cardinality(rows) \in Nat
         /\ request'[r] = [request[r] EXCEPT !.pc = "export", !.count = Cardinality(rows)]
         /\ \A p \in Request : p # r => request'[p] = request[p]
<1>0. /\ UNCHANGED <<changed, exports, audited, rows, stream, saved, shared, crashes>>
      /\ request[r].pc = "count" /\ request[r] \in RequestState
      /\ TypeInv /\ Told(r) /\ Allowed(r) /\ stream \subseteq rows
  BY DEF CountsEvents, evidence, At, EvidenceInv, TypeInv
<1>1. Cardinality(rows) \in Nat BY <1>0, FS_CardinalityType DEF TypeInv
<1>. DEFINE q == [request[r] EXCEPT !.pc = "export", !.count = Cardinality(rows)]
<1>2. q \in RequestState BY <1>0, <1>1 DEF RequestState, Pc
<1>3. /\ q.pc = "export" /\ q.raw = request[r].raw /\ q.action = request[r].action
      /\ q.reason = request[r].reason
  BY <1>0 DEF RequestState
<1>4. request' = [request EXCEPT ![r] = q] BY DEF CountsEvents
<1>5. request'[r] = [request[r] EXCEPT !.pc = "export", !.count = Cardinality(rows)]
  BY <1>0, <1>4 DEF TypeInv
<1>. HIDE DEF q
<1>6. /\ request' \in [Request -> RequestState] /\ request'[r] = q
      /\ \A p \in Request : p # r => request'[p] = request[p]
  BY <1>0, <1>2, <1>4 DEF TypeInv
<1>7. TypeInv' BY <1>0, <1>6 DEF TypeInv
<1>8. Told(r)' BY <1>0, <1>3, <1>6 DEF Told, AfterChange, AfterRecord
<1>9. Allowed(r)' BY <1>0, <1>3, <1>6 DEF Allowed
<1>10. EvidenceInv' BY <1>0, <1>6, <1>7, <1>8, <1>9, StepTells
<1>. QED BY <1>1, <1>5, <1>6, <1>10

LEMMA SavesTells ==
  ASSUME EvidenceInv, NEW r \in Request, SavesExport(r) PROVE EvidenceInv'
<1>0. /\ UNCHANGED <<audited, rows, stream, shared, crashes>>
      /\ changed' = changed \cup {r} /\ request[r].pc = "export" /\ request[r] \in RequestState
      /\ TypeInv /\ Told(r) /\ Allowed(r) /\ stream \subseteq rows
      /\ GoTo(r, "audit_success") /\ "audit_success" \in Pc
  BY Steps DEF SavesExport, evidence, At, EvidenceInv, TypeInv, Pc
<1>1. /\ request' \in [Request -> RequestState]
      /\ request'[r].pc = "audit_success" /\ request'[r].raw = request[r].raw
      /\ request'[r].action = request[r].action /\ request'[r].reason = request[r].reason
      /\ \A p \in Request : p # r => request'[p] = request[p]
  BY <1>0, GoesTo DEF TypeInv
<1>. DEFINE id == request[r].count + 1
<1>2. id \in Nat \ {0}
  <2>1. request[r].count \in Nat BY <1>0 DEF RequestState
  <2>. QED BY <2>1
<1>3. /\ exports' = [n \in DOMAIN exports \cup {id} |-> IF n = id THEN r ELSE exports[n]]
      /\ saved' = [saved EXCEPT ![r] = id]
  BY DEF SavesExport
<1>. HIDE DEF id
<1>4. /\ exports' \in [DOMAIN exports' -> Request] /\ DOMAIN exports' \subseteq Nat \ {0}
      /\ saved' \in [Request -> Nat]
  BY <1>0, <1>2, <1>3 DEF TypeInv
<1>5. TypeInv' BY <1>0, <1>1, <1>4 DEF TypeInv
<1>6. Told(r)' BY <1>0, <1>1 DEF Told, AfterChange, AfterRecord
<1>7. Allowed(r)'
  <2>1. request[r].action \notin Reads BY <1>0 DEF Told, Reads, CommonReads
  <2>. QED BY <1>0, <1>1, <2>1 DEF Allowed
<1>. QED BY <1>0, <1>1, <1>5, <1>6, <1>7, StepTells

LEMMA AuditsTells ==
  ASSUME EvidenceInv, NEW r \in Request, Audits(r) PROVE EvidenceInv'
<1>0. /\ UNCHANGED <<changed, exports, rows, stream, saved, shared, crashes>>
      /\ TypeInv /\ Told(r) /\ Allowed(r) /\ stream \subseteq rows
  BY DEF Audits, EvidenceInv
<1>1. PICK answer \in Result, pc \in Pc :
        /\ audited' = audited \cup {<<r, answer>>} /\ GoTo(r, pc)
        /\ \/ request[r].pc = "audit_denied" /\ answer = "denied" /\ pc = "row_denied"
           \/ request[r].pc = "audit_rejected" /\ answer = "rejected" /\ pc = "row_rejected"
           \/ request[r].pc = "audit_success" /\ answer = "success" /\ pc = "row_success"
  BY Steps DEF Audits, Result, Pc
<1>2. /\ request' \in [Request -> RequestState]
      /\ request'[r].pc = pc /\ request'[r].raw = request[r].raw
      /\ request'[r].action = request[r].action /\ request'[r].reason = request[r].reason
      /\ \A p \in Request : p # r => request'[p] = request[p]
  BY <1>0, <1>1, GoesTo DEF TypeInv
<1>3. TypeInv' BY <1>0, <1>1, <1>2 DEF TypeInv
<1>4. Told(r)'
  <2>1. CASE request[r].pc = "audit_denied" /\ answer = "denied" /\ pc = "row_denied"
    BY <1>0, <1>1, <1>2, <2>1 DEF Told, AfterChange, AfterRecord, Result
  <2>2. CASE request[r].pc = "audit_rejected" /\ answer = "rejected" /\ pc = "row_rejected"
    BY <1>0, <1>1, <1>2, <2>2 DEF Told, AfterChange, AfterRecord, Result
  <2>3. CASE request[r].pc = "audit_success" /\ answer = "success" /\ pc = "row_success"
    BY <1>0, <1>1, <1>2, <2>3 DEF Told, AfterChange, AfterRecord, Result
  <2>. QED BY <1>1, <2>1, <2>2, <2>3
<1>5. Allowed(r)' BY <1>0, <1>1, <1>2 DEF Allowed, AfterChange, AfterRecord
<1>. QED BY <1>0, <1>1, <1>2, <1>3, <1>4, <1>5, StepTells

LEMMA RowTells ==
  ASSUME EvidenceInv, NEW r \in Request, AppendsRow(r) PROVE EvidenceInv'
<1>0. /\ UNCHANGED <<changed, exports, audited, stream, saved, shared, crashes>>
      /\ TypeInv /\ Told(r) /\ Allowed(r) /\ stream \subseteq rows
  BY DEF AppendsRow, EvidenceInv
<1>1. PICK topic \in {"audit.record", "own"}, pc \in Pc :
        /\ rows' = rows \cup {<<r, topic>>} /\ GoTo(r, pc)
        /\ \/ /\ request[r].pc = "row_denied" /\ topic = "audit.record" /\ pc = "stream_denied"
           \/ /\ request[r].pc = "row_rejected" /\ topic = "audit.record"
              /\ pc = "stream_rejected"
           \/ /\ request[r].pc = "row_success" /\ topic = "audit.record" /\ pc = "stream_success"
           \/ /\ request[r].pc = "row_own" /\ topic = "own" /\ pc = "stream_own"
  BY Steps DEF AppendsRow, Topic, Pc, StreamSteps
<1>2. /\ request' \in [Request -> RequestState]
      /\ request'[r].pc = pc /\ request'[r].raw = request[r].raw
      /\ request'[r].action = request[r].action /\ request'[r].reason = request[r].reason
      /\ \A p \in Request : p # r => request'[p] = request[p]
  BY <1>0, <1>1, GoesTo DEF TypeInv
<1>3. TypeInv'
  <2>1. IsFiniteSet(rows') BY <1>0, <1>1, FS_AddElement DEF TypeInv
  <2>. QED BY <1>0, <1>1, <1>2, <2>1 DEF TypeInv
<1>4. Told(r)'
  <2>1. CASE request[r].pc = "row_denied" /\ topic = "audit.record" /\ pc = "stream_denied"
    BY <1>0, <1>1, <1>2, <2>1 DEF Told, AfterChange, AfterRecord, Result
  <2>2. CASE request[r].pc = "row_rejected" /\ topic = "audit.record" /\ pc = "stream_rejected"
    BY <1>0, <1>1, <1>2, <2>2 DEF Told, AfterChange, AfterRecord, Result
  <2>3. CASE request[r].pc = "row_success" /\ topic = "audit.record" /\ pc = "stream_success"
    BY <1>0, <1>1, <1>2, <2>3 DEF Told, AfterChange, AfterRecord, Result
  <2>4. CASE request[r].pc = "row_own" /\ topic = "own" /\ pc = "stream_own"
    BY <1>0, <1>1, <1>2, <2>4 DEF Told, AfterChange, AfterRecord, Result
  <2>. QED BY <1>1, <2>1, <2>2, <2>3, <2>4
<1>5. Allowed(r)' BY <1>0, <1>1, <1>2 DEF Allowed, AfterChange, AfterRecord
<1>. QED BY <1>0, <1>1, <1>2, <1>3, <1>4, <1>5, StepTells

LEMMA StreamTells ==
  ASSUME EvidenceInv, NEW r \in Request, AppendsToStream(r) PROVE EvidenceInv'
<1>0. /\ UNCHANGED <<changed, exports, audited, rows, saved, shared, crashes>>
      /\ TypeInv /\ Told(r) /\ Allowed(r) /\ stream \subseteq rows
  BY DEF AppendsToStream, EvidenceInv
<1>1. PICK topic \in {"audit.record", "own"}, pc \in Pc :
        /\ stream' = stream \cup {<<r, topic>>} /\ GoTo(r, pc)
        /\ \/ request[r].pc = "stream_denied" /\ topic = "audit.record" /\ pc = "403"
           \/ request[r].pc = "stream_rejected" /\ topic = "audit.record" /\ pc \in {"409", "422"}
           \/ /\ request[r].pc = "stream_success" /\ topic = "audit.record"
              /\ pc = IF request[r].action \in WithoutEvent THEN "200" ELSE "row_own"
           \/ request[r].pc = "stream_own" /\ topic = "own" /\ pc = "200"
  BY Steps DEF AppendsToStream, AfterStream, Topic, Pc, StreamSteps, Answered
<1>2. /\ request' \in [Request -> RequestState]
      /\ request'[r].pc = pc /\ request'[r].raw = request[r].raw
      /\ request'[r].action = request[r].action /\ request'[r].reason = request[r].reason
      /\ \A p \in Request : p # r => request'[p] = request[p]
  BY <1>0, <1>1, GoesTo DEF TypeInv
<1>3. TypeInv' BY <1>0, <1>2 DEF TypeInv
<1>4. stream' \subseteq rows' BY <1>0, <1>1 DEF Told
<1>5. Told(r)'
  <2>1. CASE request[r].pc = "stream_denied" /\ pc = "403"
    BY <1>0, <1>1, <1>2, <2>1 DEF Told, AfterChange, AfterRecord, Result
  <2>2. CASE request[r].pc = "stream_rejected" /\ pc \in {"409", "422"}
    BY <1>0, <1>1, <1>2, <2>2 DEF Told, AfterChange, AfterRecord, Result
  <2>3. CASE request[r].pc = "stream_success" /\ request[r].action \in WithoutEvent /\ pc = "200"
    BY <1>0, <1>1, <1>2, <2>3 DEF Told, AfterChange, AfterRecord, Reads
  <2>4. CASE /\ request[r].pc = "stream_success" /\ request[r].action \notin WithoutEvent
             /\ pc = "row_own"
    BY <1>0, <1>1, <1>2, <2>4 DEF Told, AfterChange, AfterRecord, WithoutEvent
  <2>5. CASE request[r].pc = "stream_own" /\ pc = "200"
    BY <1>0, <1>1, <1>2, <2>5 DEF Told, AfterChange, AfterRecord
  <2>. QED BY <1>1, <2>1, <2>2, <2>3, <2>4, <2>5
<1>6. Allowed(r)' BY <1>0, <1>1, <1>2 DEF Allowed, AfterChange, AfterRecord
<1>. QED BY <1>0, <1>1, <1>2, <1>3, <1>4, <1>5, <1>6, StepTells

LEMMA CrashTells == ASSUME EvidenceInv, Crash PROVE EvidenceInv'
<1>0. /\ UNCHANGED <<changed, exports, audited, rows, saved, shared>>
      /\ stream' = {} /\ crashes' = crashes + 1 /\ TypeInv
      /\ request' = [r \in Request |->
                      IF Ended(r) THEN request[r] ELSE [request[r] EXCEPT !.pc = "killed"]]
  BY DEF Crash, EvidenceInv
<1>1. ASSUME NEW r \in Request, ~Ended(r)
      PROVE  /\ request'[r] \in RequestState /\ request'[r].pc = "killed"
             /\ request'[r].raw = request[r].raw /\ request'[r].action = request[r].action
             /\ request'[r].reason = request[r].reason /\ request'[r].count = request[r].count
  <2>1. request[r] \in RequestState BY <1>0 DEF TypeInv
  <2>2. request'[r] = [request[r] EXCEPT !.pc = "killed"] BY <1>0, <1>1
  <2>. QED BY <2>1, <2>2 DEF RequestState, Pc
<1>2. ASSUME NEW r \in Request, Ended(r) PROVE request'[r] = request[r]
  BY <1>0, <1>2
<1>3. request' \in [Request -> RequestState]
  <2>1. \A r \in Request : request'[r] \in RequestState BY <1>0, <1>1, <1>2 DEF TypeInv
  <2>. QED BY <1>0, <2>1
<1>4. TypeInv' BY <1>0, <1>3 DEF TypeInv
<1>5. ASSUME NEW r \in Request PROVE Told(r)' /\ Allowed(r)'
  <2>0. Told(r) /\ Allowed(r) BY DEF EvidenceInv
  <2>1. CASE Ended(r) BY <1>0, <1>2, <2>0, <2>1, OthersTell
  <2>2. CASE ~Ended(r)
    <3>1. Told(r)' BY <1>0, <1>1, <2>0, <2>2 DEF Told, AfterChange, AfterRecord
    <3>2. Allowed(r)' BY <1>0, <1>1, <2>0, <2>2 DEF Allowed, AfterChange, AfterRecord
    <3>. QED BY <3>1, <3>2
  <2>. QED BY <2>1, <2>2
<1>. QED BY <1>0, <1>4, <1>5 DEF EvidenceInv

LEMMA EvidenceStarts == Init => EvidenceInv
<1>. SUFFICES ASSUME Init PROVE EvidenceInv OBVIOUS
<1>1. Fresh \in RequestState BY DEF Fresh, RequestState, Pc
<1>2. TypeInv BY <1>1, FS_EmptySet DEF Init, TypeInv
<1>3. ASSUME NEW r \in Request PROVE Told(r) /\ Allowed(r)
  <2>1. /\ request[r].pc = "new" /\ r \notin changed
        /\ audited = {} /\ rows = {}
    BY DEF Init, Fresh
  <2>2. Told(r) BY <2>1 DEF Told
  <2>3. Allowed(r) BY <2>1 DEF Allowed, AfterChange, AfterRecord
  <2>. QED BY <2>2, <2>3
<1>. QED BY <1>2, <1>3 DEF Init, EvidenceInv

LEMMA EvidenceStep == EvidenceInv /\ [Next]_vars => EvidenceInv'
<1>. SUFFICES ASSUME EvidenceInv, [Next]_vars PROVE EvidenceInv' OBVIOUS
<1>1. CASE UNCHANGED vars
  <2>1. TypeInv' BY <1>1 DEF EvidenceInv, TypeInv, vars
  <2>2. ASSUME NEW r \in Request PROVE Told(r)' /\ Allowed(r)'
    <3>1. Told(r) /\ Allowed(r) BY DEF EvidenceInv
    <3>. QED BY <1>1, <3>1, OthersTell DEF vars
  <2>. QED BY <1>1, <2>1, <2>2 DEF EvidenceInv, vars
<1>2. CASE Crash BY <1>2, CrashTells
<1>3. ASSUME NEW r \in Request,
             \/ Arrives(r) \/ Authorizes(r) \/ Changes(r) \/ CountsEvents(r) \/ SavesExport(r)
             \/ Audits(r) \/ AppendsRow(r) \/ AppendsToStream(r)
      PROVE  EvidenceInv'
  BY <1>3, ArrivesTells, AuthorizesTells, ChangesTells, CountsTells, SavesTells, AuditsTells,
     RowTells, StreamTells
<1>. QED BY <1>1, <1>2, <1>3 DEF Next

(* What each request has left behind follows from the step it has reached, *)
(* and what it may do from the role it came with.                          *)
THEOREM EvidenceInvariant == Spec => []EvidenceInv
BY EvidenceStarts, EvidenceStep, PTL DEF Spec

LEMMA TypeParts == EvidenceInv => TypeOK
BY DEF EvidenceInv, TypeInv, TypeOK, RequestState, Pc, Result

(* Every variable has its type, whatever requests come.                    *)
THEOREM TypeCorrect == Spec => []TypeOK
BY EvidenceInvariant, TypeParts, PTL

LEMMA ToldIsTrue == EvidenceInv => EvidenceIsTrue
<1>. SUFFICES ASSUME EvidenceInv PROVE EvidenceIsTrue OBVIOUS
<1>1. ASSUME NEW r \in Request
      PROVE  /\ <<r, "success">> \in audited => r \in changed \/ request[r].action = "audit.read"
             /\ <<r, "audit.record">> \in rows =>
                  \E answer \in {"denied", "rejected", "success"} : <<r, answer>> \in audited
             /\ <<r, "own">> \in rows =>
                  r \in changed /\ (<<r, "success">> \in audited \/ request[r].action \in Unaudited)
  <2>1. Told(r) BY DEF EvidenceInv
  <2>. QED BY <2>1 DEF Told, Result
<1>2. ASSUME NEW r \in Request
      PROVE  LET action == request[r].action
             IN /\ At(r, "200") /\ action \notin Reads => r \in changed
                /\ At(r, "200") /\ action \notin Unaudited \cup (Reads \ {"audit.read"}) =>
                     <<r, "success">> \in audited /\ <<r, "audit.record">> \in rows
                /\ At(r, "200") /\ action \notin WithoutEvent \cup Reads => <<r, "own">> \in rows
                /\ At(r, "403") => <<r, "denied">> \in audited
                /\ r \in changed => request[r].pc \notin {"403", "404", "409", "422"}
  <2>1. Told(r) BY DEF EvidenceInv
  <2>. QED BY <2>1 DEF Told, At, AfterChange, AfterRecord
<1>. QED BY <1>1, <1>2 DEF EvidenceInv, EvidenceIsTrue

(* Wherever a crash falls and however requests interleave, the audit log   *)
(* and the events tell of nothing that was not done, and a request that    *)
(* was answered as done or forbidden has all the evidence it leaves.       *)
THEOREM EvidenceTells == Spec => []EvidenceIsTrue
BY EvidenceInvariant, ToldIsTrue, PTL

(* What the table of permissions gives to a role that is not known, and to *)
(* an auditor.                                                             *)
LEMMA UnknownMay ==
  ASSUME NEW raw, NEW action, raw \notin Role, authorize(normalize_role(raw), action)
  PROVE  action \in CommonReads \cup TaskActions \cup {"task.cancel"} \cup Overrides
<1>. DEFINE may == CommonReads \cup TaskActions \cup {"task.cancel"} \cup Overrides
<1>1. normalize_role(raw) = "operator" BY DEF normalize_role
<1>2. permissions_for_role["operator"] = may BY DEF permissions_for_role
<1>3. "*" \notin may BY DEF CommonReads, TaskActions, Overrides
<1>. HIDE DEF may
<1>4. may \cap {"*", action} # {} BY <1>1, <1>2 DEF authorize
<1>5. action \in may BY <1>3, <1>4
<1>. QED BY <1>5 DEF may

LEMMA AuditorMay ==
  ASSUME NEW action, authorize(normalize_role("auditor"), action)
  PROVE  action \in CommonReads \cup {"audit.read", "training.read", "evaluation.read",
                                       "evaluation.export", "policy.approval.read"}
<1>. DEFINE may == CommonReads \cup {"audit.read", "training.read", "evaluation.read",
                                     "evaluation.export", "policy.approval.read"}
<1>1. normalize_role("auditor") = "auditor" BY DEF normalize_role, Role
<1>2. permissions_for_role["auditor"] = may BY DEF permissions_for_role
<1>3. "*" \notin may BY DEF CommonReads
<1>. HIDE DEF may
<1>4. may \cap {"*", action} # {} BY <1>1, <1>2 DEF authorize
<1>5. action \in may BY <1>3, <1>4
<1>. QED BY <1>5 DEF may

LEMMA AllowedOnly == EvidenceInv => NobodyElevated
<1>. SUFFICES ASSUME EvidenceInv PROVE NobodyElevated OBVIOUS
<1>. SUFFICES ASSUME NEW r \in Request
     PROVE  LET q == request[r]
            IN /\ r \in changed /\ q.raw \notin Role =>
                    q.action \notin TrainingChanges \cup PolicyChanges \cup SceneChanges
               /\ At(r, "200") /\ q.raw \notin Role => q.action # "audit.read"
               /\ r \in changed /\ q.raw = "auditor" => q.action = "evaluation.export"
               /\ r \in changed /\ q.action \in NeedsReason => q.reason
  BY DEF NobodyElevated
<1>. DEFINE q == request[r]
<1>0. Allowed(r) BY DEF EvidenceInv
<1>1. ASSUME r \in changed \/ At(r, "200")
      PROVE  authorize(normalize_role(q.raw), q.action) /\ (q.action \in NeedsReason => q.reason)
  BY <1>0, <1>1 DEF Allowed, At, AfterChange, AfterRecord
<1>2. ASSUME r \in changed \/ At(r, "200"), q.raw \notin Role
      PROVE  q.action \in CommonReads \cup TaskActions \cup {"task.cancel"} \cup Overrides
  BY <1>1, <1>2, UnknownMay
<1>3. ASSUME r \in changed, q.raw = "auditor" PROVE q.action = "evaluation.export"
  <2>1. q.action \notin Reads BY <1>0, <1>3 DEF Allowed
  <2>2. q.action \in CommonReads \cup {"audit.read", "training.read", "evaluation.read",
                                       "evaluation.export", "policy.approval.read"}
    BY <1>1, <1>3, AuditorMay
  <2>. QED BY <2>1, <2>2 DEF Reads
<1>4. \A a \in CommonReads \cup TaskActions \cup {"task.cancel"} \cup Overrides :
        /\ a \notin TrainingChanges /\ a \notin PolicyChanges /\ a \notin SceneChanges
        /\ a # "audit.read"
  BY DEF CommonReads, TaskActions, Overrides, TrainingChanges, PolicyChanges, SceneChanges
<1>. QED BY <1>1, <1>2, <1>3, <1>4

(* No request does what its role is not allowed to do, nor what needs a    *)
(* reason without one.                                                     *)
THEOREM RolesAreKept == Spec => []NobodyElevated
BY EvidenceInvariant, AllowedOnly, PTL

-----------------------------------------------------------------------------
(* The exports.                                                            *)

LEMMA RowsCount ==
  ASSUME TypeInv, NEW x, rows' = rows \cup {x}
  PROVE  /\ Cardinality(rows) \in Nat /\ Cardinality(rows') \in Nat
         /\ Cardinality(rows) <= Cardinality(rows')
         /\ x \notin rows => Cardinality(rows') = Cardinality(rows) + 1
<1>1. Cardinality(rows) \in Nat BY FS_CardinalityType DEF TypeInv
<1>2. CASE x \in rows
  <2>1. rows' = rows BY <1>2
  <2>. QED BY <1>1, <1>2, <2>1
<1>3. CASE x \notin rows
  <2>1. Cardinality(rows') = Cardinality(rows) + 1 BY <1>3, FS_AddElement DEF TypeInv
  <2>. QED BY <1>1, <1>3, <2>1
<1>. QED BY <1>2, <1>3

(* A step of a request that neither begins an export nor saves one.        *)
LEMMA QuietExports ==
  ASSUME ExportInv, NEW r \in Request, UNCHANGED <<exports, saved, shared>>,
         \A p \in Request : p # r => request'[p] = request[p],
         saved[r] # 0 =>
           /\ request'[r].action = request[r].action /\ request'[r].count = request[r].count
           /\ request'[r].pc \in AfterChange /\ request[r].pc # "killed",
         OnExport(r)' => OnExport(r), request'[r].pc # "export",
         Cardinality(rows) \in Nat, Cardinality(rows') \in Nat,
         Cardinality(rows) <= Cardinality(rows'),
         \A p \in Request : p # r /\ <<p, "audit.record">> \in rows' =>
                              <<p, "audit.record">> \in rows,
         saved[r] # 0 /\ request'[r].pc \in AfterRecord \ {"row_success", "killed"} =>
           saved[r] <= Cardinality(rows'),
         request'[r].pc \in {"authorize", "change", "count", "export", "audit_success",
                             "row_success"} =>
           <<r, "audit.record">> \notin rows'
  PROVE  ExportsApart' /\ ExportsCounted' /\ ExportsKept'
<1>0. /\ request \in [Request -> RequestState] /\ saved \in [Request -> Nat]
      /\ ExportsApart /\ ExportsCounted /\ ExportsKept
  BY DEF ExportInv, EvidenceInv, TypeInv
<1>1. ExportsApart' BY <1>0 DEF ExportsApart, OnExport
<1>2. ExportsCounted'
  <2>. SUFFICES ASSUME NEW p \in Request
       PROVE  LET q == request'[p]
              IN /\ saved[p] # 0 => /\ saved[p] = q.count + 1 /\ q.action = "evaluation.export"
                                    /\ q.pc \in AfterChange
                 /\ q.pc \in {"authorize", "change", "count", "export", "audit_success",
                              "row_success"} => <<p, "audit.record">> \notin rows'
                 /\ q.pc = "export" \/ saved[p] # 0 => q.count <= Cardinality(rows')
                 /\ saved[p] # 0 /\ q.pc \in AfterRecord \ {"row_success", "killed"} =>
                      saved[p] <= Cardinality(rows')
    BY DEF ExportsCounted
  <2>1. saved[p] \in Nat /\ request[p].count \in Nat BY <1>0 DEF RequestState
  <2>2. CASE p = r BY <1>0, <2>1, <2>2 DEF ExportsCounted
  <2>3. CASE p # r
    <3>1. request'[p] = request[p] BY <2>3
    <3>. QED BY <1>0, <2>1, <2>3, <3>1 DEF ExportsCounted
  <2>. QED BY <2>2, <2>3
<1>3. ExportsKept'
  <2>. SUFFICES ASSUME NEW p \in Request \ shared, saved[p] # 0, request'[p].pc # "killed"
       PROVE  /\ saved[p] \in DOMAIN exports /\ exports[saved[p]] = p
              /\ \A o \in Request :
                   o # p /\ request'[o].pc = "export" => saved[p] <= request'[o].count
    BY DEF ExportsKept
  <2>1. request[p].pc # "killed" OBVIOUS
  <2>. QED BY <1>0, <2>1 DEF ExportsKept
<1>. QED BY <1>1, <1>2, <1>3

LEMMA ArrivesExports ==
  ASSUME ExportInv, NEW r \in Request, Arrives(r)
  PROVE  ExportsApart' /\ ExportsCounted' /\ ExportsKept'
<1>0. /\ UNCHANGED <<changed, exports, audited, rows, stream, saved, shared, crashes>>
      /\ request[r].pc = "new" /\ TypeInv /\ Told(r) /\ ExportsCounted
  BY DEF Arrives, evidence, At, ExportInv, EvidenceInv
<1>1. PICK q \in RequestState :
        request' = [request EXCEPT ![r] = q] /\ q.pc \in {"422", "authorize"}
  BY Arrived
<1>2. /\ request'[r].pc \in {"422", "authorize"}
      /\ \A p \in Request : p # r => request'[p] = request[p]
  BY <1>0, <1>1 DEF TypeInv
<1>3. saved[r] = 0 BY <1>0 DEF ExportsCounted, AfterChange, AfterRecord
<1>4. ~OnExport(r)' BY <1>2 DEF OnExport, AfterChange, AfterRecord
<1>5. <<r, "audit.record">> \notin rows' BY <1>0 DEF Told
<1>6. Cardinality(rows) \in Nat /\ Cardinality(rows') = Cardinality(rows)
  BY <1>0, FS_CardinalityType DEF TypeInv
<1>7. request'[r].pc # "export" /\ Cardinality(rows) <= Cardinality(rows')
  BY <1>2, <1>6
<1>. QED BY <1>0, <1>2, <1>3, <1>4, <1>5, <1>6, <1>7, QuietExports

LEMMA AuthorizesExports ==
  ASSUME ExportInv, NEW r \in Request, Authorizes(r)
  PROVE  ExportsApart' /\ ExportsCounted' /\ ExportsKept'
<1>0. /\ UNCHANGED <<changed, exports, audited, rows, stream, saved, crashes>>
      /\ request[r].pc = "authorize" /\ TypeInv /\ Told(r)
      /\ ExportsApart /\ ExportsCounted /\ ExportsKept
      /\ request \in [Request -> RequestState]
  BY DEF Authorizes, evidence, At, ExportInv, EvidenceInv, TypeInv
<1>1. PICK pc \in Pc :
        /\ request' = [request EXCEPT ![r] = [@ EXCEPT !.pc = pc]]
        /\ \/ pc \in {"audit_denied", "audit_rejected", "404", "409", "422"}
           \/ pc = "audit_success" /\ request[r].action = "audit.read"
           \/ pc = "200" /\ request[r].action \in Reads \ {"audit.read"}
           \/ pc = "count" /\ request[r].action = "evaluation.export"
           \/ pc = "change" /\ request[r].action \notin Reads \cup {"evaluation.export"}
  BY <1>0, AuthorizedTo
<1>2. GoTo(r, pc) BY <1>1 DEF GoTo
<1>3. /\ request'[r].pc = pc /\ request'[r].action = request[r].action
      /\ request'[r].count = request[r].count
      /\ \A p \in Request : p # r => request'[p] = request[p]
  BY <1>0, <1>2, GoesTo
<1>4. /\ saved[r] = 0 /\ <<r, "audit.record">> \notin rows'
      /\ Cardinality(rows) \in Nat /\ Cardinality(rows') = Cardinality(rows)
  BY <1>0, FS_CardinalityType DEF ExportsCounted, AfterChange, AfterRecord, TypeInv
<1>5. pc # "export" BY <1>1
<1>6. CASE pc # "count"
  <2>1. shared' = shared BY <1>3, <1>6 DEF Authorizes
  <2>2. ~OnExport(r)'
    BY <1>1, <1>3, <1>6 DEF OnExport, AfterChange, AfterRecord, Reads, CommonReads
  <2>3. request'[r].pc # "export" /\ Cardinality(rows) <= Cardinality(rows')
        /\ UNCHANGED <<exports, saved, shared>>
        /\ Cardinality(rows') \in Nat /\ \A p \in Request : <<p, "audit.record">> \in rows' =>
                              <<p, "audit.record">> \in rows
    BY <1>0, <1>3, <1>4, <1>5, <2>1
  <2>. QED BY <1>3, <1>4, <2>2, <2>3, QuietExports
<1>7. CASE pc = "count"
  <2>1. shared \subseteq shared' BY DEF Authorizes
  <2>2. ASSUME NEW p \in Request, p # r, OnExport(p) PROVE p \in shared' /\ r \in shared'
    <3>1. Exporting(p)
      BY <2>2 DEF OnExport, Exporting, Ended, Answered, AfterChange, AfterRecord
    <3>. QED BY <1>3, <1>7, <2>2, <3>1 DEF Authorizes
  <2>3. ExportsApart'
    <3>. SUFFICES ASSUME NEW p \in Request, NEW o \in Request, p # o, OnExport(p)', OnExport(o)'
         PROVE  p \in shared'
      BY DEF ExportsApart
    <3>1. CASE p # r /\ o # r
      <4>1. OnExport(p) /\ OnExport(o) BY <1>3, <3>1 DEF OnExport
      <4>. QED BY <1>0, <2>1, <4>1 DEF ExportsApart
    <3>2. CASE p = r
      <4>1. o # r /\ OnExport(o) BY <1>3, <3>2 DEF OnExport
      <4>. QED BY <2>2, <3>2, <4>1
    <3>3. CASE p # r /\ o = r
      <4>1. OnExport(p) BY <1>3, <3>3 DEF OnExport
      <4>. QED BY <2>2, <3>3, <4>1
    <3>. QED BY <3>1, <3>2, <3>3
  <2>4. ExportsCounted'
    <3>. SUFFICES ASSUME NEW p \in Request
         PROVE  LET q == request'[p]
                IN /\ saved[p] # 0 => /\ saved[p] = q.count + 1
                                      /\ q.action = "evaluation.export" /\ q.pc \in AfterChange
                   /\ q.pc \in {"authorize", "change", "count", "export", "audit_success",
                                "row_success"} => <<p, "audit.record">> \notin rows
                   /\ q.pc = "export" \/ saved[p] # 0 => q.count <= Cardinality(rows)
                   /\ saved[p] # 0 /\ q.pc \in AfterRecord \ {"row_success", "killed"} =>
                        saved[p] <= Cardinality(rows)
      BY <1>0 DEF ExportsCounted
    <3>1. CASE p = r BY <1>0, <1>3, <1>4, <1>7, <3>1
    <3>2. CASE p # r
      <4>1. request'[p] = request[p] BY <1>3, <3>2
      <4>. QED BY <1>0, <4>1 DEF ExportsCounted
    <3>. QED BY <3>1, <3>2
  <2>5. ExportsKept'
    <3>. SUFFICES ASSUME NEW p \in Request \ shared, saved[p] # 0, request'[p].pc # "killed"
         PROVE  /\ saved[p] \in DOMAIN exports /\ exports[saved[p]] = p
                /\ \A o \in Request :
                     o # p /\ request'[o].pc = "export" => saved[p] <= request'[o].count
      BY <1>0, <2>1 DEF ExportsKept
    <3>1. p # r /\ request'[p] = request[p] BY <1>3, <1>4
    <3>. QED BY <1>0, <1>3, <1>5, <3>1 DEF ExportsKept
  <2>. QED BY <2>3, <2>4, <2>5
<1>. QED BY <1>6, <1>7

LEMMA CountsExports ==
  ASSUME ExportInv, NEW r \in Request, CountsEvents(r)
  PROVE  ExportsApart' /\ ExportsCounted' /\ ExportsKept'
<1>0. /\ UNCHANGED <<exports, rows, saved, shared>>
      /\ request[r].pc = "count" /\ request[r] \in RequestState /\ Told(r)
      /\ ExportsApart /\ ExportsCounted /\ ExportsKept
      /\ request \in [Request -> RequestState] /\ saved \in [Request -> Nat]
  BY DEF CountsEvents, evidence, At, ExportInv, EvidenceInv, TypeInv
<1>1. /\ Cardinality(rows) \in Nat
      /\ request'[r] = [request[r] EXCEPT !.pc = "export", !.count = Cardinality(rows)]
      /\ \A p \in Request : p # r => request'[p] = request[p]
  BY CountsTells DEF ExportInv
<1>2. /\ request'[r].pc = "export" /\ request'[r].count = Cardinality(rows)
      /\ request'[r].action = request[r].action
      /\ \A p \in Request : p # r => request'[p] = request[p]
  BY <1>0, <1>1 DEF RequestState
<1>3. /\ saved[r] = 0 /\ <<r, "audit.record">> \notin rows /\ OnExport(r)
  BY <1>0 DEF Told, OnExport, ExportsCounted, AfterChange, AfterRecord
<1>4. \A p \in Request : OnExport(p)' => OnExport(p)
  BY <1>1, <1>3 DEF OnExport
<1>5. ExportsApart' BY <1>0, <1>4 DEF ExportsApart
<1>6. ExportsCounted'
  <2>. SUFFICES ASSUME NEW p \in Request
       PROVE  LET q == request'[p]
              IN /\ saved[p] # 0 => /\ saved[p] = q.count + 1
                                    /\ q.action = "evaluation.export" /\ q.pc \in AfterChange
                 /\ q.pc \in {"authorize", "change", "count", "export", "audit_success",
                              "row_success"} => <<p, "audit.record">> \notin rows
                 /\ q.pc = "export" \/ saved[p] # 0 => q.count <= Cardinality(rows)
                 /\ saved[p] # 0 /\ q.pc \in AfterRecord \ {"row_success", "killed"} =>
                      saved[p] <= Cardinality(rows)
    BY <1>0 DEF ExportsCounted
  <2>1. CASE p = r
    <3>1. Cardinality(rows) <= Cardinality(rows) BY <1>1
    <3>. QED BY <1>2, <1>3, <2>1, <3>1
  <2>2. CASE p # r
    <3>1. request'[p] = request[p] BY <1>1, <2>2
    <3>. QED BY <1>0, <3>1 DEF ExportsCounted
  <2>. QED BY <2>1, <2>2
<1>7. ExportsKept'
  <2>. SUFFICES ASSUME NEW p \in Request \ shared, saved[p] # 0, request'[p].pc # "killed"
       PROVE  /\ saved[p] \in DOMAIN exports /\ exports[saved[p]] = p
              /\ \A o \in Request :
                   o # p /\ request'[o].pc = "export" => saved[p] <= request'[o].count
    BY <1>0 DEF ExportsKept
  <2>1. p # r /\ request'[p] = request[p] BY <1>1, <1>3
  <2>2. saved[p] <= Cardinality(rows)
    <3>1. ~OnExport(p) BY <1>0, <1>3, <2>1 DEF ExportsApart
    <3>2. request[p].action = "evaluation.export" /\ request[p].pc \in AfterChange \ {"killed"}
      BY <1>0, <2>1 DEF ExportsCounted
    <3>3. request[p].pc = "200" BY <3>1, <3>2 DEF OnExport
    <3>. QED BY <1>0, <3>3 DEF ExportsCounted, AfterRecord
  <2>3. saved[p] \in DOMAIN exports /\ exports[saved[p]] = p BY <1>0, <2>1 DEF ExportsKept
  <2>4. ASSUME NEW o \in Request, o # p, request'[o].pc = "export"
        PROVE  saved[p] <= request'[o].count
    <3>1. CASE o = r
      <4>1. request'[o].count = Cardinality(rows) BY <1>2, <3>1
      <4>. QED BY <2>2, <4>1
    <3>2. CASE o # r
      <4>1. request'[o] = request[o] BY <1>2, <3>2
      <4>. QED BY <1>0, <2>1, <2>4, <4>1 DEF ExportsKept
    <3>. QED BY <3>1, <3>2
  <2>. QED BY <2>3, <2>4
<1>. QED BY <1>5, <1>6, <1>7

LEMMA SavesExports ==
  ASSUME ExportInv, NEW r \in Request, SavesExport(r)
  PROVE  ExportsApart' /\ ExportsCounted' /\ ExportsKept'
<1>0. /\ UNCHANGED <<rows, shared>>
      /\ request[r].pc = "export" /\ Told(r) /\ GoTo(r, "audit_success") /\ "audit_success" \in Pc
      /\ ExportsApart /\ ExportsCounted /\ ExportsKept /\ TypeInv
      /\ request \in [Request -> RequestState] /\ saved \in [Request -> Nat]
  BY Steps DEF SavesExport, evidence, At, ExportInv, EvidenceInv, TypeInv, Pc
<1>1. /\ request'[r].pc = "audit_success" /\ request'[r].action = request[r].action
      /\ request'[r].count = request[r].count
      /\ \A p \in Request : p # r => request'[p] = request[p]
  BY <1>0, GoesTo
<1>. DEFINE id == request[r].count + 1
<1>2. request[r].count \in Nat /\ id = request[r].count + 1 BY <1>0 DEF RequestState
<1>3. /\ exports' = [n \in DOMAIN exports \cup {id} |-> IF n = id THEN r ELSE exports[n]]
      /\ saved' = [saved EXCEPT ![r] = id]
  BY DEF SavesExport
<1>. HIDE DEF id
<1>4. saved'[r] = id /\ \A p \in Request : p # r => saved'[p] = saved[p] BY <1>0, <1>3
<1>5. OnExport(r) BY <1>0 DEF Told, OnExport
<1>6. \A p \in Request : OnExport(p)' => OnExport(p) BY <1>1, <1>5 DEF OnExport
<1>7. ExportsApart' BY <1>0, <1>6 DEF ExportsApart
<1>8. ExportsCounted'
  <2>. SUFFICES ASSUME NEW p \in Request
       PROVE  LET q == request'[p]
              IN /\ saved'[p] # 0 => /\ saved'[p] = q.count + 1
                                     /\ q.action = "evaluation.export" /\ q.pc \in AfterChange
                 /\ q.pc \in {"authorize", "change", "count", "export", "audit_success",
                              "row_success"} => <<p, "audit.record">> \notin rows
                 /\ q.pc = "export" \/ saved'[p] # 0 => q.count <= Cardinality(rows)
                 /\ saved'[p] # 0 /\ q.pc \in AfterRecord \ {"row_success", "killed"} =>
                      saved'[p] <= Cardinality(rows)
    BY <1>0 DEF ExportsCounted
  <2>1. CASE p = r
    <3>1. /\ request'[p].action = "evaluation.export" /\ request'[p].pc \in AfterChange
          /\ request'[p].pc \notin AfterRecord /\ saved'[p] = request'[p].count + 1
      BY <1>1, <1>2, <1>4, <1>5, <2>1 DEF OnExport, AfterChange, AfterRecord
    <3>2. <<r, "audit.record">> \notin rows /\ request[r].count <= Cardinality(rows)
      BY <1>0 DEF ExportsCounted
    <3>. QED BY <1>1, <2>1, <3>1, <3>2
  <2>2. CASE p # r
    <3>1. request'[p] = request[p] /\ saved'[p] = saved[p] BY <1>1, <1>4, <2>2
    <3>. QED BY <1>0, <3>1 DEF ExportsCounted
  <2>. QED BY <2>1, <2>2
<1>9. ExportsKept'
  <2>. SUFFICES ASSUME NEW p \in Request \ shared, saved'[p] # 0, request'[p].pc # "killed"
       PROVE  /\ saved'[p] \in DOMAIN exports' /\ exports'[saved'[p]] = p
              /\ \A o \in Request :
                   o # p /\ request'[o].pc = "export" => saved'[p] <= request'[o].count
    BY <1>0 DEF ExportsKept
  <2>1. CASE p = r
    <3>1. saved'[p] \in DOMAIN exports' /\ exports'[saved'[p]] = p
      BY <1>3, <1>4, <2>1
    <3>2. ASSUME NEW o \in Request, o # p, request'[o].pc = "export" PROVE FALSE
      <4>1. request[o].pc = "export" /\ Told(o) BY <1>1, <2>1, <3>2 DEF ExportInv, EvidenceInv
      <4>2. OnExport(o) BY <4>1 DEF Told, OnExport
      <4>. QED BY <1>0, <1>5, <2>1, <3>2, <4>2 DEF ExportsApart
    <3>. QED BY <3>1, <3>2
  <2>2. CASE p # r
    <3>1. request'[p] = request[p] /\ saved'[p] = saved[p] BY <1>1, <1>4, <2>2
    <3>2. /\ saved[p] \in DOMAIN exports /\ exports[saved[p]] = p
          /\ \A o \in Request : o # p /\ request[o].pc = "export" => saved[p] <= request[o].count
      BY <1>0, <3>1 DEF ExportsKept
    <3>3. saved[p] # id
      <4>1. saved[p] \in Nat /\ saved[p] <= request[r].count BY <1>0, <2>2, <3>2
      <4>. QED BY <1>2, <4>1
    <3>4. saved[p] \in DOMAIN exports' /\ exports'[saved[p]] = p BY <1>3, <3>2, <3>3
    <3>. QED BY <1>1, <3>1, <3>2, <3>4
  <2>. QED BY <2>1, <2>2
<1>. QED BY <1>7, <1>8, <1>9

LEMMA ChangesExports ==
  ASSUME ExportInv, NEW r \in Request, Changes(r) \/ Audits(r) \/ AppendsToStream(r)
  PROVE  ExportsApart' /\ ExportsCounted' /\ ExportsKept'
<1>0. /\ UNCHANGED <<exports, rows, saved, shared>> /\ TypeInv /\ Told(r) /\ ExportsCounted
      /\ request \in [Request -> RequestState]
  BY DEF Changes, Audits, AppendsToStream, evidence, ExportInv, EvidenceInv, TypeInv
<1>1. PICK pc \in Pc :
        /\ GoTo(r, pc)
        /\ \/ request[r].pc = "change" /\ pc \in {"row_own", "audit_success"}
           \/ request[r].pc = "audit_denied" /\ pc = "row_denied"
           \/ request[r].pc = "audit_rejected" /\ pc = "row_rejected"
           \/ request[r].pc = "audit_success" /\ pc = "row_success"
           \/ request[r].pc = "stream_denied" /\ pc = "403"
           \/ request[r].pc = "stream_rejected" /\ pc \in {"409", "422"}
           \/ request[r].pc = "stream_success" /\ pc \in {"200", "row_own"}
           \/ request[r].pc = "stream_own" /\ pc = "200"
  <2>1. CASE Changes(r) BY <2>1, Steps DEF Changes, Pc, At
  <2>2. CASE Audits(r) BY <2>2, Steps DEF Audits, Pc
  <2>3. CASE AppendsToStream(r)
    BY <2>3, Steps DEF AppendsToStream, AfterStream, Pc, StreamSteps, Answered
  <2>. QED BY <2>1, <2>2, <2>3
<1>2. /\ request'[r].pc = pc /\ request'[r].action = request[r].action
      /\ request'[r].count = request[r].count
      /\ \A p \in Request : p # r => request'[p] = request[p]
  BY <1>0, <1>1, GoesTo
<1>3. request'[r].pc # "export" /\ (OnExport(r)' => OnExport(r))
  BY <1>0, <1>1, <1>2 DEF Told, OnExport, AfterChange, AfterRecord
<1>4. saved[r] # 0 => request'[r].pc \in AfterChange /\ request[r].pc # "killed"
  BY <1>0, <1>1, <1>2 DEF ExportsCounted, AfterChange, AfterRecord
<1>5. Cardinality(rows) \in Nat /\ Cardinality(rows') = Cardinality(rows)
  BY <1>0, FS_CardinalityType DEF TypeInv
<1>6. request'[r].pc \in {"authorize", "change", "count", "export", "audit_success", "row_success"}
        => <<r, "audit.record">> \notin rows'
  BY <1>0, <1>1, <1>2 DEF ExportsCounted
<1>7. saved[r] # 0 /\ request'[r].pc \in AfterRecord \ {"row_success", "killed"} =>
        saved[r] <= Cardinality(rows')
  BY <1>0, <1>1, <1>2 DEF ExportsCounted, AfterChange, AfterRecord
<1>8. /\ UNCHANGED <<exports, saved, shared>> /\ Cardinality(rows') \in Nat
      /\ Cardinality(rows) <= Cardinality(rows')
      /\ \A p \in Request :
           p # r /\ <<p, "audit.record">> \in rows' => <<p, "audit.record">> \in rows
  BY <1>0, <1>5
<1>. QED BY <1>2, <1>3, <1>4, <1>5, <1>6, <1>7, <1>8, QuietExports

LEMMA RowExports ==
  ASSUME ExportInv, NEW r \in Request, AppendsRow(r)
  PROVE  ExportsApart' /\ ExportsCounted' /\ ExportsKept'
<1>0. /\ UNCHANGED <<exports, saved, shared>> /\ TypeInv /\ Told(r) /\ ExportsCounted
      /\ request \in [Request -> RequestState] /\ saved[r] \in Nat /\ request[r].count \in Nat
  BY DEF AppendsRow, ExportInv, EvidenceInv, TypeInv, RequestState
<1>1. PICK topic \in {"audit.record", "own"}, pc \in Pc :
        /\ rows' = rows \cup {<<r, topic>>} /\ GoTo(r, pc)
        /\ \/ request[r].pc = "row_denied" /\ pc = "stream_denied"
           \/ request[r].pc = "row_rejected" /\ pc = "stream_rejected"
           \/ request[r].pc = "row_success" /\ topic = "audit.record" /\ pc = "stream_success"
           \/ request[r].pc = "row_own" /\ pc = "stream_own"
  BY Steps DEF AppendsRow, Topic, Pc, StreamSteps
<1>2. /\ request'[r].pc = pc /\ request'[r].action = request[r].action
      /\ request'[r].count = request[r].count
      /\ \A p \in Request : p # r => request'[p] = request[p]
  BY <1>0, <1>1, GoesTo
<1>3. request'[r].pc # "export" /\ (OnExport(r)' => OnExport(r))
  BY <1>0, <1>1, <1>2 DEF Told, OnExport, AfterChange, AfterRecord
<1>4. saved[r] # 0 => request'[r].pc \in AfterChange /\ request[r].pc # "killed"
  BY <1>0, <1>1, <1>2 DEF ExportsCounted, AfterChange, AfterRecord
<1>5. /\ Cardinality(rows) \in Nat /\ Cardinality(rows') \in Nat
      /\ Cardinality(rows) <= Cardinality(rows')
      /\ <<r, topic>> \notin rows => Cardinality(rows') = Cardinality(rows) + 1
  BY <1>0, <1>1, RowsCount
<1>6. request'[r].pc \notin {"authorize", "change", "count", "export", "audit_success",
                            "row_success"}
  BY <1>1, <1>2
<1>7. ASSUME saved[r] # 0, request'[r].pc \in AfterRecord \ {"row_success", "killed"}
      PROVE  saved[r] <= Cardinality(rows')
  <2>1. saved[r] = request[r].count + 1 /\ request[r].count <= Cardinality(rows)
    BY <1>0, <1>7 DEF ExportsCounted
  <2>2. CASE request[r].pc = "row_success" /\ topic = "audit.record"
    <3>1. <<r, topic>> \notin rows BY <1>0, <2>2 DEF ExportsCounted
    <3>. QED BY <1>0, <1>5, <2>1, <3>1
  <2>3. CASE request[r].pc = "row_own"
    <3>1. saved[r] <= Cardinality(rows) BY <1>0, <1>7, <2>3 DEF ExportsCounted, AfterRecord
    <3>. QED BY <1>0, <1>5, <3>1
  <2>. QED BY <1>1, <1>2, <1>7, <2>2, <2>3 DEF AfterRecord
<1>8. \A p \in Request : p # r /\ <<p, "audit.record">> \in rows' => <<p, "audit.record">> \in rows
  BY <1>1
<1>9. UNCHANGED <<exports, saved, shared>> BY <1>0
<1>. QED BY <1>2, <1>3, <1>4, <1>5, <1>6, <1>7, <1>8, <1>9, QuietExports

LEMMA CrashExports ==
  ASSUME ExportInv, Crash PROVE ExportsApart' /\ ExportsCounted' /\ ExportsKept'
<1>0. /\ UNCHANGED <<exports, rows, saved, shared>> /\ request \in [Request -> RequestState]
      /\ ExportsApart /\ ExportsCounted /\ ExportsKept
      /\ request' = [r \in Request |->
                      IF Ended(r) THEN request[r] ELSE [request[r] EXCEPT !.pc = "killed"]]
  BY DEF Crash, ExportInv, EvidenceInv, TypeInv
<1>1. ASSUME NEW r \in Request
      PROVE  /\ request'[r].action = request[r].action /\ request'[r].count = request[r].count
             /\ request'[r].pc = request[r].pc \/ request'[r].pc = "killed"
             /\ request'[r].pc \in Answered \cup {"new", "killed"}
  <2>1. request[r] \in RequestState BY <1>0
  <2>2. CASE Ended(r) BY <1>0, <2>2 DEF Ended
  <2>3. CASE ~Ended(r)
    <3>1. request'[r] = [request[r] EXCEPT !.pc = "killed"] BY <1>0, <2>3
    <3>. QED BY <2>1, <3>1 DEF RequestState
  <2>. QED BY <2>2, <2>3
<1>2. \A r \in Request : ~OnExport(r)'
  BY <1>1 DEF OnExport, Answered, AfterChange, AfterRecord
<1>3. ExportsApart' BY <1>2 DEF ExportsApart
<1>4. ExportsCounted'
  <2>1. ASSUME NEW r \in Request, saved[r] # 0
        PROVE  /\ saved[r] = request'[r].count + 1 /\ request'[r].action = "evaluation.export"
               /\ request'[r].pc \in AfterChange
    <3>1. /\ saved[r] = request[r].count + 1 /\ request[r].action = "evaluation.export"
          /\ request[r].pc \in AfterChange
      BY <1>0, <2>1 DEF ExportsCounted
    <3>2. "killed" \in AfterChange BY DEF AfterChange, AfterRecord
    <3>. QED BY <1>1, <3>1, <3>2
  <2>2. ASSUME NEW r \in Request,
               request'[r].pc \in {"authorize", "change", "count", "export", "audit_success",
                                   "row_success"}
        PROVE  <<r, "audit.record">> \notin rows
    BY <1>1, <2>2 DEF Answered
  <2>3. ASSUME NEW r \in Request, request'[r].pc = "export" \/ saved[r] # 0
        PROVE  request'[r].count <= Cardinality(rows)
    <3>1. saved[r] # 0 BY <1>1, <2>3 DEF Answered
    <3>. QED BY <1>0, <1>1, <3>1 DEF ExportsCounted
  <2>4. ASSUME NEW r \in Request, saved[r] # 0,
               request'[r].pc \in AfterRecord \ {"row_success", "killed"}
        PROVE  saved[r] <= Cardinality(rows)
    <3>1. request[r].pc \in AfterRecord \ {"row_success", "killed"} BY <1>1, <2>4
    <3>. QED BY <1>0, <2>4, <3>1 DEF ExportsCounted
  <2>. QED BY <1>0, <2>1, <2>2, <2>3, <2>4 DEF ExportsCounted
<1>5. ExportsKept'
  <2>. SUFFICES ASSUME NEW p \in Request \ shared, saved[p] # 0, request'[p].pc # "killed"
       PROVE  /\ saved[p] \in DOMAIN exports /\ exports[saved[p]] = p
              /\ \A o \in Request :
                   o # p /\ request'[o].pc = "export" => saved[p] <= request'[o].count
    BY <1>0 DEF ExportsKept
  <2>1. request[p].pc # "killed" BY <1>1
  <2>2. \A o \in Request : request'[o].pc # "export" BY <1>1 DEF Answered
  <2>. QED BY <1>0, <2>1, <2>2 DEF ExportsKept
<1>. QED BY <1>3, <1>4, <1>5

LEMMA ExportsStart == Init => ExportInv
<1>. SUFFICES ASSUME Init PROVE ExportInv OBVIOUS
<1>1. EvidenceInv BY EvidenceStarts
<1>2. \A r \in Request : request[r].pc = "new" /\ saved[r] = 0 BY DEF Init, Fresh
<1>3. ExportsApart BY <1>2 DEF ExportsApart, OnExport, AfterChange, AfterRecord
<1>4. ExportsCounted BY <1>2 DEF ExportsCounted
<1>5. ExportsKept BY <1>2 DEF ExportsKept
<1>. QED BY <1>1, <1>3, <1>4, <1>5 DEF ExportInv

LEMMA ExportsStep == ExportInv /\ [Next]_vars => ExportInv'
<1>. SUFFICES ASSUME ExportInv, [Next]_vars PROVE ExportInv' OBVIOUS
<1>1. EvidenceInv' BY EvidenceStep DEF ExportInv
<1>2. CASE UNCHANGED vars
  BY <1>1, <1>2 DEF vars, ExportInv, ExportsApart, OnExport, ExportsCounted, ExportsKept
<1>3. CASE Crash BY <1>1, <1>3, CrashExports DEF ExportInv
<1>4. ASSUME NEW r \in Request,
             \/ Arrives(r) \/ Authorizes(r) \/ Changes(r) \/ CountsEvents(r) \/ SavesExport(r)
             \/ Audits(r) \/ AppendsRow(r) \/ AppendsToStream(r)
      PROVE  ExportInv'
  <2>1. ExportsApart' /\ ExportsCounted' /\ ExportsKept'
    BY <1>4, ArrivesExports, AuthorizesExports, CountsExports, SavesExports, ChangesExports,
       RowExports
  <2>. QED BY <1>1, <2>1 DEF ExportInv
<1>. QED BY <1>2, <1>3, <1>4 DEF Next

(* An export that was answered, and that overlapped no other, stays where  *)
(* it was saved, whatever crashes and later exports follow.                *)
THEOREM ExportsStay == Spec => []AnsweredExportsKept
<1>1. ExportInv => AnsweredExportsKept BY DEF ExportInv, ExportsKept, AnsweredExportsKept, At
<1>. QED BY <1>1, ExportsStart, ExportsStep, PTL DEF Spec

-----------------------------------------------------------------------------
(* TRAINING JOBS.                                                          *)

(* A request that is alone on its job saves what goes forward.             *)
SavesForward(r) ==
  Training!At(r, "save") /\ Training!On(r) \notin job_shared =>
    \/ job_request[r].saves = Training!Queued
    \/ /\ job_request[r].saves.iteration >= job[Training!On(r)].iteration
       /\ job[Training!On(r)].state \in {"queued", "running"}

(* What the variables of the jobs hold.                                    *)
JobTypes ==
  /\ job \in [Job -> Training!JobRecord \cup {Training!NoJob}] /\ registered \subseteq Job
  /\ job_request \in [Request -> [pc : {"idle", "save", "register"}, job : Job \cup {"none"},
                               saves : Training!JobRecord \cup {Training!NoJob}]]
  /\ finished \subseteq Job /\ job_shared \subseteq Job /\ job_crashes \in Nat
  /\ \A r \in Request : ~Training!At(r, "idle") =>
       Training!On(r) \in Job /\ job_request[r].saves \in Training!JobRecord

(* Two requests on one job have made it shared.                            *)
JobAlone ==
  \A r, q \in Request :
    /\ ~Training!At(r, "idle") /\ ~Training!At(q, "idle")
    /\ Training!On(r) = Training!On(q) /\ Training!On(r) \notin job_shared
    => r = q

(* A job that has succeeded has its policy, or a request is about to save  *)
(* it, or a crash has cut one off.                                         *)
PolicyComes ==
  /\ registered \subseteq finished
  /\ \A r \in Request : Training!At(r, "register") => Training!On(r) \in finished
  /\ job_crashes = 0 =>
       \A j \in finished \ registered :
         \E r \in Request : Training!At(r, "register") /\ Training!On(r) = j

(* Inductive: all of it, for requests that overlap as well.                *)
JobInv == JobTypes /\ JobAlone /\ PolicyComes /\ \A r \in Request : SavesForward(r)

-----------------------------------------------------------------------------
(* A record of a job is one, and what is found of a job is a record.       *)
LEMMA RecordFits ==
  ASSUME NEW s \in Training!JobRecord
  PROVE  /\ s = [state |-> s.state, iteration |-> s.iteration, checkpoints |-> s.checkpoints]
         /\ s.state \in Training!JobState /\ s.iteration \in 0..MaxIterations
         /\ s.checkpoints \in Nat
         /\ s # Training!NoJob
BY DEF Training!JobRecord, Training!NoJob, Training!JobState

LEMMA Found ==
  ASSUME JobTypes, NEW j \in Job, job[j].state \in Training!JobState
  PROVE  job[j] \in Training!JobRecord
BY DEF JobTypes, Training!NoJob, Training!JobState

(* What begins carries a record that goes forward from the one it read.    *)
LEMMA BeginsKeeps ==
  ASSUME JobInv, NEW r \in Request, NEW j \in Job, NEW record \in Training!JobRecord,
         Training!Begins(r, j, record),
         record = Training!Queued \/ (/\ record.iteration >= job[j].iteration
                             /\ job[j].state \in {"queued", "running"})
  PROVE  JobInv'
<1>. USE DEF Training!At, Training!On
<1>0. JobTypes /\ JobAlone /\ PolicyComes /\ \A q \in Request : SavesForward(q) BY DEF JobInv
<1>1. /\ job_request[r].pc = "idle"
      /\ job_request' = [job_request EXCEPT ![r] = [pc |-> "save", job |-> j, saves |-> record]]
      /\ job_shared' = IF \E q \in Request : job_request[q].job = j
                       THEN job_shared \cup {j} ELSE job_shared
      /\ UNCHANGED <<job, registered, finished, job_crashes>>
  BY DEF Training!Begins
<1>. DEFINE new == [pc |-> "save", job |-> j, saves |-> record]
<1>2. /\ new \in [pc : {"idle", "save", "register"}, job : Job \cup {"none"},
                  saves : Training!JobRecord \cup {Training!NoJob}]
      /\ new.pc = "save" /\ new.job = j /\ new.saves = record
  OBVIOUS
<1>3. job_request' = [job_request EXCEPT ![r] = new] BY <1>1
<1>. HIDE DEF new
<1>4. job_request'[r] = new /\ \A q \in Request \ {r} : job_request'[q] = job_request[q]
  BY <1>0, <1>3 DEF JobTypes
<1>5. job_shared \subseteq job_shared' /\ job_shared' \subseteq Job BY <1>0, <1>1 DEF JobTypes
<1>6. JobTypes' BY <1>0, <1>1, <1>2, <1>3, <1>4, <1>5 DEF JobTypes
<1>7. JobAlone'
  <2>. SUFFICES ASSUME NEW p \in Request, NEW q \in Request, p # q,
                       ~Training!At(p, "idle")', ~Training!At(q, "idle")',
                       Training!On(p)' = Training!On(q)', Training!On(p)' \notin job_shared'
                PROVE  FALSE
    BY DEF JobAlone
  <2>1. CASE p = r \/ q = r
    <3>1. Training!On(p)' = j BY <1>2, <1>4, <2>1
    <3>2. \E o \in Request : job_request[o].job = j BY <1>4, <2>1, <3>1
    <3>. QED BY <1>1, <3>1, <3>2
  <2>2. CASE p # r /\ q # r BY <1>0, <1>4, <1>5, <2>2 DEF JobAlone
  <2>. QED BY <2>1, <2>2
<1>8. PolicyComes'
  <2>1. \A q \in Request : Training!At(q, "register")' <=> Training!At(q, "register")
    BY <1>1, <1>2, <1>4
  <2>2. \A q \in Request : Training!At(q, "register") => Training!On(q)' = Training!On(q)
    BY <1>1, <1>4
  <2>. QED BY <1>0, <1>1, <2>1, <2>2 DEF PolicyComes
<1>9. ASSUME NEW q \in Request PROVE SavesForward(q)'
  <2>1. CASE q = r BY <1>1, <1>2, <1>4, <2>1 DEF SavesForward
  <2>2. CASE q # r BY <1>0, <1>1, <1>4, <1>5, <2>2 DEF SavesForward
  <2>. QED BY <2>1, <2>2
<1>. QED BY <1>6, <1>7, <1>8, <1>9 DEF JobInv

LEMMA JobBegins ==
  ASSUME MaxIterations \in Nat, JobInv, NEW r \in Request,
         Training!Submits(r) \/ Training!Starts(r) \/ Training!Checkpoints(r)
         \/ Training!Completes(r) \/ Training!Stops(r)
  PROVE  JobInv'
<1>0. JobTypes BY DEF JobInv
<1>1. CASE Training!Submits(r)
  <2>1. PICK j \in Job : Training!Begins(r, j, Training!Queued) BY <1>1 DEF Training!Submits
  <2>2. Training!Queued \in Training!JobRecord BY DEF Training!Queued, Training!NoJob,
       Training!JobRecord, Training!JobState
  <2>. QED BY <2>1, <2>2, BeginsKeeps
<1>2. CASE Training!Starts(r)
  <2>1. PICK j \in Job : /\ job[j].state = "queued"
                             /\ Training!Begins(r, j, [job[j] EXCEPT !.state = "running"])
    BY <1>2 DEF Training!Starts
  <2>2. job[j] \in Training!JobRecord BY <1>0, <2>1, Found DEF Training!JobState
  <2>. DEFINE new == [job[j] EXCEPT !.state = "running"]
  <2>3. new \in Training!JobRecord /\ new.iteration >= job[j].iteration
    BY <2>2 DEF Training!JobRecord, Training!JobState
  <2>. HIDE DEF new
  <2>. QED BY <2>1, <2>3, BeginsKeeps DEF new
<1>3. CASE Training!Checkpoints(r)
  <2>1. PICK j \in Job, i \in 1..MaxIterations :
          /\ job[j].state = "running" /\ i > job[j].iteration
          /\ Training!Begins(r, j, [job[j] EXCEPT !.iteration = i, !.checkpoints = @ + 1])
    BY <1>3 DEF Training!Checkpoints
  <2>2. job[j] \in Training!JobRecord BY <1>0, <2>1, Found DEF Training!JobState
  <2>. DEFINE new == [job[j] EXCEPT !.iteration = i, !.checkpoints = @ + 1]
  <2>3. PICK n \in Nat : n = job[j].checkpoints + 1 BY <2>2 DEF Training!JobRecord
  <2>4. [job[j] EXCEPT !.iteration = i, !.checkpoints = n] \in Training!JobRecord
    <3>1. i \in 0..MaxIterations OBVIOUS
    <3>. QED BY <2>2, <3>1 DEF Training!JobRecord
  <2>5. new \in Training!JobRecord BY <2>3, <2>4
  <2>6. new.iteration = i BY <2>2 DEF Training!JobRecord
  <2>7. new.iteration >= job[j].iteration BY <2>1, <2>2, <2>6 DEF Training!JobRecord
  <2>. HIDE DEF new
  <2>. QED BY <2>1, <2>5, <2>7, BeginsKeeps DEF new
<1>4. CASE Training!Completes(r)
  <2>1. PICK j \in Job, given \in 0..MaxIterations :
          LET final == IF given = 0 THEN MaxIterations ELSE given
          IN /\ job[j].state = "running" /\ final >= job[j].iteration
             /\ Training!Begins(r, j, [job[j] EXCEPT !.state = "succeeded", !.iteration = final])
    BY <1>4 DEF Training!Completes
  <2>. DEFINE final == IF given = 0 THEN MaxIterations ELSE given
  <2>2. /\ job[j].state = "running" /\ final >= job[j].iteration
        /\ Training!Begins(r, j, [job[j] EXCEPT !.state = "succeeded", !.iteration = final])
        /\ final \in 0..MaxIterations
    BY <2>1
  <2>. HIDE DEF final
  <2>3. job[j] \in Training!JobRecord BY <1>0, <2>1, Found DEF Training!JobState
  <2>. DEFINE new == [job[j] EXCEPT !.state = "succeeded", !.iteration = final]
  <2>4. new \in Training!JobRecord /\ new.iteration = final BY <2>2, <2>3
       DEF Training!JobRecord, Training!JobState
  <2>5. new.iteration >= job[j].iteration BY <2>2, <2>4
  <2>. HIDE DEF new
  <2>. QED BY <2>2, <2>4, <2>5, BeginsKeeps DEF new
<1>5. CASE Training!Stops(r)
  <2>1. PICK j \in Job, s \in {"failed", "cancelled"} :
          /\ job[j].state \in {"queued", "running"}
          /\ Training!Begins(r, j, [job[j] EXCEPT !.state = s])
    BY <1>5 DEF Training!Stops
  <2>2. job[j] \in Training!JobRecord BY <1>0, <2>1, Found DEF Training!JobState
  <2>. DEFINE new == [job[j] EXCEPT !.state = s]
  <2>3. new \in Training!JobRecord /\ new.iteration >= job[j].iteration
    BY <2>2 DEF Training!JobRecord, Training!JobState
  <2>. HIDE DEF new
  <2>. QED BY <2>1, <2>3, BeginsKeeps DEF new
<1>. QED BY <1>1, <1>2, <1>3, <1>4, <1>5

(* The record saved is the one that was read, or goes forward from it.     *)
LEMMA JobSaves ==
  ASSUME JobInv, NEW r \in Request, Training!SavesJob(r)
  PROVE  JobInv'
<1>. USE DEF Training!At, Training!On
<1>0. JobTypes /\ JobAlone /\ PolicyComes /\ \A q \in Request : SavesForward(q) BY DEF JobInv
<1>. DEFINE j == job_request[r].job  record == job_request[r].saves
<1>1. /\ job_request[r].pc = "save" /\ j \in Job /\ record \in Training!JobRecord
      /\ job' = [job EXCEPT ![j] = record] /\ UNCHANGED <<registered, job_shared, job_crashes>>
  BY <1>0 DEF Training!SavesJob, JobTypes
<1>2. \/ /\ finished' = finished \cup {j}
         /\ job_request'[r] = [job_request[r] EXCEPT !.pc = "register"]
      \/ finished' = finished /\ job_request'[r] = Training!Idle
  BY <1>0 DEF Training!SavesJob, Training!Done, JobTypes
<1>3. /\ job_request' = [job_request EXCEPT ![r] = job_request'[r]]
      /\ \A q \in Request \ {r} : job_request'[q] = job_request[q]
  BY <1>0 DEF Training!SavesJob, Training!Done, JobTypes
<1>4. \/ /\ finished' = finished \cup {j}
         /\ job_request'[r].pc = "register" /\ job_request'[r].job = j
         /\ job_request'[r].saves = record
      \/ finished' = finished /\ job_request'[r].pc = "idle"
  BY <1>0, <1>2 DEF Training!Idle, JobTypes
<1>5. job_request'[r] \in [pc : {"idle", "save", "register"}, job : Job \cup {"none"},
                       saves : Training!JobRecord \cup {Training!NoJob}]
  BY <1>0, <1>1, <1>2 DEF Training!Idle, JobTypes
<1>. HIDE DEF j, record
<1>6. JobTypes'
  <2>1. job_request' \in [Request -> [pc : {"idle", "save", "register"}, job : Job \cup {"none"},
                                  saves : Training!JobRecord \cup {Training!NoJob}]]
    BY <1>0, <1>3, <1>5 DEF JobTypes
  <2>2. job' \in [Job -> Training!JobRecord \cup {Training!NoJob}] BY <1>0, <1>1 DEF JobTypes
  <2>3. ASSUME NEW q \in Request, ~Training!At(q, "idle")'
        PROVE  Training!On(q)' \in Job /\ job_request'[q].saves \in Training!JobRecord
    BY <1>0, <1>1, <1>3, <1>4, <2>3 DEF JobTypes
  <2>. QED BY <1>0, <1>1, <1>4, <2>1, <2>2, <2>3 DEF JobTypes
<1>7. \A q \in Request : ~Training!At(q, "idle")' =>
        ~Training!At(q, "idle") /\ Training!On(q)' = Training!On(q)
  BY <1>1, <1>3, <1>4 DEF j
<1>8. JobAlone' BY <1>0, <1>1, <1>7 DEF JobAlone
<1>9. PolicyComes'
  <2>1. CASE /\ finished' = finished \cup {j}
             /\ job_request'[r].pc = "register" /\ job_request'[r].job = j
    BY <1>0, <1>1, <1>3, <2>1 DEF PolicyComes
  <2>2. CASE finished' = finished /\ job_request'[r].pc = "idle"
    <3>1. \A q \in Request : Training!At(q, "register")' <=> Training!At(q, "register")
      BY <1>1, <1>3, <2>2
    <3>2. \A q \in Request : Training!At(q, "register") => Training!On(q)' = Training!On(q)
      BY <1>1, <1>3
    <3>. QED BY <1>0, <1>1, <2>2, <3>1, <3>2 DEF PolicyComes
  <2>. QED BY <1>4, <2>1, <2>2
<1>10. ASSUME NEW q \in Request PROVE SavesForward(q)'
  <2>1. CASE q = r BY <1>4, <2>1 DEF SavesForward
  <2>2. CASE q # r
    <3>1. SUFFICES ASSUME Training!At(q, "save")', Training!On(q)' \notin job_shared'
                   PROVE  job'[Training!On(q)'] = job[Training!On(q)']
      BY <1>0, <1>1, <1>3, <2>2 DEF SavesForward
    <3>2. /\ job_request[q].pc = "save" /\ Training!On(q)' = job_request[q].job
          /\ job_request[q].job \notin job_shared
      BY <1>1, <1>3, <2>2, <3>1
    <3>3. job_request[q].job # j BY <1>0, <1>1, <2>2, <3>2 DEF JobAlone, j
    <3>. QED BY <1>0, <1>1, <3>2, <3>3 DEF JobTypes
  <2>. QED BY <2>1, <2>2
<1>. QED BY <1>6, <1>8, <1>9, <1>10 DEF JobInv

LEMMA JobRegisters ==
  ASSUME JobInv, NEW r \in Request, Training!Registers(r)
  PROVE  JobInv'
<1>. USE DEF Training!At, Training!On
<1>0. JobTypes /\ JobAlone /\ PolicyComes /\ \A q \in Request : SavesForward(q) BY DEF JobInv
<1>1. /\ job_request[r].pc = "register" /\ job_request[r].job \in Job
      /\ job_request' = [job_request EXCEPT ![r] = Training!Idle]
      /\ registered' = registered \cup {job_request[r].job}
      /\ UNCHANGED <<job, finished, job_shared, job_crashes>>
  BY <1>0 DEF Training!Registers, Training!Done, JobTypes
<1>2. job_request'[r] = Training!Idle /\ \A q \in Request \ {r} : job_request'[q] = job_request[q]
  BY <1>0, <1>1 DEF JobTypes
<1>3. /\ Training!Idle.pc = "idle"
      /\ Training!Idle \in [pc : {"idle", "save", "register"}, job : Job \cup {"none"},
                   saves : Training!JobRecord \cup {Training!NoJob}]
  BY DEF Training!Idle
<1>4. JobTypes' BY <1>0, <1>1, <1>2, <1>3 DEF JobTypes
<1>5. JobAlone' BY <1>0, <1>1, <1>2, <1>3 DEF JobAlone
<1>6. PolicyComes'
  <2>1. ASSUME NEW j \in finished \ registered, j # job_request[r].job, job_crashes = 0
        PROVE  \E q \in Request : Training!At(q, "register")' /\ Training!On(q)' = j
    BY <1>0, <1>2, <2>1 DEF PolicyComes
  <2>. QED BY <1>0, <1>1, <1>2, <1>3, <2>1 DEF PolicyComes
<1>7. \A q \in Request : SavesForward(q)' BY <1>0, <1>1, <1>2, <1>3 DEF SavesForward
<1>. QED BY <1>4, <1>5, <1>6, <1>7 DEF JobInv

LEMMA JobCrash == ASSUME JobInv, Training!Crash PROVE JobInv'
<1>. USE DEF Training!At, Training!On
<1>0. JobTypes /\ JobAlone /\ PolicyComes BY DEF JobInv
<1>1. /\ job_request' = [r \in Request |-> Training!Idle] /\ job_crashes' = job_crashes + 1
      /\ UNCHANGED <<job, registered, finished, job_shared>>
  BY DEF Training!Crash
<1>2. /\ Training!Idle.pc = "idle"
      /\ Training!Idle \in [pc : {"idle", "save", "register"}, job : Job \cup {"none"},
                   saves : Training!JobRecord \cup {Training!NoJob}]
  BY DEF Training!Idle
<1>3. \A r \in Request : job_request'[r].pc = "idle" BY <1>1, <1>2
<1>4. job_crashes' \in Nat /\ job_crashes' # 0 BY <1>0, <1>1 DEF JobTypes
<1>5. JobTypes' BY <1>0, <1>1, <1>2, <1>3, <1>4 DEF JobTypes
<1>6. PolicyComes' BY <1>0, <1>1, <1>3, <1>4 DEF PolicyComes
<1>. QED BY <1>3, <1>5, <1>6 DEF JobInv, JobAlone, SavesForward

LEMMA JobStarts == Training!Init => JobInv
<1>. SUFFICES ASSUME Training!Init PROVE JobInv OBVIOUS
<1>. USE DEF Training!At, Training!On
<1>2. /\ Training!Idle.pc = "idle"
      /\ Training!Idle \in [pc : {"idle", "save", "register"}, job : Job \cup {"none"},
                   saves : Training!JobRecord \cup {Training!NoJob}]
  BY DEF Training!Idle
<1>3. \A r \in Request : job_request[r].pc = "idle" BY <1>2 DEF Training!Init
<1>4. JobTypes BY <1>2, <1>3 DEF Training!Init, JobTypes
<1>5. PolicyComes BY <1>3 DEF Training!Init, PolicyComes
<1>. QED BY <1>3, <1>4, <1>5 DEF JobInv, JobAlone, SavesForward

LEMMA JobStep == MaxIterations \in Nat /\ JobInv /\ [Training!Next]_Training!vars => JobInv'
<1>. SUFFICES ASSUME MaxIterations \in Nat, JobInv, [Training!Next]_Training!vars
              PROVE  JobInv'
  OBVIOUS
<1>1. CASE UNCHANGED Training!vars
  BY <1>1 DEF Training!vars, JobInv, JobTypes, JobAlone, PolicyComes, SavesForward, Training!At,
     Training!On
<1>2. CASE Training!Next BY <1>2, JobBegins, JobSaves, JobRegisters, JobCrash DEF Training!Next
<1>. QED BY <1>1, <1>2

(* Only a save changes a job.                                              *)
LEMMA JobMoves ==
  ASSUME JobInv, Training!Next, NEW j \in Job, j \notin job_shared,
         job[j] # Training!NoJob, job'[j] # Training!Queued
  PROVE  /\ job'[j].iteration >= job[j].iteration
         /\ job[j].state \in {"succeeded", "failed", "cancelled"} => job'[j] = job[j]
<1>0. JobTypes /\ \A q \in Request : SavesForward(q) BY DEF JobInv
<1>1. job[j] \in Training!JobRecord BY <1>0 DEF JobTypes
<1>2. job[j].iteration \in Int BY <1>1, RecordFits
<1>3. CASE UNCHANGED job BY <1>2, <1>3
<1>4. ASSUME NEW r \in Request, Training!SavesJob(r)
      PROVE  /\ job'[j].iteration >= job[j].iteration
             /\ job[j].state \in {"succeeded", "failed", "cancelled"} => job'[j] = job[j]
  <2>1. Training!At(r, "save") /\ job' = [job EXCEPT ![Training!On(r)] = job_request[r].saves]
    BY <1>4 DEF Training!SavesJob
  <2>2. CASE Training!On(r) # j
    <3>1. job'[j] = job[j] BY <1>0, <2>1, <2>2 DEF JobTypes
    <3>. QED BY <1>2, <3>1
  <2>3. CASE Training!On(r) = j
    <3>1. job'[j] = job_request[r].saves BY <1>0, <2>1, <2>3 DEF JobTypes
    <3>. QED BY <1>0, <2>1, <2>3, <3>1 DEF SavesForward
  <2>. QED BY <2>2, <2>3
<1>5. ASSUME NEW r \in Request,
             Training!Submits(r) \/ Training!Starts(r) \/ Training!Checkpoints(r)
             \/ Training!Completes(r) \/ Training!Stops(r) \/ Training!Registers(r)
      PROVE  UNCHANGED job
  BY <1>5 DEF Training!Submits, Training!Starts, Training!Checkpoints, Training!Completes,
     Training!Stops, Training!Registers, Training!Begins
<1>6. CASE Training!Crash BY <1>3, <1>6 DEF Training!Crash
<1>. QED BY <1>3, <1>4, <1>5, <1>6 DEF Training!Next

(* A trained policy comes from a job that succeeded; and with no request   *)
(* under way and none cut off, every such job has left its policy.         *)
LEMMA PoliciesTell ==
  ASSUME MaxIterations \in Nat PROVE Training!Spec => []Training!TrainedPoliciesTell
<1>1. JobInv => Training!TrainedPoliciesTell
  BY DEF JobInv, JobTypes, PolicyComes, Training!TrainedPoliciesTell, Training!At
<1>. QED BY <1>1, JobStarts, JobStep, PTL DEF Training!Spec

(* Of a job that requests come to one at a time the iteration only grows   *)
(* and an end is final, until the plan is submitted again.                 *)
LEMMA JobsGoForward ==
  ASSUME MaxIterations \in Nat PROVE Training!Spec => Training!LoneJobGoesForward
<1>. DEFINE Forward ==
       \A j \in Job \ job_shared : job[j] # Training!NoJob /\ job'[j] # Training!Queued =>
         /\ job'[j].iteration >= job[j].iteration
         /\ job[j].state \in {"succeeded", "failed", "cancelled"} => job'[j] = job[j]
<1>1. JobInv /\ [Training!Next]_Training!vars => [Forward]_Training!vars BY JobMoves
<1>2. Training!LoneJobGoesForward <=> [][Forward]_Training!vars BY DEF Training!LoneJobGoesForward
<1>. HIDE DEF Forward
<1>. QED BY <1>1, <1>2, JobStarts, JobStep, PTL DEF Training!Spec

-----------------------------------------------------------------------------
(* THE ROUTE OF A SIMULATION RUN.                                          *)

(* Where the controller is: the targets before its waypoint, and perhaps   *)
(* the one it stands at, are reached.                                      *)
OnRoute(b) ==
  /\ route_index \in 1..Len(Simulation!Route) + 1
  /\ (route_completed <=> route_index = Len(Simulation!Route) + 1)
  /\ reached_targets \in Seq(Nat) /\ \A i \in 1..Len(reached_targets) : reached_targets[i] = i
  /\ \/ Len(reached_targets) = b[route_index]
     \/ /\ route_index <= Len(Simulation!Route) /\ Simulation!Waypoint.is_mission_target
        /\ Len(reached_targets) = b[route_index] + 1

(* The dwell that is under way, those that are done and those to come.     *)
DwellsAddUp(b) ==
  /\ held \in [Simulation!Targets -> Nat] /\ dwell_remaining \in Nat
  /\ \A t \in dwelled_targets : t \in Simulation!Targets /\ t <= Len(reached_targets)
  /\ run_mission.starts_at_platform => 1 \notin dwelled_targets
  /\ \A t \in Simulation!Targets :
       /\ held[t] <= run_mission.dwell[t] /\ (t \notin dwelled_targets => held[t] = 0)
       /\ t <= b[route_index] =>
            held[t] = run_mission.dwell[t] \/ (t = 1 /\ run_mission.starts_at_platform)
  /\ route_index <= Len(Simulation!Route) /\ Simulation!Waypoint.is_mission_target
       /\ Simulation!Waypoint.target \in dwelled_targets =>
       held[Simulation!Waypoint.target] + dwell_remaining =
         run_mission.dwell[Simulation!Waypoint.target]
  /\ dwell_remaining > 0 =>
       /\ route_index <= Len(Simulation!Route) /\ Simulation!Waypoint.is_mission_target
       /\ Simulation!Waypoint.target \in dwelled_targets

(* Inductive, for the numbering of the mission.                            *)
WalkInv(b) ==
  /\ run_mission.dwell \in Seq(Nat) /\ Len(Simulation!Route) \in Nat
  /\ Len(Simulation!Route) > 0 /\ b \in Numbering(run_mission)
  /\ OnRoute(b) /\ DwellsAddUp(b)

(* What is on a route, by its type.                                        *)
LEMMA WalkTypes ==
  ASSUME NEW b, WalkInv(b)
  PROVE  /\ DwellsAddUp(b) /\ OnRoute(b) /\ dwell_remaining \in Nat
         /\ held \in [Simulation!Targets -> Nat] /\ Simulation!Targets \subseteq Nat
         /\ Len(Simulation!Route) \in Nat /\ Len(reached_targets) \in Nat
         /\ \A u \in Simulation!Targets : run_mission.dwell[u] \in Nat
<1>1. DwellsAddUp(b) /\ OnRoute(b) /\ Len(Simulation!Route) \in Nat BY DEF WalkInv
<1>2. dwell_remaining \in Nat /\ held \in [Simulation!Targets -> Nat]
  BY <1>1 DEF DwellsAddUp
<1>3. Len(reached_targets) \in Nat
  <2>1. reached_targets \in Seq(Nat) BY <1>1 DEF OnRoute
  <2>. QED BY <2>1, LenProperties
<1>4. Simulation!Targets \subseteq Nat /\ \A u \in Simulation!Targets : run_mission.dwell[u] \in Nat
  <2>. DEFINE dwell == run_mission.dwell
  <2>1. dwell \in Seq(Nat) BY DEF WalkInv
  <2>. HIDE DEF dwell
  <2>2. DOMAIN dwell = 1..Len(dwell) /\ Len(dwell) \in Nat BY <2>1, LenProperties
  <2>3. \A u \in DOMAIN dwell : dwell[u] \in Nat BY <2>1, <2>2, ElementOfSeq
  <2>4. DOMAIN dwell \subseteq Nat BY <2>2
  <2>. QED BY <2>3, <2>4 DEF dwell, Simulation!Targets
<1>. QED BY <1>1, <1>2, <1>3, <1>4

(* The waypoint's target is the next to be reached, or was just reached.   *)
LEMMA AtTarget ==
  ASSUME NEW b, WalkInv(b), ~route_completed
  PROVE  /\ route_index \in 1..Len(Simulation!Route)
         /\ route_index + 1 \in 1..Len(Simulation!Route) + 1
         /\ b[route_index] \in Nat /\ b[route_index + 1] \in Nat
         /\ Simulation!Waypoint.is_mission_target =>
              /\ Simulation!Waypoint.target = b[route_index] + 1
              /\ Simulation!Waypoint.target \in Simulation!Targets
              /\ b[route_index + 1] = b[route_index] + 1
         /\ ~Simulation!Waypoint.is_mission_target => b[route_index + 1] = b[route_index]
<1>1. route_index \in 1..Len(Simulation!Route) /\ route_index + 1 \in 1..Len(Simulation!Route) + 1
  BY DEF WalkInv, OnRoute
<1>2. b \in [1..Len(Simulation!Route) + 1 -> Nat] /\ Len(run_mission.dwell) \in Nat
      /\ Simulation!Targets = 1..Len(run_mission.dwell)
  BY LenProperties DEF WalkInv, Numbering, Simulation!Route, Simulation!Targets
<1>3. b[route_index] \in Nat /\ b[route_index + 1] \in Nat BY <1>1, <1>2
<1>4. IF Simulation!Waypoint.is_mission_target
      THEN /\ Simulation!Waypoint.target = b[route_index] + 1
           /\ b[route_index + 1] = b[route_index] + 1
           /\ b[route_index] < Len(run_mission.dwell)
      ELSE b[route_index + 1] = b[route_index]
  BY <1>1 DEF WalkInv, Numbering, Simulation!Route, Simulation!Waypoint
<1>5. Simulation!Waypoint.is_mission_target => Simulation!Waypoint.target \in Simulation!Targets
  BY <1>2, <1>3, <1>4
<1>. QED BY <1>1, <1>3, <1>4, <1>5

(* A target that is reached is the next one, or was reached before.        *)
LEMMA ReachedInOrder ==
  ASSUME NEW b, WalkInv(b), ~route_completed, Simulation!Waypoint.is_mission_target
  PROVE  LET r == Simulation!Reached(Simulation!Waypoint.target)
         IN r \in Seq(Nat) /\ Len(r) = b[route_index] + 1 /\ \A i \in 1..Len(r) : r[i] = i
<1>. DEFINE s == reached_targets  n == Len(s)  t == Simulation!Waypoint.target
<1>1. /\ s \in Seq(Nat) /\ n \in Nat /\ DOMAIN s = 1..n /\ \A i \in 1..n : s[i] = i
      /\ b[route_index] \in Nat /\ t = b[route_index] + 1
      /\ n = b[route_index] \/ n = b[route_index] + 1
  BY AtTarget, LenProperties DEF WalkInv, OnRoute
<1>2. CASE n = t
  <2>1. Simulation!Reached(t) = s BY <1>1, <1>2 DEF Simulation!Reached
  <2>. QED BY <1>1, <1>2, <2>1
<1>3. CASE n + 1 = t
  <2>1. Simulation!Reached(t) = Append(s, t) BY <1>1, <1>3 DEF Simulation!Reached
  <2>2. t \in Nat BY <1>1
  <2>. HIDE DEF s, t
  <2>3. /\ Append(s, t) \in Seq(Nat) /\ Len(Append(s, t)) = n + 1
        /\ Append(s, t)[n + 1] = t /\ \A i \in 1..n : Append(s, t)[i] = s[i]
    BY <1>1, <2>2, AppendProperties
  <2>4. \A i \in 1..n + 1 : Append(s, t)[i] = i BY <1>1, <1>3, <2>3
  <2>. QED BY <1>1, <1>3, <2>1, <2>3, <2>4 DEF t
<1>. QED BY <1>1, <1>2, <1>3

(* A frame at a target, and a frame that passes on to the next waypoint.   *)
LEMMA DwellsKeep == ASSUME NEW b, WalkInv(b), Simulation!Dwells PROVE WalkInv(b)'
<1>. DEFINE t == Simulation!Waypoint.target
<1>1. /\ ~route_completed /\ Simulation!Waypoint.is_mission_target
      /\ ~Simulation!IsPlatform(Simulation!Waypoint)
      /\ Simulation!DwellLeft(t) > 0
      /\ reached_targets' = Simulation!Reached(t) /\ dwelled_targets' = dwelled_targets \cup {t}
      /\ dwell_remaining' = Simulation!DwellLeft(t) - 1 /\ held' = [held EXCEPT ![t] = @ + 1]
      /\ UNCHANGED <<run_mission, route_index, route_completed>>
  BY DEF Simulation!Dwells, Simulation!StepDone, Simulation!input
<1>2. /\ route_index \in 1..Len(Simulation!Route) /\ b[route_index] \in Nat
      /\ t = b[route_index] + 1 /\ t \in Simulation!Targets
  BY <1>1, AtTarget
<1>3. /\ Simulation!Reached(t) \in Seq(Nat) /\ Len(Simulation!Reached(t)) = b[route_index] + 1
      /\ \A i \in 1..Len(Simulation!Reached(t)) : Simulation!Reached(t)[i] = i
  BY <1>1, ReachedInOrder
<1>4. /\ held \in [Simulation!Targets -> Nat] /\ dwell_remaining \in Nat
      /\ DwellsAddUp(b) /\ OnRoute(b)
      /\ \A u \in Simulation!Targets : run_mission.dwell[u] \in Nat
  BY WalkTypes
<1>5. dwell_remaining' \in Nat /\ held[t] + 1 + dwell_remaining' = run_mission.dwell[t]
  <2>1. CASE dwell_remaining = 0
    <3>1. t \notin dwelled_targets /\ Simulation!DwellLeft(t) = run_mission.dwell[t]
      BY <1>1, <2>1 DEF Simulation!DwellLeft
    <3>2. held[t] = 0 BY <1>2, <1>4, <3>1 DEF DwellsAddUp
    <3>. QED BY <1>1, <1>2, <1>4, <3>1, <3>2
  <2>2. CASE dwell_remaining > 0
    <3>1. Simulation!DwellLeft(t) = dwell_remaining BY <2>2 DEF Simulation!DwellLeft
    <3>2. t \in dwelled_targets BY <1>4, <2>2 DEF DwellsAddUp
    <3>3. route_index <= Len(Simulation!Route) BY <1>4, <2>2 DEF DwellsAddUp
    <3>4. held[t] + dwell_remaining = run_mission.dwell[t]
      BY <1>1, <1>4, <3>2, <3>3 DEF DwellsAddUp
    <3>5. held[t] \in Nat /\ run_mission.dwell[t] \in Nat BY <1>2, <1>4
    <3>. QED BY <1>1, <1>4, <2>2, <3>1, <3>4, <3>5
  <2>. QED BY <1>4, <2>1, <2>2
<1>6. /\ Simulation!Route' = Simulation!Route /\ Simulation!Waypoint' = Simulation!Waypoint
      /\ Simulation!Targets' = Simulation!Targets /\ run_mission' = run_mission
  BY <1>1 DEF Simulation!Route, Simulation!Waypoint, Simulation!Targets
<1>7. /\ held' \in [Simulation!Targets -> Nat] /\ held'[t] = held[t] + 1
      /\ \A u \in Simulation!Targets : u # t => held'[u] = held[u]
  BY <1>1, <1>2, <1>4
<1>8. OnRoute(b)'
  <2>1. route_index <= Len(Simulation!Route) BY <1>2
  <2>2. route_completed <=> route_index = Len(Simulation!Route) + 1 BY <1>4 DEF OnRoute
  <2>3. route_index \in 1..Len(Simulation!Route) + 1 BY <1>4 DEF OnRoute
  <2>. QED BY <1>1, <1>3, <1>6, <2>1, <2>2, <2>3 DEF OnRoute
<1>9. DwellsAddUp(b)'
  <2>1. \A u \in dwelled_targets' : u \in Simulation!Targets /\ u <= Len(reached_targets')
    <3>1. \A u \in dwelled_targets : u \in Simulation!Targets /\ u <= Len(reached_targets)
      BY <1>4 DEF DwellsAddUp
    <3>2. Len(reached_targets) <= Len(reached_targets')
      BY <1>1, <1>2, <1>3, <1>4 DEF OnRoute
    <3>3. /\ Len(reached_targets) \in Nat /\ Len(reached_targets') \in Nat
          /\ Simulation!Targets \subseteq Nat
      BY <1>1, <1>3, WalkTypes, LenProperties
    <3>4. t <= Len(reached_targets') /\ dwelled_targets' = dwelled_targets \cup {t}
      BY <1>1, <1>2, <1>3
    <3>. HIDE DEF t
    <3>5. ASSUME NEW u \in dwelled_targets
          PROVE  u \in Simulation!Targets /\ u <= Len(reached_targets')
      <4>1. u \in Simulation!Targets /\ u \in Nat /\ u <= Len(reached_targets) BY <3>1, <3>3
      <4>. QED BY <3>2, <3>3, <4>1
    <3>. QED BY <1>2, <3>4, <3>5
  <2>2. run_mission.starts_at_platform => 1 \notin dwelled_targets'
    BY <1>1, <1>4 DEF DwellsAddUp, Simulation!IsPlatform
  <2>3. ASSUME NEW u \in Simulation!Targets
        PROVE  /\ held'[u] <= run_mission.dwell[u] /\ (u \notin dwelled_targets' => held'[u] = 0)
               /\ u <= b[route_index] =>
                    held'[u] = run_mission.dwell[u] \/ (u = 1 /\ run_mission.starts_at_platform)
    <3>1. CASE u = t BY <1>1, <1>2, <1>4, <1>5, <1>7, <3>1
    <3>2. CASE u # t BY <1>1, <1>4, <1>7, <3>2 DEF DwellsAddUp
    <3>. QED BY <3>1, <3>2
  <2>. QED BY <1>1, <1>2, <1>5, <1>6, <1>7, <2>1, <2>2, <2>3 DEF DwellsAddUp
<1>. QED BY <1>6, <1>8, <1>9 DEF WalkInv

LEMMA PassesKeep == ASSUME NEW b, WalkInv(b), Simulation!Passes PROVE WalkInv(b)'
<1>. DEFINE t == Simulation!Waypoint.target  target == Simulation!Waypoint.is_mission_target
<1>1. /\ ~route_completed
      /\ target /\ ~Simulation!IsPlatform(Simulation!Waypoint) => Simulation!DwellLeft(t) = 0
      /\ reached_targets' = IF target THEN Simulation!Reached(t) ELSE reached_targets
      /\ route_index' = route_index + 1
      /\ UNCHANGED <<run_mission, dwell_remaining, dwelled_targets, held>>
  BY DEF Simulation!Passes, Simulation!StepDone, Simulation!input
<1>2. /\ route_index \in 1..Len(Simulation!Route)
      /\ route_index + 1 \in 1..Len(Simulation!Route) + 1
      /\ b[route_index] \in Nat /\ b[route_index + 1] \in Nat
      /\ target => t = b[route_index] + 1 /\ t \in Simulation!Targets
                     /\ b[route_index + 1] = b[route_index] + 1
      /\ ~target => b[route_index + 1] = b[route_index]
  BY <1>1, AtTarget
<1>3. /\ held \in [Simulation!Targets -> Nat] /\ dwell_remaining \in Nat
      /\ DwellsAddUp(b) /\ OnRoute(b)
      /\ Len(Simulation!Route) \in Nat /\ Simulation!Targets \subseteq Nat
      /\ \A u \in Simulation!Targets : run_mission.dwell[u] \in Nat
  BY WalkTypes
<1>4. /\ Simulation!Route' = Simulation!Route /\ Simulation!Targets' = Simulation!Targets
      /\ run_mission' = run_mission BY <1>1 DEF Simulation!Route, Simulation!Targets
<1>5. route_completed' <=> route_index = Len(Simulation!Route)
  BY <1>1 DEF Simulation!Passes, Simulation!StepMoves, Simulation!StepHolds
<1>6. /\ reached_targets' \in Seq(Nat) /\ Len(reached_targets') = b[route_index + 1]
      /\ \A i \in 1..Len(reached_targets') : reached_targets'[i] = i
  <2>1. CASE target BY <1>1, <1>2, <2>1, ReachedInOrder
  <2>2. CASE ~target BY <1>1, <1>2, <1>3, <2>2 DEF OnRoute
  <2>. QED BY <2>1, <2>2
<1>7. OnRoute(b)' BY <1>1, <1>2, <1>3, <1>4, <1>5, <1>6 DEF OnRoute
<1>8. /\ dwell_remaining = 0
      /\ target =>
           held[t] = run_mission.dwell[t] \/ Simulation!IsPlatform(Simulation!Waypoint)
  <2>1. CASE ~target BY <1>3, <2>1 DEF DwellsAddUp
  <2>2. CASE target /\ Simulation!IsPlatform(Simulation!Waypoint)
    <3>1. t = 1 /\ run_mission.starts_at_platform BY <2>2 DEF Simulation!IsPlatform
    <3>2. t \notin dwelled_targets BY <1>3, <3>1 DEF DwellsAddUp
    <3>. QED BY <1>3, <2>2, <3>2 DEF DwellsAddUp
  <2>3. CASE target /\ ~Simulation!IsPlatform(Simulation!Waypoint)
    <3>1. Simulation!DwellLeft(t) = 0 BY <1>1, <2>3
    <3>2. dwell_remaining = 0 /\ (t \notin dwelled_targets => run_mission.dwell[t] = 0)
      BY <3>1 DEF Simulation!DwellLeft
    <3>3. CASE t \in dwelled_targets
      <4>1. held[t] + dwell_remaining = run_mission.dwell[t]
        BY <1>2, <1>3, <2>3, <3>3 DEF DwellsAddUp
      <4>. QED BY <1>2, <1>3, <2>3, <3>2, <4>1
    <3>4. CASE t \notin dwelled_targets
      BY <1>2, <1>3, <2>3, <3>2, <3>4 DEF DwellsAddUp
    <3>. QED BY <3>2, <3>3, <3>4
  <2>. QED BY <2>1, <2>2, <2>3
<1>9. \A u \in dwelled_targets : u \in Simulation!Targets /\ u <= b[route_index + 1]
  <2>1. \A u \in dwelled_targets : u \in Simulation!Targets /\ u <= Len(reached_targets)
    BY <1>3 DEF DwellsAddUp
  <2>2. Len(reached_targets) \in Nat /\ Len(reached_targets) <= b[route_index + 1]
    BY <1>2, <1>3, LenProperties DEF OnRoute
  <2>. SUFFICES ASSUME NEW u \in dwelled_targets
                PROVE  u \in Simulation!Targets /\ u <= b[route_index + 1]
    OBVIOUS
  <2>3. u \in Simulation!Targets /\ u \in Nat /\ u <= Len(reached_targets) BY <1>3, <2>1
  <2>. QED BY <1>2, <2>2, <2>3
<1>10. ASSUME NEW u \in Simulation!Targets, u <= b[route_index + 1]
       PROVE  held[u] = run_mission.dwell[u] \/ (u = 1 /\ run_mission.starts_at_platform)
  <2>1. CASE u <= b[route_index] BY <1>3, <2>1 DEF DwellsAddUp
  <2>2. CASE ~(u <= b[route_index])
    <3>1. target /\ u = t BY <1>2, <1>3, <1>10, <2>2
    <3>. QED BY <1>8, <3>1 DEF Simulation!IsPlatform
  <2>. QED BY <2>1, <2>2
<1>11. route_index + 1 <= Len(Simulation!Route) /\ Simulation!Waypoint'.is_mission_target =>
         Simulation!Waypoint'.target \notin dwelled_targets
  <2>. SUFFICES ASSUME route_index + 1 <= Len(Simulation!Route),
                       Simulation!Waypoint'.is_mission_target
                PROVE  Simulation!Waypoint'.target \notin dwelled_targets
    OBVIOUS
  <2>1. /\ route_index + 1 \in 1..Len(Simulation!Route)
        /\ Simulation!Waypoint' = Simulation!Route[route_index + 1]
    BY <1>1, <1>2, <1>4 DEF Simulation!Waypoint
  <2>2. Simulation!Waypoint'.target = b[route_index + 1] + 1
    BY <2>1 DEF WalkInv, Numbering, Simulation!Route
  <2>. QED BY <1>2, <1>9, <2>2
<1>12. DwellsAddUp(b)'
  <2>1. \A u \in Simulation!Targets :
          held[u] <= run_mission.dwell[u] /\ (u \notin dwelled_targets => held[u] = 0)
    BY <1>3 DEF DwellsAddUp
  <2>2. run_mission.starts_at_platform => 1 \notin dwelled_targets BY <1>3 DEF DwellsAddUp
  <2>. QED BY <1>1, <1>3, <1>4, <1>6, <1>8, <1>9, <1>10, <1>11, <2>1, <2>2 DEF DwellsAddUp
<1>. QED BY <1>4, <1>7, <1>12 DEF WalkInv

LEMMA WalkStepAt ==
  ASSUME NEW b, WalkInv(b), [Simulation!Next]_Simulation!vars PROVE WalkInv(b)'
<1>1. ASSUME UNCHANGED <<run_mission, Simulation!controller>> PROVE WalkInv(b)'
  BY <1>1 DEF Simulation!controller, WalkInv, OnRoute, DwellsAddUp, Numbering,
     Simulation!Waypoint, Simulation!Route, Simulation!Targets
<1>2. Simulation!Initializes \/ Simulation!LoadsScene \/ Simulation!Resets =>
        UNCHANGED <<run_mission, Simulation!controller>>
  BY DEF Simulation!Initializes, Simulation!LoadsScene, Simulation!Resets, Simulation!Fails,
     Simulation!input
<1>3. Simulation!Replans \/ Simulation!MovesOn \/ Simulation!HoldsEnd \/ Simulation!StepRaises =>
        UNCHANGED <<run_mission, Simulation!controller>>
  BY DEF Simulation!Replans, Simulation!MovesOn, Simulation!HoldsEnd, Simulation!StepRaises,
     Simulation!StepDone, Simulation!Fails, Simulation!input
<1>4. Simulation!Ends \/ Simulation!Closes \/ UNCHANGED Simulation!vars =>
        UNCHANGED <<run_mission, Simulation!controller>>
  BY DEF Simulation!Ends, Simulation!Closes, Simulation!vars, Simulation!controller,
     Simulation!input
<1>. QED BY <1>1, <1>2, <1>3, <1>4, DwellsKeep, PassesKeep DEF Simulation!Next

LEMMA InitWalk == ASSUME Simulation!Init PROVE \E b : WalkInv(b)
<1>1. /\ run_mission.dwell \in Seq(Nat) /\ Len(Simulation!Route) \in Nat
      /\ Len(Simulation!Route) > 0 /\ Numbering(run_mission) # {}
  BY RoutesFit DEF Simulation!Init, Simulation!Route
<1>2. PICK b : b \in Numbering(run_mission) BY <1>1
<1>3. /\ Simulation!Targets = 1..Len(run_mission.dwell)
      /\ \A t \in Simulation!Targets : run_mission.dwell[t] \in Nat
  BY <1>1, LenProperties, ElementOfSeq DEF Simulation!Targets
<1>4. /\ route_index = 1 /\ dwell_remaining = 0 /\ reached_targets = <<>> /\ dwelled_targets = {}
      /\ route_completed = FALSE /\ held = [t \in Simulation!Targets |-> 0]
  BY DEF Simulation!Init
<1>5. b[1] = 0 BY <1>2 DEF Numbering
<1>6. OnRoute(b) BY <1>1, <1>4, <1>5 DEF OnRoute
<1>7. DwellsAddUp(b) BY <1>3, <1>4, <1>5 DEF DwellsAddUp
<1>. QED BY <1>1, <1>2, <1>6, <1>7 DEF WalkInv

(* The invariant is as strong as the property.                             *)
LEMMA WalkInvImplies == ASSUME NEW b, WalkInv(b) PROVE Simulation!RouteIsWalked
<1>1. /\ \A t \in Simulation!Targets : held[t] <= run_mission.dwell[t]
      /\ reached_targets \in Seq(Nat) /\ \A i \in 1..Len(reached_targets) : reached_targets[i] = i
  BY DEF WalkInv, OnRoute, DwellsAddUp
<1>2. DOMAIN reached_targets = 1..Len(reached_targets) BY <1>1
<1>3. ASSUME route_completed
      PROVE  /\ Len(reached_targets) = Len(run_mission.dwell)
             /\ \A t \in Simulation!Targets :
                  held[t] = run_mission.dwell[t] \/ (t = 1 /\ run_mission.starts_at_platform)
  <2>1. /\ route_index = Len(Simulation!Route) + 1 /\ b[route_index] = Len(run_mission.dwell)
        /\ Len(Simulation!Route) \in Nat
    BY <1>3 DEF WalkInv, OnRoute, Numbering, Simulation!Route
  <2>2. Len(reached_targets) = b[route_index] BY <2>1 DEF WalkInv, OnRoute
  <2>3. \A t \in Simulation!Targets : t <= b[route_index]
    BY <2>1, LenProperties DEF WalkInv, Simulation!Targets
  <2>. QED BY <2>1, <2>2, <2>3 DEF WalkInv, DwellsAddUp
<1>. QED BY <1>1, <1>2, <1>3 DEF Simulation!RouteIsWalked

(* Totals of a sequence: what the recursive function is, from a least n    *)
(* for which there would be none.                                          *)
TotalTo(f, s, n) == f = [k \in 0..n |-> IF k = 0 THEN 0 ELSE f[k - 1] + s[k]]

LEMMA TotalsExist ==
  ASSUME NEW s, NEW n \in Nat PROVE \E f : TotalTo(f, s, n)
<1>. DEFINE S == {k \in Nat : ~\E f : TotalTo(f, s, k)}
<1>. SUFFICES ASSUME S # {} PROVE FALSE OBVIOUS
<1>1. PICK m \in S : \A k \in S : m <= k BY Tasks!LeastOf
<1>2. m # 0
  <2>1. TotalTo([k \in 0..0 |-> 0], s, 0) BY DEF TotalTo
  <2>. QED BY <2>1
<1>3. m \in Nat /\ m - 1 \in Nat /\ m - 1 \notin S BY <1>1, <1>2
<1>4. PICK f : TotalTo(f, s, m - 1) BY <1>3
<1>. DEFINE g == [k \in 0..m |-> IF k = m THEN f[m - 1] + s[m] ELSE f[k]]
<1>5. ASSUME NEW k \in 0..m PROVE g[k] = IF k = 0 THEN 0 ELSE g[k - 1] + s[k]
  <2>1. CASE k = m BY <1>2, <1>3, <2>1
  <2>2. CASE k # m
    <3>1. k \in 0..m - 1 BY <1>3, <2>2
    <3>2. f[k] = IF k = 0 THEN 0 ELSE f[k - 1] + s[k] BY <1>4, <3>1 DEF TotalTo
    <3>. QED BY <1>3, <2>2, <3>1, <3>2
  <2>. QED BY <2>1, <2>2
<1>6. TotalTo(g, s, m)
  <2>1. g = [k \in 0..m |-> g[k]] OBVIOUS
  <2>. HIDE DEF g
  <2>. QED BY <1>5, <2>1 DEF TotalTo
<1>. QED BY <1>1, <1>6

LEMMA TotalsAre ==
  ASSUME NEW s \in Seq(Nat)
  PROVE  /\ Simulation!UpTo(s) \in [0..Len(s) -> Nat] /\ Simulation!UpTo(s)[0] = 0
         /\ \A n \in 1..Len(s) : Simulation!UpTo(s)[n] = Simulation!UpTo(s)[n - 1] + s[n]
<1>. DEFINE N == Len(s)  u == Simulation!UpTo(s)
<1>1. N \in Nat /\ \A n \in 1..N : s[n] \in Nat BY LenProperties, ElementOfSeq
<1>2. TotalTo(u, s, N)
  <2>1. \E f : TotalTo(f, s, N) BY <1>1, TotalsExist
  <2>. QED BY <2>1 DEF TotalTo, Simulation!UpTo
<1>. HIDE DEF u, N
<1>3. \A n \in 0..N : u[n] = IF n = 0 THEN 0 ELSE u[n - 1] + s[n] BY <1>2 DEF TotalTo
<1>. DEFINE S == {k \in 0..N : u[k] \notin Nat}
<1>4. S = {}
  <2>. SUFFICES ASSUME S # {} PROVE FALSE OBVIOUS
  <2>0. S \in SUBSET Nat BY <1>1
  <2>1. PICK m \in S : \A k \in S : m <= k BY <2>0, Tasks!LeastOf
  <2>2. m \in 0..N /\ u[m] \notin Nat BY <2>1
  <2>3. m # 0 BY <1>1, <1>3, <2>2
  <2>4. m - 1 \in 0..N /\ m \in 1..N /\ ~(m <= m - 1) BY <1>1, <2>2, <2>3
  <2>5. u[m - 1] \in Nat BY <2>1, <2>4
  <2>6. u[m] = u[m - 1] + s[m] /\ s[m] \in Nat BY <1>1, <1>3, <2>2, <2>3, <2>4
  <2>. QED BY <2>2, <2>5, <2>6
<1>5. u = [n \in 0..N |-> u[n]] BY <1>2 DEF TotalTo
<1>6. u \in [0..N -> Nat] BY <1>4, <1>5
<1>7. 0 \in 0..N /\ \A n \in 1..N : n \in 0..N /\ n # 0 BY <1>1
<1>. QED BY <1>3, <1>6, <1>7 DEF u, N

(* They only grow.                                                         *)
LEMMA TotalsGrow ==
  ASSUME NEW s \in Seq(Nat), NEW i \in 0..Len(s), NEW j \in i..Len(s)
  PROVE  Simulation!UpTo(s)[i] <= Simulation!UpTo(s)[j]
<1>. DEFINE N == Len(s)  u == Simulation!UpTo(s)
<1>1. /\ N \in Nat /\ u \in [0..N -> Nat] /\ \A n \in 1..N : s[n] \in Nat
      /\ \A n \in 1..N : u[n] = u[n - 1] + s[n]
  BY TotalsAre, LenProperties, ElementOfSeq
<1>2. i \in 0..N /\ j \in i..N OBVIOUS
<1>. HIDE DEF u, N
<1>. DEFINE S == {k \in i..N : ~(u[i] <= u[k])}
<1>3. S = {}
  <2>. SUFFICES ASSUME S # {} PROVE FALSE OBVIOUS
  <2>1. S \in SUBSET Nat BY <1>1, <1>2
  <2>2. PICK m \in S : \A k \in S : m <= k BY <2>1, Tasks!LeastOf
  <2>3. m \in i..N /\ ~(u[i] <= u[m]) BY <2>2
  <2>4. m # i BY <1>1, <1>2, <2>3
  <2>5. m - 1 \in i..N /\ m \in 1..N /\ ~(m <= m - 1) BY <1>1, <1>2, <2>3, <2>4
  <2>6. u[i] <= u[m - 1] BY <2>2, <2>5
  <2>7. u[m] = u[m - 1] + s[m] /\ u[i] \in Nat /\ u[m - 1] \in Nat /\ s[m] \in Nat
    BY <1>1, <1>2, <2>5
  <2>. QED BY <2>3, <2>6, <2>7
<1>. QED BY <1>2, <1>3 DEF u

(* What the route and its dwells add up to.                                *)
LEMMA LegsAre ==
  ASSUME Len(Simulation!Route) \in Nat,
         \A i \in 1..Len(Simulation!Route) : Simulation!Route[i].length \in Nat
  PROVE  /\ Simulation!Legs \in Seq(Nat) /\ Len(Simulation!Legs) = Len(Simulation!Route)
         /\ \A i \in 1..Len(Simulation!Route) : Simulation!Legs[i] = Simulation!Route[i].length
<1>. DEFINE n == Len(Simulation!Route)
<1>1. Simulation!Legs = [i \in 1..n |-> Simulation!Route[i].length] BY DEF Simulation!Legs
<1>2. Simulation!Legs \in [1..n -> Nat] BY <1>1
<1>3. n \in Nat OBVIOUS
<1>. HIDE DEF n
<1>4. Simulation!Legs \in Seq(Nat) /\ Len(Simulation!Legs) = n
  BY <1>2, <1>3, SeqDef, LenProperties
<1>. QED BY <1>1, <1>4 DEF n

(* Waypoints that are no target are what the targets leave of the route.   *)
LEMMA DetoursAre ==
  ASSUME NEW b, b \in Numbering(run_mission), Len(Simulation!Route) \in Nat,
         run_mission.dwell \in Seq(Nat)
  PROVE  Simulation!DetourPoints = Len(Simulation!Route) - Len(run_mission.dwell)
<1>. DEFINE n == Len(Simulation!Route)
            c == [i \in 1..n |-> IF Simulation!Route[i].is_mission_target THEN 0 ELSE 1]
            u == Simulation!UpTo(c)
<1>1. n \in Nat /\ c \in [1..n -> Nat] OBVIOUS
<1>2. /\ b \in [1..n + 1 -> Nat] /\ b[1] = 0 /\ b[n + 1] = Len(run_mission.dwell)
      /\ \A i \in 1..n : b[i + 1] = b[i] + (IF Simulation!Route[i].is_mission_target THEN 1 ELSE 0)
  <2>. DEFINE route == run_mission.route  m == Len(run_mission.dwell)
  <2>1. n = Len(route) /\ Simulation!Route = route BY DEF Simulation!Route
  <2>2. /\ b \in [1..Len(route) + 1 -> 0..m] /\ b[1] = 0 /\ b[Len(route) + 1] = m
        /\ \A i \in 1..Len(route) : IF route[i].is_mission_target
                                    THEN b[i + 1] = b[i] + 1 ELSE b[i + 1] = b[i]
    BY DEF Numbering
  <2>. HIDE DEF route, m, n
  <2>3. b \in [1..n + 1 -> Nat] BY <2>1, <2>2
  <2>4. ASSUME NEW i \in 1..n
        PROVE  b[i + 1] = b[i] + (IF route[i].is_mission_target THEN 1 ELSE 0)
    <3>1. b[i] \in Nat BY <2>1, <2>3
    <3>. QED BY <2>1, <2>2, <3>1
  <2>. QED BY <2>1, <2>2, <2>3, <2>4 DEF m
<1>3. \A i \in 1..n : b[i + 1] + c[i] = b[i] + 1
  <2>1. \A i \in 1..n : i \in 1..n + 1 /\ b[i] \in Nat BY <1>1, <1>2
  <2>. QED BY <1>2, <2>1
<1>4. Simulation!DetourPoints = u[Len(c)] BY DEF Simulation!DetourPoints, Simulation!SumOf
<1>. HIDE DEF n, c
<1>5. c \in Seq(Nat) /\ Len(c) = n BY <1>1, SeqDef, LenProperties
<1>6. u \in [0..n -> Nat] /\ u[0] = 0 /\ \A k \in 1..n : u[k] = u[k - 1] + c[k]
  BY <1>5, TotalsAre
<1>. HIDE DEF u
<1>. DEFINE S == {k \in 0..n : u[k] # k - b[k + 1]}
<1>7. S = {}
  <2>. SUFFICES ASSUME S # {} PROVE FALSE OBVIOUS
  <2>1. S \in SUBSET Nat BY <1>1
  <2>2. PICK m \in S : \A k \in S : m <= k BY <2>1, Tasks!LeastOf
  <2>3. m \in 0..n /\ u[m] # m - b[m + 1] BY <2>2
  <2>4. m # 0 BY <1>2, <1>6, <2>3
  <2>5. m \in 1..n /\ m - 1 \in 0..n /\ ~(m <= m - 1) /\ (m - 1) + 1 = m BY <1>1, <2>3, <2>4
  <2>6. u[m - 1] = (m - 1) - b[m] BY <2>2, <2>5
  <2>7. u[m] = u[m - 1] + c[m] /\ b[m + 1] + c[m] = b[m] + 1 BY <1>3, <1>6, <2>5
  <2>8. m \in 1..n + 1 /\ m + 1 \in 1..n + 1 BY <1>1, <2>5
  <2>. DEFINE x == u[m]  y == u[m - 1]  p == b[m]  q == b[m + 1]  z == c[m]
  <2>9. m \in Nat /\ y \in Nat /\ p \in Nat /\ q \in Nat /\ z \in Nat
    BY <1>1, <1>2, <1>6, <2>5, <2>8
  <2>10. x = y + z /\ q + z = p + 1 /\ y = (m - 1) - p /\ x # m - q BY <2>3, <2>6, <2>7
  <2>. HIDE DEF x, y, p, q, z
  <2>. QED BY <2>9, <2>10
<1>8. n \in 0..n BY <1>1
<1>9. u[n] = n - b[n + 1] BY <1>7, <1>8
<1>. QED BY <1>2, <1>4, <1>5, <1>9 DEF n

(* So the budget is more than the legs, a step for each of them that is    *)
(* shorter than one, and the dwells can take.                              *)
LEMMA Suffices ==
  ASSUME NEW v \in Nat \ {0}, NEW T \in Nat, NEW W \in Nat, NEW n \in Nat \ {0}, NEW e \in Nat,
         e >= (T + v - 1) \div v + W + 8 * n
  PROVE  v * e > T + v * (n + W)
<1>. DEFINE q == (T + v - 1) \div v
<1>1. q \in Int /\ v * q >= T /\ q >= 0
  <2>. DEFINE x == T + v - 1
  <2>1. x \in Nat BY SMT
  <2>. HIDE DEF x
  <2>2. x \div v \in Nat /\ x = v * (x \div v) + (x % v) /\ x % v \in 0..v - 1 BY <2>1, SMT
  <2>3. q = x \div v BY DEF x
  <2>4. x - (v - 1) = T BY DEF x
  <2>. HIDE DEF q
  <2>. DEFINE p == v * q  r == x % v
  <2>5. p \in Int /\ r \in 0..v - 1 /\ x = p + r BY <2>2, <2>3
  <2>. HIDE DEF p, r
  <2>6. p >= T BY <2>1, <2>4, <2>5
  <2>. QED BY <2>2, <2>3, <2>6 DEF p
<1>. HIDE DEF q
<1>2. e = q + W + 8 * n + (e - (q + W + 8 * n)) /\ e - (q + W + 8 * n) \in Nat BY <1>1 DEF q
<1>. DEFINE f == e - (q + W + 8 * n)
<1>3. f \in Nat /\ e = q + W + 8 * n + f BY <1>2
<1>. HIDE DEF f
<1>4. v * e = v * q + v * W + 8 * (v * n) + v * f BY <1>1, <1>3
<1>5. v * (n + W) = v * n + v * W OBVIOUS
<1>. DEFINE a == v * q  w == v * W  k == v * n  g == v * f
<1>6. a \in Int /\ w \in Nat /\ k \in Nat /\ k > 0 /\ g \in Nat BY <1>1, <1>3
<1>7. v * e = a + w + 8 * k + g /\ v * (n + W) = k + w /\ a >= T BY <1>1, <1>4, <1>5
<1>. HIDE DEF a, w, k, g
<1>. QED BY <1>6, <1>7

(* The frames that a walk to here may have used: one for each leg that is  *)
(* over, those of its dwells, and those the robot has dwelt here.          *)
HeldHere == IF Simulation!Waypoint.is_mission_target THEN held[Simulation!Waypoint.target] ELSE 0
Frames(b) ==
  (IF distance = 0 THEN route_index ELSE route_index - 1)
    + Simulation!UpTo(run_mission.dwell)[b[route_index]] + HeldHere

(* No frame is lost: what is not spent on those brought the robot a step's *)
(* length nearer.                                                          *)
OnTime(b) ==
  RunSpeed * executed_steps <=
    Simulation!UpTo(Simulation!Legs)[route_index] - distance + RunSpeed * Frames(b)

(* Inductive, next to WalkInv.                                             *)
InBudget(b) ==
  /\ run_mission \in RunMission /\ run_request \in RunRequest
  /\ run_pc \in {"initialize", "load", "reset", "loop", "summary", "raised", "done", "failed"}
  /\ adapter \in Simulation!AdapterState
  /\ executed_steps \in 0..Simulation!EffectiveSteps /\ distance \in Nat
  /\ near \in BOOLEAN /\ met \in BOOLEAN /\ route_completed \in BOOLEAN /\ (near => met)
  /\ run_pc \in {"initialize", "load", "reset"} => ~met
  /\ run_pc \in {"summary", "done"} => executed_steps = Simulation!EffectiveSteps
  /\ run_pc \in {"done", "failed"} => adapter \in {"stopped", "error"}
  /\ Simulation!Exact /\ ~met /\ ~route_completed => OnTime(b)

(* What a step budget is made of.                                          *)
LEMMA BudgetIs ==
  ASSUME NEW b, b \in Numbering(run_mission), run_mission \in RunMission, run_request \in RunRequest
  PROVE  /\ run_mission.dwell \in Seq(Nat) /\ Len(Simulation!Route) \in Nat \ {0}
         /\ Simulation!Legs \in Seq(Nat) /\ Len(Simulation!Legs) = Len(Simulation!Route)
         /\ \A i \in 1..Len(Simulation!Route) : Simulation!Legs[i] = Simulation!Route[i].length
         /\ Simulation!SumOf(Simulation!Legs) \in Nat /\ Simulation!DwellSteps \in Nat
         /\ Simulation!EffectiveSteps \in Nat
         /\ run_request.auto_extend /\ Simulation!EstimatedSteps <= MaxRunSteps =>
              Simulation!EffectiveSteps >=
                (Simulation!SumOf(Simulation!Legs) + RunSpeed - 1) \div RunSpeed
                  + Simulation!DwellSteps + 8 * Len(Simulation!Route)
<1>. DEFINE dwell == run_mission.dwell  n == Len(Simulation!Route)
<1>1. /\ dwell \in Seq(Nat) /\ n \in Nat \ {0}
      /\ \A i \in 1..n : Simulation!Route[i].length \in Nat
  BY RoutesFit DEF Simulation!Route
<1>2. /\ Simulation!Legs \in Seq(Nat) /\ Len(Simulation!Legs) = n
      /\ \A i \in 1..n : Simulation!Legs[i] = Simulation!Route[i].length
  BY <1>1, LegsAre
<1>3. ASSUME NEW s \in Seq(Nat) PROVE Simulation!SumOf(s) \in Nat
  <2>1. Len(s) \in 0..Len(s) BY LenProperties
  <2>. QED BY <2>1, TotalsAre DEF Simulation!SumOf
<1>4. Simulation!DetourPoints = n - Len(dwell) /\ Len(dwell) \in Nat
  BY <1>1, DetoursAre, LenProperties
<1>5. Simulation!DetourPoints \in Nat
  <2>. DEFINE c == [i \in 1..n |-> IF Simulation!Route[i].is_mission_target THEN 0 ELSE 1]
  <2>1. c \in [1..n -> Nat] OBVIOUS
  <2>2. Simulation!DetourPoints = Simulation!SumOf(c) BY DEF Simulation!DetourPoints
  <2>3. n \in Nat BY <1>1
  <2>. HIDE DEF c, n
  <2>4. c \in Seq(Nat) BY <2>1, <2>3, SeqDef
  <2>. QED BY <1>3, <2>2, <2>4
<1>. DEFINE T == Simulation!SumOf(Simulation!Legs)  W == Simulation!DwellSteps
            q == (T + RunSpeed - 1) \div RunSpeed  k == Simulation!Slack
            e == Simulation!EstimatedSteps  x == Simulation!EffectiveSteps
            c == run_request.step_count  M == MaxRunSteps  m == Len(dwell)
<1>6. T \in Nat /\ W \in Nat BY <1>1, <1>2, <1>3 DEF Simulation!DwellSteps
<1>7. k \in Nat /\ k >= 8 * n
  <2>. DEFINE d == Simulation!DetourPoints
  <2>1. k = Simulation!Larger(40, m * 40 + d * 8) BY DEF Simulation!Slack
  <2>2. d \in Nat /\ d = n - m /\ m \in Nat /\ n \in Nat BY <1>1, <1>4, <1>5
  <2>. HIDE DEF k, n, m, d
  <2>3. m * 40 + d * 8 \in Nat /\ m * 40 + d * 8 >= 8 * n BY <2>2
  <2>. QED BY <2>1, <2>2, <2>3 DEF Simulation!Larger
<1>8. RunSpeed \in Nat \ {0} /\ M \in Nat /\ c \in Nat BY RoutesFit
<1>9. q \in Int
  <2>. HIDE DEF T
  <2>. QED BY <1>6, <1>8
<1>10. e = Simulation!Larger(1, q + W + k)
  BY DEF Simulation!EstimatedSteps, Simulation!MotionSteps
<1>11. x = IF ~run_request.auto_extend THEN c
           ELSE IF Simulation!Larger(c, e) < M THEN Simulation!Larger(c, e) ELSE M
  BY DEF Simulation!EffectiveSteps
<1>. HIDE DEF T, W, q, k, e, x, c, M, n, m
<1>12. e \in Nat /\ e >= q + W + k BY <1>6, <1>7, <1>9, <1>10 DEF Simulation!Larger
<1>13. Simulation!Larger(c, e) \in Nat /\ Simulation!Larger(c, e) >= e
  BY <1>8, <1>12 DEF Simulation!Larger
<1>14. x \in Nat /\ (run_request.auto_extend /\ e <= M => x >= e) BY <1>8, <1>11, <1>12, <1>13
<1>15. n \in Nat BY <1>1
<1>16. run_request.auto_extend /\ e <= M => x >= q + W + 8 * n
  <2>. SUFFICES ASSUME run_request.auto_extend /\ e <= M PROVE x >= q + W + 8 * n OBVIOUS
  <2>. QED BY <1>6, <1>7, <1>9, <1>12, <1>14, <1>15
<1>. QED BY <1>1, <1>2, <1>6, <1>14, <1>16 DEF T, W, q, e, x, M, n

(* The totals that OnTime compares.                                        *)
LEMMA OnTimeTypes ==
  ASSUME NEW b, WalkInv(b), run_mission \in RunMission, run_request \in RunRequest,
         ~route_completed, distance \in Nat
  PROVE  /\ Simulation!UpTo(Simulation!Legs)[route_index] \in Nat
         /\ Simulation!UpTo(run_mission.dwell)[b[route_index]] \in Nat
         /\ HeldHere \in Nat /\ route_index \in Nat \ {0} /\ Frames(b) \in Nat
<1>1. /\ run_mission.dwell \in Seq(Nat) /\ Simulation!Legs \in Seq(Nat)
      /\ Len(Simulation!Legs) = Len(Simulation!Route) /\ Len(Simulation!Route) \in Nat
      /\ Len(run_mission.dwell) \in Nat
  BY BudgetIs, LenProperties DEF WalkInv
<1>2. /\ route_index \in 1..Len(Simulation!Route) /\ b[route_index] \in Nat
      /\ b[route_index] <= Len(run_mission.dwell)
  <2>1. route_index \in 1..Len(Simulation!Route) /\ b[route_index] \in Nat BY AtTarget
  <2>2. b \in [1..Len(Simulation!Route) + 1 -> 0..Len(run_mission.dwell)]
    BY DEF WalkInv, Numbering, Simulation!Route
  <2>. QED BY <1>1, <2>1, <2>2
<1>3. /\ Simulation!UpTo(Simulation!Legs)[route_index] \in Nat
      /\ Simulation!UpTo(run_mission.dwell)[b[route_index]] \in Nat
  <2>1. route_index \in 0..Len(Simulation!Legs) /\ b[route_index] \in 0..Len(run_mission.dwell)
    BY <1>1, <1>2
  <2>2. /\ Simulation!UpTo(Simulation!Legs) \in [0..Len(Simulation!Legs) -> Nat]
        /\ Simulation!UpTo(run_mission.dwell) \in [0..Len(run_mission.dwell) -> Nat]
    BY <1>1, TotalsAre
  <2>. QED BY <2>1, <2>2
<1>4. HeldHere \in Nat BY AtTarget, WalkTypes DEF HeldHere
<1>5. route_index \in Nat \ {0} BY <1>2
<1>. QED BY <1>3, <1>4, <1>5 DEF Frames

(* A frame that brings the robot a step's length nearer, or that is one of *)
(* those accounted for, loses no time.                                     *)
LEMMA Onward ==
  ASSUME NEW v \in Nat, NEW e \in Nat, NEW u \in Nat, NEW d \in Nat, NEW f \in Nat,
         NEW w \in Nat, NEW h \in Nat, NEW g \in Nat,
         v * e <= u - d + v * f,
         (w - h >= u - d + v /\ g >= f) \/ (w - h >= u - d /\ g >= f + 1)
  PROVE  v * (e + 1) <= w - h + v * g
<1>1. v * (e + 1) = v * e + v OBVIOUS
<1>. DEFINE p == v * e  q == v * f  r == v * g
<1>2. p \in Nat /\ q \in Nat /\ r \in Nat OBVIOUS
<1>3. CASE w - h >= u - d + v /\ g >= f
  <2>1. PICK k \in Nat : g = f + k
    <3>1. g - f \in Nat /\ g = f + (g - f) BY <1>3
    <3>. QED BY <3>1
  <2>2. r = q + v * k /\ v * k \in Nat BY <2>1
  <2>. DEFINE x == v * k
  <2>3. r = q + x /\ x \in Nat BY <2>2
  <2>. HIDE DEF p, q, r, x
  <2>4. p + v <= w - h + r BY <1>2, <1>3, <2>3 DEF p, q
  <2>. QED BY <1>1, <2>4 DEF p, r
<1>4. CASE w - h >= u - d /\ g >= f + 1
  <2>1. PICK k \in Nat : g = f + 1 + k
    <3>1. g - f - 1 \in Nat /\ g = f + 1 + (g - f - 1) BY <1>4
    <3>. QED BY <3>1
  <2>2. r = q + v + v * k /\ v * k \in Nat BY <2>1
  <2>. DEFINE x == v * k
  <2>3. r = q + v + x /\ x \in Nat BY <2>2
  <2>. HIDE DEF p, q, r, x
  <2>4. p + v <= w - h + r BY <1>2, <1>4, <2>3 DEF p, q
  <2>. QED BY <1>1, <2>4 DEF p, r
<1>. QED BY <1>3, <1>4

(* What a frame has to bring for that.                                     *)
LEMMA InTime ==
  ASSUME NEW b, WalkInv(b), InBudget(b), OnTime(b), ~route_completed,
         UNCHANGED <<run_mission, run_request>>, executed_steps' = executed_steps + 1,
         NEW w \in Nat, w = Simulation!UpTo(Simulation!Legs)[route_index'],
         distance' \in Nat, Frames(b)' \in Nat,
         \/ /\ w - distance' >= Simulation!UpTo(Simulation!Legs)[route_index] - distance + RunSpeed
            /\ Frames(b)' >= Frames(b)
         \/ /\ w - distance' >= Simulation!UpTo(Simulation!Legs)[route_index] - distance
            /\ Frames(b)' >= Frames(b) + 1
  PROVE  OnTime(b)'
<1>1. Simulation!Legs' = Simulation!Legs BY DEF Simulation!Legs, Simulation!Route
<1>2. /\ run_mission \in RunMission /\ run_request \in RunRequest /\ distance \in Nat
      /\ executed_steps \in Nat /\ RunSpeed \in Nat
  <2>1. /\ run_mission \in RunMission /\ run_request \in RunRequest /\ distance \in Nat
        /\ executed_steps \in 0..Simulation!EffectiveSteps
    BY DEF InBudget
  <2>2. Simulation!EffectiveSteps \in Nat BY <2>1, BudgetIs DEF WalkInv
  <2>. QED BY <2>1, <2>2, RoutesFit
<1>3. Simulation!UpTo(Simulation!Legs)[route_index] \in Nat /\ Frames(b) \in Nat
  BY <1>2, OnTimeTypes
<1>. DEFINE u == Simulation!UpTo(Simulation!Legs)[route_index]  f == Frames(b)  g == Frames(b)'
            d == distance  h == distance'  e == executed_steps
<1>4. RunSpeed * e <= u - d + RunSpeed * f BY DEF OnTime
<1>5. (w - h >= u - d + RunSpeed /\ g >= f) \/ (w - h >= u - d /\ g >= f + 1) OBVIOUS
<1>6. u \in Nat /\ f \in Nat /\ g \in Nat /\ d \in Nat /\ h \in Nat /\ e \in Nat BY <1>2, <1>3
<1>7. OnTime(b)' <=> RunSpeed * (e + 1) <= w - h + RunSpeed * g BY <1>1 DEF OnTime
<1>. HIDE DEF u, f, g, d, h, e
<1>. QED BY <1>2, <1>4, <1>5, <1>6, <1>7, Onward

(* The frames that move, dwell and pass.                                   *)
LEMMA MovesInTime ==
  ASSUME NEW b, WalkInv(b), InBudget(b), OnTime(b), Simulation!MovesOn, Simulation!Exact
  PROVE  OnTime(b)'
<1>1. /\ ~route_completed /\ distance \in Nat /\ distance > 0
      /\ run_mission \in RunMission /\ run_request \in RunRequest
      /\ distance' = Simulation!Moved(distance) /\ executed_steps' = executed_steps + 1
      /\ UNCHANGED <<run_mission, run_request, route_index, held>>
  BY DEF Simulation!MovesOn, Simulation!StepMoves, Simulation!StepDone, Simulation!controller,
     Simulation!input, InBudget
<1>2. /\ Simulation!UpTo(Simulation!Legs)[route_index] \in Nat /\ HeldHere \in Nat
      /\ Simulation!UpTo(run_mission.dwell)[b[route_index]] \in Nat
      /\ route_index \in Nat \ {0} /\ RunSpeed \in Nat
  BY <1>1, OnTimeTypes, RoutesFit
<1>3. HeldHere' = HeldHere
  BY <1>1 DEF HeldHere, Simulation!Waypoint, Simulation!Route
<1>. DEFINE k == Simulation!UpTo(run_mission.dwell)[b[route_index]]
<1>4. /\ Frames(b) = route_index - 1 + k + HeldHere
      /\ Frames(b)' = (IF distance' = 0 THEN route_index ELSE route_index - 1) + k + HeldHere
  BY <1>1, <1>3 DEF Frames
<1>. DEFINE u == Simulation!UpTo(Simulation!Legs)[route_index]
<1>5. u \in Nat /\ u = Simulation!UpTo(Simulation!Legs)[route_index'] BY <1>1, <1>2
<1>6. CASE distance > RunSpeed
  <2>1. distance' \in Nat /\ distance' = distance - RunSpeed /\ distance' > 0
    BY <1>1, <1>2, <1>6 DEF Simulation!Moved
  <2>2. Frames(b)' \in Nat /\ Frames(b)' >= Frames(b) BY <1>2, <1>4, <2>1
  <2>3. u - distance' >= u - distance + RunSpeed BY <1>1, <1>2, <2>1
  <2>. HIDE DEF u
  <2>. QED BY <1>1, <1>5, <2>1, <2>2, <2>3, InTime DEF u
<1>7. CASE ~(distance > RunSpeed)
  <2>1. distance' = 0 BY <1>1, <1>7 DEF Simulation!Moved
  <2>2. Frames(b)' \in Nat /\ Frames(b)' >= Frames(b) + 1 BY <1>2, <1>4, <2>1
  <2>3. u - distance' >= u - distance BY <1>1, <1>2, <2>1
  <2>. HIDE DEF u
  <2>. QED BY <1>1, <1>5, <2>1, <2>2, <2>3, InTime DEF u
<1>. QED BY <1>6, <1>7

LEMMA DwellsInTime ==
  ASSUME NEW b, WalkInv(b), InBudget(b), OnTime(b), Simulation!Dwells, Simulation!Exact
  PROVE  OnTime(b)'
<1>1. /\ ~route_completed /\ distance = 0 /\ Simulation!Waypoint.is_mission_target
      /\ run_mission \in RunMission /\ run_request \in RunRequest
      /\ held' = [held EXCEPT ![Simulation!Waypoint.target] = @ + 1]
      /\ distance' = 0 /\ executed_steps' = executed_steps + 1
      /\ UNCHANGED <<run_mission, run_request, route_index>>
  BY DEF Simulation!Dwells, Simulation!StepHolds, Simulation!StepDone, Simulation!input, InBudget
<1>2. /\ Simulation!UpTo(Simulation!Legs)[route_index] \in Nat /\ HeldHere \in Nat
      /\ Simulation!UpTo(run_mission.dwell)[b[route_index]] \in Nat
      /\ route_index \in Nat \ {0} /\ RunSpeed \in Nat
  BY <1>1, OnTimeTypes, RoutesFit
<1>3. HeldHere' = HeldHere + 1
  <2>1. Simulation!Waypoint.target \in Simulation!Targets /\ held \in [Simulation!Targets -> Nat]
    BY <1>1, AtTarget, WalkTypes
  <2>2. Simulation!Waypoint' = Simulation!Waypoint
    BY <1>1 DEF Simulation!Waypoint, Simulation!Route
  <2>. QED BY <1>1, <2>1, <2>2 DEF HeldHere
<1>. DEFINE k == Simulation!UpTo(run_mission.dwell)[b[route_index]]
<1>4. /\ Frames(b) = route_index + k + HeldHere
      /\ Frames(b)' = route_index + k + HeldHere + 1
  BY <1>1, <1>2, <1>3 DEF Frames
<1>5. Frames(b)' \in Nat /\ Frames(b)' >= Frames(b) + 1 BY <1>2, <1>4
<1>. DEFINE u == Simulation!UpTo(Simulation!Legs)[route_index]
<1>6. u \in Nat /\ u = Simulation!UpTo(Simulation!Legs)[route_index'] BY <1>1, <1>2
<1>7. u - distance' >= u - distance BY <1>1, <1>6
<1>. HIDE DEF u
<1>. QED BY <1>1, <1>5, <1>6, <1>7, InTime DEF u

LEMMA PassesInTime ==
  ASSUME NEW b, WalkInv(b), InBudget(b), OnTime(b), Simulation!Passes, Simulation!Exact,
         ~route_completed'
  PROVE  OnTime(b)'
<1>. DEFINE n == Len(Simulation!Route)  i == route_index  j == route_index + 1
            U == Simulation!UpTo(Simulation!Legs)  K == Simulation!UpTo(run_mission.dwell)
            m == Simulation!Route[j].length
<1>1. /\ ~route_completed /\ distance = 0 /\ i # n
      /\ run_mission \in RunMission /\ run_request \in RunRequest
      /\ route_index' = j /\ distance' = Simulation!Moved(m)
      /\ executed_steps' = executed_steps + 1
      /\ UNCHANGED <<run_mission, run_request, held>>
  BY DEF Simulation!Passes, Simulation!StepMoves, Simulation!StepHolds, Simulation!StepDone,
     Simulation!input, InBudget
<1>2. /\ U[i] \in Nat /\ K[b[i]] \in Nat /\ HeldHere \in Nat /\ i \in Nat \ {0}
      /\ RunSpeed \in Nat
  BY <1>1, OnTimeTypes, RoutesFit
<1>3. i \in 1..n /\ j \in 1..n /\ n \in Nat
  <2>1. i \in 1..n /\ n \in Nat BY <1>1, AtTarget DEF WalkInv
  <2>. QED BY <1>1, <2>1
<1>4. /\ run_mission.dwell \in Seq(Nat) /\ Simulation!Legs \in Seq(Nat)
      /\ Len(Simulation!Legs) = n /\ Simulation!Legs[j] = m
  BY <1>1, <1>3, BudgetIs DEF WalkInv
<1>5. U[j] = U[i] + m /\ m \in Nat /\ U[j] \in Nat
  <2>1. U[j] = U[j - 1] + Simulation!Legs[j] BY <1>3, <1>4, TotalsAre
  <2>2. Simulation!Legs[j] \in Nat BY <1>3, <1>4, ElementOfSeq
  <2>3. j - 1 = i BY <1>2
  <2>. QED BY <1>2, <1>4, <2>1, <2>2, <2>3
(* The dwells that are over, and this one.                                 *)
<1>6. HeldHere' \in Nat
  <2>1. Simulation!Waypoint' = Simulation!Route[j] /\ held' = held
    BY <1>1 DEF Simulation!Waypoint, Simulation!Route
  <2>2. ASSUME Simulation!Route[j].is_mission_target
        PROVE  Simulation!Route[j].target \in Simulation!Targets
    <3>1. /\ Simulation!Route[j].target = b[j] + 1 /\ b[j] < Len(run_mission.dwell)
          /\ b \in [1..n + 1 -> 0..Len(run_mission.dwell)]
      BY <1>3, <2>2 DEF WalkInv, Numbering, Simulation!Route
    <3>2. Simulation!Targets = 1..Len(run_mission.dwell) /\ Len(run_mission.dwell) \in Nat
      BY <1>4, LenProperties DEF Simulation!Targets
    <3>3. b[j] \in 0..Len(run_mission.dwell) BY <1>3, <3>1
    <3>. QED BY <3>1, <3>2, <3>3
  <2>3. held \in [Simulation!Targets -> Nat] BY WalkTypes
  <2>. QED BY <2>1, <2>2, <2>3 DEF HeldHere
<1>7. K[b[j]] \in Nat /\ K[b[j]] >= K[b[i]] + HeldHere
  <2>. DEFINE t == Simulation!Waypoint.target
  <2>1. CASE ~Simulation!Waypoint.is_mission_target
    <3>1. b[j] = b[i] BY <1>1, <2>1, AtTarget
    <3>. QED BY <1>2, <2>1, <3>1 DEF HeldHere
  <2>2. CASE Simulation!Waypoint.is_mission_target
    <3>1. t = b[i] + 1 /\ t \in Simulation!Targets /\ b[j] = t /\ b[i] \in Nat
      BY <1>1, <2>2, AtTarget
    <3>2. /\ held[t] <= run_mission.dwell[t] /\ held[t] \in Nat
          /\ run_mission.dwell[t] \in Nat
      BY <3>1, WalkTypes DEF DwellsAddUp
    <3>3. t \in 1..Len(run_mission.dwell) BY <1>4, <3>1, LenProperties DEF Simulation!Targets
    <3>4. K[t] = K[t - 1] + run_mission.dwell[t] BY <1>4, <3>3, TotalsAre
    <3>5. HeldHere = held[t] BY <2>2 DEF HeldHere
    <3>6. t - 1 = b[i] BY <3>1
    <3>. HIDE DEF t, K
    <3>. QED BY <1>2, <3>1, <3>2, <3>4, <3>5, <3>6
  <2>. QED BY <2>1, <2>2
<1>8. /\ Frames(b) = i + K[b[i]] + HeldHere
      /\ Frames(b)' = (IF distance' = 0 THEN j ELSE i) + K[b[j]] + HeldHere'
  <2>1. Frames(b)' = (IF distance' = 0 THEN j ELSE j - 1) + K[b[j]] + HeldHere'
    BY <1>1 DEF Frames
  <2>2. j - 1 = i BY <1>2
  <2>. QED BY <1>1, <2>1, <2>2 DEF Frames
<1>. DEFINE w == U[j]  u == U[i]  f == Frames(b)  g == Frames(b)'  k == K[b[i]]  l == K[b[j]]
<1>9. w = Simulation!UpTo(Simulation!Legs)[route_index'] BY <1>1
<1>. HIDE DEF w, u, f, g, k, l, m, i, K
<1>10. CASE m > RunSpeed
  <2>1. distance' \in Nat /\ distance' = m - RunSpeed /\ distance' > 0
    BY <1>1, <1>2, <1>5, <1>10 DEF Simulation!Moved
  <2>2. g \in Nat /\ g >= f BY <1>2, <1>6, <1>7, <1>8, <2>1 DEF g, f, k, l
  <2>3. w \in Nat /\ w - distance' >= u - distance + RunSpeed
    BY <1>1, <1>2, <1>5, <2>1 DEF u, w
  <2>. QED BY <1>1, <1>9, <2>1, <2>2, <2>3, InTime DEF g, f, u, i
<1>11. CASE ~(m > RunSpeed)
  <2>1. distance' = 0 BY <1>1, <1>11 DEF Simulation!Moved
  <2>2. g \in Nat /\ g >= f + 1 BY <1>2, <1>6, <1>7, <1>8, <2>1 DEF g, f, k, l, i
  <2>3. w \in Nat /\ w - distance' >= u - distance BY <1>1, <1>2, <1>5, <2>1 DEF u, w
  <2>. QED BY <1>1, <1>9, <2>1, <2>2, <2>3, InTime DEF g, f, u, i
<1>. QED BY <1>10, <1>11

(* A frame of the loop keeps its types, whichever way it goes.             *)
FrameTyped ==
  /\ UNCHANGED <<run_mission, run_request, run_pc, adapter>>
  /\ executed_steps < Simulation!EffectiveSteps /\ executed_steps' = executed_steps + 1
  /\ run_pc = "loop"
  /\ distance' \in Nat /\ near' \in BOOLEAN /\ route_completed' \in BOOLEAN
  /\ (met' = (met \/ near') \/ UNCHANGED <<near, met>>)

LEMMA FramesAreTyped ==
  ASSUME NEW b, WalkInv(b), InBudget(b),
         \/ Simulation!Replans \/ Simulation!MovesOn \/ Simulation!Dwells
         \/ Simulation!Passes \/ Simulation!HoldsEnd
  PROVE  FrameTyped
<1>1. /\ run_mission \in RunMission /\ distance \in Nat /\ near \in BOOLEAN /\ RunSpeed \in Nat
      /\ route_completed \in BOOLEAN
  BY RoutesFit DEF InBudget
<1>2. ASSUME NEW d \in Nat, Simulation!StepMoves(d)
      PROVE  distance' \in Nat /\ near' \in BOOLEAN /\ met' = (met \/ near')
  <2>1. Simulation!Moved(d) \in Nat BY <1>1 DEF Simulation!Moved
  <2>2. distance' \in {Simulation!Moved(d), d, d + 1} BY <1>2 DEF Simulation!StepMoves
  <2>. QED BY <1>2, <2>1, <2>2 DEF Simulation!StepMoves
<1>3. ASSUME NEW d \in Nat, Simulation!StepHolds(d)
      PROVE  distance' \in Nat /\ near' \in BOOLEAN /\ met' = (met \/ near')
  <2>1. distance' \in {d, d + 1} BY <1>3 DEF Simulation!StepHolds
  <2>2. near' \in BOOLEAN BY <1>1, <1>3 DEF Simulation!StepHolds
  <2>. QED BY <1>3, <2>1, <2>2 DEF Simulation!StepHolds
<1>4. CASE Simulation!Replans
  BY <1>1, <1>3, <1>4 DEF FrameTyped, Simulation!Replans, Simulation!Looping, Simulation!StepDone,
     Simulation!input, Simulation!controller
<1>5. CASE Simulation!MovesOn
  BY <1>1, <1>2, <1>5 DEF FrameTyped, Simulation!MovesOn, Simulation!Looping, Simulation!StepDone,
     Simulation!input, Simulation!controller
<1>6. CASE Simulation!Dwells
  BY <1>1, <1>3, <1>6 DEF FrameTyped, Simulation!Dwells, Simulation!Looping, Simulation!StepDone,
     Simulation!input
<1>7. CASE Simulation!HoldsEnd
  BY <1>1, <1>3, <1>7 DEF FrameTyped, Simulation!HoldsEnd, Simulation!Looping,
     Simulation!StepDone, Simulation!input, Simulation!controller
<1>8. CASE Simulation!Passes
  <2>1. route_index # Len(Simulation!Route) => Simulation!Route[route_index + 1].length \in Nat
    <3>1. route_index \in 1..Len(Simulation!Route) /\ Len(Simulation!Route) \in Nat
      BY <1>8, AtTarget DEF Simulation!Passes, WalkInv
    <3>. QED BY <1>1, <3>1, RoutesFit DEF Simulation!Route
  <2>2. distance' \in Nat /\ near' \in BOOLEAN /\ met' = (met \/ near')
        /\ route_completed' \in BOOLEAN
    BY <1>1, <1>2, <1>3, <1>8, <2>1 DEF Simulation!Passes
  <2>. QED BY <1>8, <2>2 DEF FrameTyped, Simulation!Passes, Simulation!Looping,
           Simulation!StepDone, Simulation!input
<1>. QED BY <1>4, <1>5, <1>6, <1>7, <1>8

(* And it is in time, if the robot moves as commanded and nothing is near. *)
LEMMA FramesInTime ==
  ASSUME NEW b, WalkInv(b), InBudget(b),
         \/ Simulation!Replans \/ Simulation!MovesOn \/ Simulation!Dwells
         \/ Simulation!Passes \/ Simulation!HoldsEnd,
         Simulation!Exact, ~met', ~route_completed'
  PROVE  OnTime(b)'
<1>1. FrameTyped BY FramesAreTyped
<1>2. near => met BY DEF InBudget
<1>3. CASE Simulation!Replans BY <1>2, <1>3 DEF Simulation!Replans, Simulation!StepHolds
<1>4. CASE Simulation!HoldsEnd BY <1>4 DEF Simulation!HoldsEnd, Simulation!controller
<1>5. ASSUME Simulation!MovesOn \/ Simulation!Dwells \/ Simulation!Passes PROVE OnTime(b)
  BY <1>5 DEF InBudget, Simulation!MovesOn, Simulation!Dwells, Simulation!Passes,
     Simulation!StepMoves, Simulation!StepHolds
<1>. QED BY <1>3, <1>4, <1>5, MovesInTime, DwellsInTime, PassesInTime

LEMMA BudgetStep ==
  ASSUME NEW b, WalkInv(b), InBudget(b), [Simulation!Next]_Simulation!vars
  PROVE  InBudget(b)'
<1>1. /\ run_mission \in RunMission /\ run_request \in RunRequest
      /\ adapter \in Simulation!AdapterState
      /\ executed_steps \in 0..Simulation!EffectiveSteps /\ distance \in Nat
      /\ near \in BOOLEAN /\ met \in BOOLEAN /\ route_completed \in BOOLEAN /\ (near => met)
  BY DEF InBudget
<1>2. Simulation!EffectiveSteps \in Nat BY <1>1, BudgetIs DEF WalkInv
<1>3. ASSUME UNCHANGED <<run_mission, run_request>>
      PROVE  /\ Simulation!EffectiveSteps' = Simulation!EffectiveSteps
             /\ Simulation!Exact' = Simulation!Exact
  BY <1>3 DEF Simulation!EffectiveSteps, Simulation!EstimatedSteps, Simulation!MotionSteps,
     Simulation!DwellSteps, Simulation!Slack, Simulation!DetourPoints, Simulation!Legs,
     Simulation!Route, Simulation!Exact, Simulation!backend
<1>4. CASE \/ Simulation!Replans \/ Simulation!MovesOn \/ Simulation!Dwells
           \/ Simulation!Passes \/ Simulation!HoldsEnd
  <2>1. FrameTyped BY <1>4, FramesAreTyped
  <2>2. executed_steps' \in 0..Simulation!EffectiveSteps BY <1>1, <1>2, <2>1 DEF FrameTyped
  <2>3. met' \in BOOLEAN /\ (near' => met') BY <1>1, <2>1 DEF FrameTyped
  <2>4. Simulation!Exact /\ ~met' /\ ~route_completed' => OnTime(b)' BY <1>4, FramesInTime
  <2>. QED BY <1>1, <1>3, <2>1, <2>2, <2>3, <2>4 DEF InBudget, FrameTyped
<1>5. ASSUME UNCHANGED <<run_mission, run_request, Simulation!controller, distance,
                         executed_steps>>
      PROVE  OnTime(b)' = OnTime(b)
  BY <1>5 DEF OnTime, Frames, HeldHere, Simulation!controller, Simulation!Waypoint,
     Simulation!Route, Simulation!Legs
<1>6. CASE Simulation!Initializes \/ Simulation!LoadsScene \/ Simulation!StepRaises
  <2>1. /\ UNCHANGED <<run_mission, run_request, Simulation!controller, distance,
                       executed_steps, near, met>>
        /\ run_pc' \in {"load", "reset", "raised"} /\ adapter' \in Simulation!AdapterState
        /\ run_pc' # "raised" => ~met
    BY <1>1, <1>6 DEF InBudget, Simulation!Initializes, Simulation!LoadsScene,
                      Simulation!StepRaises,
       Simulation!Fails, Simulation!input, Simulation!world, Simulation!AdapterState
  <2>2. route_completed' = route_completed BY <2>1 DEF Simulation!controller
  <2>. QED BY <1>1, <1>3, <1>5, <2>1, <2>2 DEF InBudget
<1>7. CASE Simulation!Resets
  <2>1. /\ UNCHANGED <<run_mission, run_request, Simulation!controller, distance, executed_steps>>
        /\ run_pc' = "loop" /\ adapter' = "running" /\ near' \in BOOLEAN /\ met' = near'
        /\ ~met
    BY <1>7 DEF InBudget, Simulation!Resets, Simulation!input
  <2>2. route_completed' = route_completed BY <2>1 DEF Simulation!controller
  <2>3. Simulation!Exact /\ ~route_completed => OnTime(b)' BY <1>5, <2>1 DEF InBudget
  <2>4. met' \in BOOLEAN /\ (near' => met') BY <2>1
  <2>. QED BY <1>1, <1>3, <2>1, <2>2, <2>3, <2>4 DEF InBudget, Simulation!AdapterState
<1>8. CASE Simulation!Ends
  <2>1. /\ UNCHANGED <<run_mission, run_request, Simulation!controller, distance, executed_steps,
                       near, met, adapter>>
        /\ run_pc' = "summary" /\ executed_steps = Simulation!EffectiveSteps
    BY <1>8 DEF Simulation!Ends, Simulation!input, Simulation!world
  <2>2. route_completed' = route_completed BY <2>1 DEF Simulation!controller
  <2>. QED BY <1>1, <1>3, <1>5, <2>1, <2>2 DEF InBudget
<1>9. CASE Simulation!Closes
  <2>1. /\ UNCHANGED <<run_mission, run_request, Simulation!controller, distance, executed_steps,
                       near, met>>
        /\ adapter' \in {"stopped", "error"} /\ run_pc' \in {"done", "failed"}
        /\ run_pc' = "done" => executed_steps = Simulation!EffectiveSteps
    BY <1>9 DEF InBudget, Simulation!Closes, Simulation!Closed, Simulation!input, Simulation!world
  <2>2. route_completed' = route_completed BY <2>1 DEF Simulation!controller
  <2>3. adapter' \in Simulation!AdapterState BY <2>1 DEF Simulation!AdapterState
  <2>. QED BY <1>1, <1>3, <1>5, <2>1, <2>2, <2>3 DEF InBudget
<1>10. CASE UNCHANGED Simulation!vars
  <2>1. UNCHANGED <<run_mission, run_request, run_pc, adapter, Simulation!controller, distance,
                    executed_steps, near, met, route_completed>>
    BY <1>10 DEF Simulation!vars, Simulation!controller
  <2>. QED BY <1>3, <1>5, <2>1 DEF InBudget
<1>. QED BY <1>4, <1>6, <1>7, <1>8, <1>9, <1>10 DEF Simulation!Next

LEMMA InitBudget ==
  ASSUME NEW b, WalkInv(b), Simulation!Init PROVE InBudget(b)
<1>1. /\ run_mission \in RunMission /\ run_request \in RunRequest
      /\ run_pc = "initialize" /\ adapter = "created" /\ route_index = 1
      /\ route_completed = FALSE /\ distance = Simulation!Route[1].length /\ near = FALSE
      /\ met = FALSE /\ executed_steps = 0
  BY DEF Simulation!Init
<1>2. /\ Simulation!EffectiveSteps \in Nat /\ Simulation!Legs \in Seq(Nat)
      /\ Len(Simulation!Legs) \in Nat \ {0} /\ Simulation!Legs[1] = distance
  <2>1. 1 \in 1..Len(Simulation!Route) BY DEF WalkInv
  <2>. QED BY <1>1, <2>1, BudgetIs DEF WalkInv
<1>3. 1 \in 1..Len(Simulation!Legs) /\ distance \in Nat BY <1>2, ElementOfSeq
<1>4. Simulation!UpTo(Simulation!Legs)[1] = distance
  <2>1. /\ Simulation!UpTo(Simulation!Legs)[0] = 0
        /\ Simulation!UpTo(Simulation!Legs)[1] =
             Simulation!UpTo(Simulation!Legs)[1 - 1] + Simulation!Legs[1]
    BY <1>2, <1>3, TotalsAre
  <2>. QED BY <1>2, <1>3, <2>1
<1>5. RunSpeed \in Nat /\ Frames(b) \in Nat BY <1>1, <1>3, OnTimeTypes, RoutesFit
<1>6. OnTime(b)
  <2>1. RunSpeed * executed_steps = 0 /\ RunSpeed * Frames(b) \in Nat BY <1>1, <1>5
  <2>2. Simulation!UpTo(Simulation!Legs)[route_index] = distance BY <1>1, <1>4
  <2>. DEFINE x == RunSpeed * Frames(b)  y == RunSpeed * executed_steps
  <2>3. x \in Nat /\ y = 0 BY <2>1
  <2>. HIDE DEF x, y
  <2>4. y <= distance - distance + x BY <1>3, <2>3
  <2>. QED BY <2>2, <2>4 DEF OnTime, x, y
<1>7. executed_steps \in 0..Simulation!EffectiveSteps BY <1>1, <1>2
<1>8. /\ run_pc \notin {"summary", "done", "failed"}
      /\ run_pc \in {"initialize", "load", "reset", "loop", "summary", "raised", "done", "failed"}
      /\ adapter \in Simulation!AdapterState
  BY <1>1 DEF Simulation!AdapterState
<1>. QED BY <1>1, <1>3, <1>6, <1>7, <1>8 DEF InBudget

(* An exact walk that has used up the extended steps is over.              *)
LEMMA BudgetImplies ==
  ASSUME NEW b, WalkInv(b), InBudget(b) PROVE Simulation!RunEndsWell
<1>. SUFFICES ASSUME run_pc = "done", Simulation!Exact, ~met, run_request.auto_extend,
                     Simulation!EstimatedSteps <= MaxRunSteps, ~route_completed
              PROVE  FALSE
  BY DEF InBudget, Simulation!RunEndsWell
<1>. DEFINE U == Simulation!UpTo(Simulation!Legs)  K == Simulation!UpTo(run_mission.dwell)
            n == Len(Simulation!Route)  m == Len(run_mission.dwell)  i == route_index
            T == U[n]  W == K[m]  e == executed_steps
<1>1. /\ run_mission \in RunMission /\ run_request \in RunRequest /\ distance \in Nat
      /\ e = Simulation!EffectiveSteps /\ OnTime(b)
  BY DEF InBudget
<1>2. /\ run_mission.dwell \in Seq(Nat) /\ n \in Nat \ {0} /\ m \in Nat
      /\ Simulation!Legs \in Seq(Nat) /\ Len(Simulation!Legs) = n
      /\ Simulation!SumOf(Simulation!Legs) = T /\ Simulation!DwellSteps = W
      /\ T \in Nat /\ W \in Nat /\ e \in Nat
      /\ e >= (T + RunSpeed - 1) \div RunSpeed + W + 8 * n
  <2>1. b \in Numbering(run_mission) BY DEF WalkInv
  <2>2. Simulation!SumOf(Simulation!Legs) = T /\ Simulation!DwellSteps = W
    BY <1>1, <2>1, BudgetIs DEF Simulation!SumOf, Simulation!DwellSteps
  <2>. HIDE DEF T, W, n
  <2>. QED BY <1>1, <2>1, <2>2, BudgetIs, LenProperties DEF n
<1>3. RunSpeed \in Nat \ {0} BY RoutesFit
<1>4. /\ U[i] \in Nat /\ K[b[i]] \in Nat /\ HeldHere \in Nat /\ Frames(b) \in Nat
  BY <1>1, OnTimeTypes
<1>5. i \in 1..n BY AtTarget
<1>6. U[i] <= T
  <2>1. i \in 0..n /\ n \in i..n BY <1>2, <1>5
  <2>. QED BY <1>2, <2>1, TotalsGrow
<1>7. K[b[i]] + HeldHere <= W
  <2>. DEFINE t == Simulation!Waypoint.target
  <2>1. b[i] \in 0..m
    <3>1. b \in [1..n + 1 -> 0..m] BY DEF WalkInv, Numbering, Simulation!Route
    <3>2. i \in 1..n + 1 BY <1>2, <1>5
    <3>. QED BY <3>1, <3>2
  <2>2. CASE ~Simulation!Waypoint.is_mission_target
    <3>1. m \in b[i]..m BY <1>2, <2>1
    <3>2. K[b[i]] <= W BY <1>2, <2>1, <3>1, TotalsGrow
    <3>. QED BY <1>4, <2>2, <3>2 DEF HeldHere
  <2>3. CASE Simulation!Waypoint.is_mission_target
    <3>1. t = b[i] + 1 /\ t \in Simulation!Targets BY <2>3, AtTarget
    <3>2. /\ held[t] <= run_mission.dwell[t] /\ held[t] \in Nat
          /\ run_mission.dwell[t] \in Nat
      BY <3>1, WalkTypes DEF DwellsAddUp
    <3>3. t \in 1..m BY <1>2, <3>1, LenProperties DEF Simulation!Targets
    <3>4. K[t] = K[t - 1] + run_mission.dwell[t] BY <1>2, <3>3, TotalsAre
    <3>5. t \in 0..m /\ m \in t..m BY <1>2, <3>3
    <3>6. K[t] <= W BY <1>2, <3>5, TotalsGrow
    <3>7. HeldHere = held[t] BY <2>3 DEF HeldHere
    <3>8. t - 1 = b[i] BY <2>1, <3>1
    <3>. HIDE DEF t, K, W, i
    <3>9. K[t] = K[b[i]] + run_mission.dwell[t] BY <3>4, <3>8
    <3>. DEFINE k == K[t]  l == K[b[i]]  h == held[t]  d == run_mission.dwell[t]
    <3>10. /\ k = l + d /\ k <= W /\ h <= d /\ HeldHere = h
           /\ l \in Nat /\ d \in Nat /\ h \in Nat /\ W \in Nat
      BY <1>2, <1>4, <3>2, <3>6, <3>7, <3>9
    <3>. HIDE DEF k, l, h, d
    <3>11. l + HeldHere <= W BY <3>10
    <3>. QED BY <3>11 DEF l
  <2>. QED BY <2>2, <2>3
<1>8. Frames(b) <= n + W
  <2>. DEFINE k == K[b[i]]
  <2>1. Frames(b) = (IF distance = 0 THEN i ELSE i - 1) + k + HeldHere BY DEF Frames
  <2>. HIDE DEF k, W, n, i
  <2>. QED BY <1>2, <1>4, <1>5, <1>7, <2>1 DEF k
<1>9. RunSpeed * e > T + RunSpeed * (n + W)
  <2>. HIDE DEF T, W, n, e
  <2>. QED BY <1>2, <1>3, Suffices
<1>10. RunSpeed * Frames(b) <= RunSpeed * (n + W)
  <2>. DEFINE f == Frames(b)  g == n + W
  <2>0. f \in Nat /\ g \in Nat /\ f <= g BY <1>2, <1>4, <1>8
  <2>1. f \in Nat /\ g \in Nat /\ g - f \in Nat /\ g = f + (g - f)
    <3>. HIDE DEF f, g
    <3>. QED BY <2>0
  <2>. HIDE DEF f, g
  <2>2. PICK k \in Nat : g = f + k BY <2>1
  <2>3. RunSpeed * g = RunSpeed * f + RunSpeed * k /\ RunSpeed * k \in Nat
        /\ RunSpeed * f \in Nat
    BY <1>3, <2>1, <2>2
  <2>. DEFINE x == RunSpeed * g  y == RunSpeed * f  z == RunSpeed * k
  <2>4. x = y + z /\ z \in Nat /\ y \in Nat BY <2>3
  <2>. HIDE DEF x, y, z
  <2>5. y <= x BY <2>4
  <2>. QED BY <2>5 DEF x, y, f, g
<1>. DEFINE p == RunSpeed * e  q == RunSpeed * Frames(b)  r == RunSpeed * (n + W)  u == U[i]
<1>11. p <= u - distance + q BY <1>1 DEF OnTime
<1>12. p \in Nat /\ q \in Nat /\ r \in Nat /\ u \in Nat
  <2>1. n + W \in Nat /\ e \in Nat BY <1>2
  <2>. HIDE DEF n, W, e
  <2>. QED BY <1>3, <1>4, <2>1
<1>13. p > T + r /\ q <= r /\ u <= T BY <1>6, <1>9, <1>10
<1>. HIDE DEF p, q, r, u, T
<1>. QED BY <1>1, <1>2, <1>11, <1>12, <1>13

(* So every variable of the run has its type.                              *)
LEMMA RunTyped ==
  ASSUME NEW b, WalkInv(b), InBudget(b) PROVE Simulation!TypeOK
<1>1. /\ run_mission.dwell \in Seq(Nat) /\ Len(run_mission.dwell) \in Nat
      /\ Simulation!Targets = 1..Len(run_mission.dwell)
  BY LenProperties DEF WalkInv, Simulation!Targets
<1>2. reached_targets \in Seq(Simulation!Targets)
  <2>. DEFINE s == reached_targets  n == Len(reached_targets)  m == Len(run_mission.dwell)
  <2>1. s \in Seq(Nat) /\ n \in Nat /\ \A i \in 1..n : s[i] = i
    BY WalkTypes DEF OnRoute
  <2>2. n <= m
    <3>1. CASE route_completed
      <4>1. route_index = Len(Simulation!Route) + 1 /\ b[route_index] = m
            /\ Len(Simulation!Route) \in Nat
        BY <3>1 DEF WalkInv, OnRoute, Numbering, Simulation!Route
      <4>. QED BY <1>1, <4>1 DEF WalkInv, OnRoute
    <3>2. CASE ~route_completed
      <4>1. b \in [1..Len(Simulation!Route) + 1 -> 0..m]
        BY DEF WalkInv, Numbering, Simulation!Route
      <4>2. /\ route_index \in 1..Len(Simulation!Route) + 1
            /\ Simulation!Waypoint.is_mission_target => b[route_index] + 1 \in 1..m
        BY <1>1, <3>2, AtTarget DEF WalkInv, OnRoute
      <4>3. b[route_index] \in 0..m BY <4>1, <4>2
      <4>. QED BY <1>1, <4>2, <4>3 DEF WalkInv, OnRoute
    <3>. QED BY <3>1, <3>2
  <2>3. \A i \in 1..n : s[i] \in Simulation!Targets BY <1>1, <2>1, <2>2
  <2>4. s = [i \in 1..n |-> s[i]] /\ s \in [1..n -> Simulation!Targets]
    BY <2>1, <2>3, LenProperties
  <2>. HIDE DEF s, n
  <2>. QED BY <2>1, <2>4, SeqDef DEF s
<1>3. /\ dwelled_targets \subseteq Simulation!Targets /\ dwell_remaining \in Nat
      /\ held \in [Simulation!Targets -> Nat]
      /\ route_index \in 1..Len(Simulation!Route) + 1
  BY DEF WalkInv, DwellsAddUp, OnRoute
<1>. QED BY <1>2, <1>3 DEF InBudget, Simulation!TypeOK

(* A run walks its route, for one numbering of its targets, in time.       *)
RunInv == \E b : WalkInv(b) /\ InBudget(b)

LEMMA RunInvariant == Simulation!Spec => []RunInv
<1>1. Simulation!Init => RunInv BY InitWalk, InitBudget DEF RunInv
<1>2. RunInv /\ [Simulation!Next]_Simulation!vars => RunInv' BY WalkStepAt, BudgetStep DEF RunInv
<1>. QED BY <1>1, <1>2, PTL DEF Simulation!Spec

-----------------------------------------------------------------------------
(* BACKENDS.                                                               *)

(* A backend with a scene has it, MuJoCo as its model and the robot at     *)
(* rest where it starts.                                                   *)
HasItsScene ==
  /\ state \in {"scene_loaded", "running"} =>
       backend_scene \in SceneProfile /\ (backend = "mujoco" => model = backend_scene)
  /\ state = "scene_loaded" /\ backend = "mujoco" => position = 0 /\ velocity = 0

(* One that runs does so in the scene it was reset in, and Webots has kept *)
(* a frame of every step since.                                            *)
RunsInIt ==
  state = "running" => backend_scene = begun /\ (backend = "webots" => commands = walked)

(* Inductive, with the types its parts need.                               *)
BackendInv ==
  /\ backend \in Backends!Backend /\ position \in Nat /\ velocity \in {0, Backends!Speed}
  /\ walked \in Seq({0, Backends!Speed})
  /\ HasItsScene /\ RunsInIt

(* A call that fails and a close keep it, and so does every call.          *)
LEMMA FailureKeeps ==
  ASSUME BackendInv, NEW end \in {state, "error"}, Backends!Fails(end)
  PROVE  BackendInv'
BY DEF Backends!Fails, BackendInv, HasItsScene, RunsInIt, Backends!Backend, Backends!Speed

LEMMA CloseKeeps == ASSUME BackendInv, Backends!Close PROVE BackendInv'
<1>1. CASE Backends!RunsBundle /\ Backends!Fails("error") BY <1>1, FailureKeeps
<1>2. CASE /\ state' = "stopped"
           /\ UNCHANGED <<backend, position, velocity, walked>>
  BY <1>2 DEF BackendInv, HasItsScene, RunsInIt
<1>. QED BY <1>1, <1>2 DEF Backends!Close

LEMMA BackendStep == ASSUME BackendInv, [Backends!Next]_Backends!vars PROVE BackendInv'
<1>1. CASE UNCHANGED Backends!vars BY <1>1 DEF Backends!vars, BackendInv, HasItsScene, RunsInIt
<1>2. ASSUME NEW p \in Profile, Backends!Initialize(p) PROVE BackendInv'
  <2>1. CASE backend # "minimal" /\ Backends!Fails("error") BY <2>1, FailureKeeps
  <2>2. CASE /\ state' = "initialized" /\ UNCHANGED <<backend, walked>>
             /\ IF backend = "mujoco" THEN position' = 0 /\ velocity' = 0
                                      ELSE UNCHANGED <<position, velocity>>
    BY <2>2 DEF BackendInv, HasItsScene, RunsInIt
  <2>. QED BY <1>2, <2>1, <2>2 DEF Backends!Initialize
<1>3. ASSUME NEW s \in SceneProfile, Backends!LoadScene(s) PROVE BackendInv'
  <2>1. CASE Backends!Fails(state) BY <2>1, FailureKeeps
  <2>2. CASE /\ state' = "scene_loaded" /\ backend_scene' = s /\ UNCHANGED <<backend, walked>>
             /\ model' = IF backend = "mujoco" THEN s ELSE model
             /\ IF backend = "mujoco" THEN position' = 0 /\ velocity' = 0
                                      ELSE UNCHANGED <<position, velocity>>
    BY <2>2 DEF BackendInv, HasItsScene, RunsInIt
  <2>. QED BY <1>3, <2>1, <2>2 DEF Backends!LoadScene
<1>4. ASSUME Backends!Reset PROVE BackendInv'
  <2>1. CASE Backends!Fails(state) BY <2>1, FailureKeeps
  <2>2. CASE /\ state = "scene_loaded" /\ state' = "running" /\ position' = 0 /\ velocity' = 0
             /\ commands' = <<>> /\ walked' = <<>> /\ begun' = backend_scene
             /\ UNCHANGED <<backend, backend_scene, model>>
    BY <2>2 DEF BackendInv, HasItsScene, RunsInIt
  <2>3. CASE /\ state = "scene_loaded" /\ position' = 0 /\ velocity' = 0
             /\ UNCHANGED <<backend, state, backend_scene, model, walked>>
    BY <2>3 DEF BackendInv, HasItsScene, RunsInIt
  <2>. QED BY <1>4, <2>1, <2>2, <2>3 DEF Backends!Reset
<1>5. ASSUME NEW a \in Backends!SafeAction, Backends!Step(a) PROVE BackendInv'
  <2>1. CASE Backends!Fails(state) BY <2>1, FailureKeeps
  <2>2. CASE /\ state = "running" /\ velocity' = Backends!Commanded(a)
             /\ \E drift \in Backends!Drift(velocity') : position' = position + velocity' + drift
             /\ commands' = IF backend = "webots" THEN Append(commands, velocity') ELSE commands
             /\ walked' = Append(walked, velocity')
             /\ UNCHANGED <<backend, state, backend_scene, model, begun>>
    <3>1. velocity' \in {0, Backends!Speed} /\ velocity' \in Nat BY <2>2 DEF Backends!Commanded,
         Backends!Speed
    <3>2. PICK drift \in Backends!Drift(velocity') : position' = position + velocity' + drift
      BY <2>2
    <3>3. drift \in Nat
      <4>1. drift \in {0, velocity, velocity'} BY <3>2 DEF Backends!Drift
      <4>2. velocity \in Nat BY DEF BackendInv, Backends!Speed
      <4>. QED BY <3>1, <4>1, <4>2
    <3>4. position' \in Nat
      <4>1. position \in Nat /\ velocity' \in Nat BY <3>1 DEF BackendInv
      <4>2. \A x, y, z \in Nat : x + y + z \in Nat OBVIOUS
      <4>. QED BY <3>2, <3>3, <4>1, <4>2, Zenon
    <3>5. walked' \in Seq({0, Backends!Speed}) BY <2>2, <3>1, AppendProperties DEF BackendInv
    <3>6. HasItsScene' BY <2>2 DEF BackendInv, HasItsScene
    <3>7. RunsInIt' BY <2>2 DEF BackendInv, RunsInIt
    <3>. QED BY <2>2, <3>1, <3>4, <3>5, <3>6, <3>7 DEF BackendInv
  <2>. QED BY <1>5, <2>1, <2>2 DEF Backends!Step
<1>. QED BY <1>1, <1>2, <1>3, <1>4, <1>5, CloseKeeps DEF Backends!Next

LEMMA InitBackend == Backends!Init => BackendInv
BY DEF Backends!Init, BackendInv, HasItsScene, RunsInIt

(* What a step may do: the parts of MovesByAcceptedSteps but for the one   *)
(* about rejected actions.                                                 *)
FailureMovesNothing ==
  ~ok' => /\ UNCHANGED <<backend_scene, model, position, velocity, commands, last_output>>
          /\ state' \in {state, "error"}
OnlyStepsMove == position' > position => Len(walked') = Len(walked) + 1
CloseHandsOver ==
  state = "running" /\ last_output' # last_output /\ state' = "stopped" =>
    last_output' = [scene |-> begun, commands |-> walked]
MovesWell == FailureMovesNothing /\ OnlyStepsMove /\ CloseHandsOver

LEMMA FailedMovesWell ==
  ASSUME BackendInv, NEW end \in {state, "error"}, Backends!Fails(end)
  PROVE  MovesWell
BY DEF Backends!Fails, BackendInv, MovesWell, FailureMovesNothing, OnlyStepsMove, CloseHandsOver

LEMMA StepsMoveWell == ASSUME BackendInv, [Backends!Next]_Backends!vars PROVE MovesWell
<1>0. position \in Nat /\ walked \in Seq({0, Backends!Speed}) BY DEF BackendInv
<1>1. CASE UNCHANGED Backends!vars
  BY <1>0, <1>1 DEF Backends!vars, MovesWell, FailureMovesNothing, OnlyStepsMove, CloseHandsOver
<1>2. ASSUME NEW p \in Profile, Backends!Initialize(p) PROVE MovesWell
  <2>1. CASE backend # "minimal" /\ Backends!Fails("error") BY <2>1, FailedMovesWell
  <2>2. CASE /\ ok' = TRUE /\ UNCHANGED last_output
             /\ IF backend = "mujoco" THEN position' = 0 ELSE UNCHANGED position
    BY <1>0, <2>2 DEF MovesWell, FailureMovesNothing, OnlyStepsMove, CloseHandsOver
  <2>. QED BY <1>2, <2>1, <2>2 DEF Backends!Initialize
<1>3. ASSUME NEW s \in SceneProfile, Backends!LoadScene(s) PROVE MovesWell
  <2>1. CASE Backends!Fails(state) BY <2>1, FailedMovesWell
  <2>2. CASE /\ ok' = TRUE /\ UNCHANGED last_output
             /\ IF backend = "mujoco" THEN position' = 0 ELSE UNCHANGED position
    BY <1>0, <2>2 DEF MovesWell, FailureMovesNothing, OnlyStepsMove, CloseHandsOver
  <2>. QED BY <1>3, <2>1, <2>2 DEF Backends!LoadScene
<1>4. ASSUME Backends!Reset PROVE MovesWell
  <2>1. CASE Backends!Fails(state) BY <2>1, FailedMovesWell
  <2>2. CASE state = "scene_loaded" /\ ok' = TRUE /\ position' = 0
    BY <1>0, <2>2 DEF MovesWell, FailureMovesNothing, OnlyStepsMove, CloseHandsOver
  <2>3. CASE /\ state = "scene_loaded" /\ Backends!Shows /\ position' = 0 /\ velocity' = 0
             /\ UNCHANGED <<state, backend_scene, model, commands, last_output>>
    <3>1. position = 0 /\ velocity = 0 BY <2>3 DEF Backends!Shows, BackendInv, HasItsScene
    <3>. QED BY <2>3, <3>1 DEF MovesWell, FailureMovesNothing, OnlyStepsMove, CloseHandsOver
  <2>. QED BY <1>4, <2>1, <2>2, <2>3 DEF Backends!Reset
<1>5. ASSUME NEW a \in Backends!SafeAction, Backends!Step(a) PROVE MovesWell
  <2>1. CASE Backends!Fails(state) BY <2>1, FailedMovesWell
  <2>2. CASE /\ ok' = TRUE /\ walked' = Append(walked, velocity')
             /\ velocity' = Backends!Commanded(a)
             /\ UNCHANGED last_output
    <3>1. velocity' \in {0, Backends!Speed} BY <2>2 DEF Backends!Commanded
    <3>2. Len(walked') = Len(walked) + 1 BY <1>0, <2>2, <3>1, AppendProperties
    <3>. QED BY <2>2, <3>2 DEF MovesWell, FailureMovesNothing, OnlyStepsMove, CloseHandsOver
  <2>. QED BY <1>5, <2>1, <2>2 DEF Backends!Step
<1>6. ASSUME Backends!Close PROVE MovesWell
  <2>1. CASE Backends!RunsBundle /\ Backends!Fails("error") BY <2>1, FailedMovesWell
  <2>2. CASE /\ ok' = TRUE /\ UNCHANGED position
             /\ last_output' \in IF Backends!RunsBundle THEN {Backends!Bundle, last_output}
                                                       ELSE {last_output}
    <3>1. state = "running" /\ last_output' # last_output =>
            last_output' = [scene |-> begun, commands |-> walked]
      BY <2>2 DEF Backends!RunsBundle, Backends!Bundle, BackendInv, RunsInIt
    <3>. QED BY <1>0, <2>2, <3>1 DEF MovesWell, FailureMovesNothing, OnlyStepsMove, CloseHandsOver
  <2>. QED BY <1>6, <2>1, <2>2 DEF Backends!Close
<1>. QED BY <1>1, <1>2, <1>3, <1>4, <1>5, <1>6 DEF Backends!Next

LEMMA RejectedMovesNothing ==
  ASSUME NEW a \in Backends!SafeAction, a.decision = "rejected", Backends!Step(a)
  PROVE  UNCHANGED <<position, velocity, commands>>
BY DEF Backends!Step, Backends!Maps, Backends!Fails

(* However the calls come: one that fails moves nothing, only an accepted  *)
(* step moves the robot, and Webots is handed the steps of its run.        *)
LEMMA MovesAreAccepted == Backends!Spec => Backends!MovesByAcceptedSteps
<1>. DEFINE MovesAccepted ==
       /\ ~ok' => /\ UNCHANGED <<backend_scene, model, position, velocity, commands, last_output>>
                  /\ state' \in {state, "error"}
       /\ position' > position => Len(walked') = Len(walked) + 1
       /\ \A a \in Backends!SafeAction :
            a.decision = "rejected" /\ Backends!Step(a) =>
              UNCHANGED <<position, velocity, commands>>
       /\ state = "running" /\ last_output' # last_output /\ state' = "stopped" =>
            last_output' = [scene |-> begun, commands |-> walked]
<1>1. BackendInv /\ [Backends!Next]_Backends!vars => MovesAccepted
  BY StepsMoveWell, RejectedMovesNothing
  DEF MovesWell, FailureMovesNothing, OnlyStepsMove, CloseHandsOver
<1>2. BackendInv /\ [Backends!Next]_Backends!vars => [MovesAccepted]_Backends!vars BY <1>1
<1>3. Backends!MovesByAcceptedSteps <=> [][MovesAccepted]_Backends!vars
  BY DEF Backends!MovesByAcceptedSteps
<1>. HIDE DEF MovesAccepted
<1>. QED BY <1>2, <1>3, InitBackend, BackendStep, PTL DEF Backends!Spec

(* The root of a number, rounded down: it exists, and is the largest whose *)
(* square is not larger.                                                   *)
LEMMA RootIs ==
  ASSUME NEW n \in Nat
  PROVE  LET d == Backends!Root(n) IN d \in Nat /\ d * d <= n /\ n < (d + 1) * (d + 1)
<1>. DEFINE Over == {d \in Nat : n < (d + 1) * (d + 1)}
<1>1. n \in Over
  <2>1. (n + 1) * (n + 1) = n * n + n + n + 1 BY SMT
  <2>2. n * n \in Nat BY SMT
  <2>. QED BY <2>1, <2>2
<1>2. PICK m \in Over : \A d \in Over : m <= d BY <1>1, Tasks!LeastOf
<1>3. m \in Nat /\ n < (m + 1) * (m + 1) BY <1>2
<1>4. m * m <= n
  <2>1. CASE m = 0 BY <2>1
  <2>2. CASE m # 0
    <3>1. m - 1 \in Nat /\ m - 1 \notin Over BY <1>2, <1>3, <2>2
    <3>2. ~(n < ((m - 1) + 1) * ((m - 1) + 1)) BY <3>1
    <3>3. (m - 1) + 1 = m BY <1>3
    <3>. QED BY <1>3, <3>2, <3>3
  <2>. QED BY <2>1, <2>2
<1>5. m \in 0..n
  <2>1. m * m >= m BY <1>3, SMT
  <2>2. m * m \in Nat BY <1>3, SMT
  <2>. QED BY <1>3, <1>4, <2>1, <2>2
<1>. HIDE DEF Over
<1>6. \E d \in 0..n : d * d <= n /\ n < (d + 1) * (d + 1) BY <1>3, <1>4, <1>5
<1>7. LET d == Backends!Root(n) IN d \in 0..n /\ d * d <= n /\ n < (d + 1) * (d + 1)
  BY <1>6 DEF Backends!Root
<1>. QED BY <1>7

LEMMA SquareGrows ==
  ASSUME NEW a \in Nat, NEW b \in Nat, a <= b PROVE a * a <= b * b
<1>1. a * a <= a * b BY SMT
<1>2. a * b <= b * b BY SMT
<1>3. a * a \in Nat /\ a * b \in Nat /\ b * b \in Nat BY SMT
<1>. QED BY <1>1, <1>2, <1>3

(* A number whose square is below that of the next root is not above it.   *)
LEMMA RootBounds ==
  ASSUME NEW a \in Nat, NEW b \in Nat, NEW n \in Nat, a * a <= n, n < (b + 1) * (b + 1)
  PROVE  a <= b
<1>. SUFFICES ASSUME b + 1 <= a PROVE FALSE OBVIOUS
<1>1. (b + 1) * (b + 1) <= a * a BY SquareGrows
<1>2. a * a \in Nat /\ (b + 1) * (b + 1) \in Nat BY SMT
<1>. QED BY <1>1, <1>2

LEMMA RootGrows ==
  ASSUME NEW m \in Nat, NEW n \in Nat, m <= n PROVE Backends!Root(m) <= Backends!Root(n)
<1>. DEFINE a == Backends!Root(m)  b == Backends!Root(n)
<1>1. a \in Nat /\ a * a <= m /\ b \in Nat /\ n < (b + 1) * (b + 1) BY RootIs
<1>. HIDE DEF a, b
<1>2. a * a \in Nat /\ (b + 1) * (b + 1) \in Nat BY <1>1, SMT
<1>3. a * a <= n BY <1>1, <1>2
<1>4. a <= b BY <1>1, <1>3, RootBounds
<1>. QED BY <1>4 DEF a, b

LEMMA RootOfSquare ==
  ASSUME NEW d \in Nat PROVE Backends!Root(d * d) = d
<1>. DEFINE r == Backends!Root(d * d)
<1>1. d * d \in Nat BY SMT
<1>2. r \in Nat /\ r * r <= d * d /\ d * d < (r + 1) * (r + 1) BY <1>1, RootIs
<1>. HIDE DEF r
<1>3. d <= r BY <1>1, <1>2, RootBounds
<1>4. d * d < (d + 1) * (d + 1)
  <2>1. (d + 1) * (d + 1) = d * d + d + d + 1 BY SMT
  <2>. QED BY <1>1, <2>1
<1>5. r <= d BY <1>1, <1>2, <1>4, RootBounds
<1>6. r = d BY <1>2, <1>3, <1>5
<1>. QED BY <1>6 DEF r

(* Squares: of a difference either way, and of the part nearest to zero.   *)
LEMMA SquareOfAbs ==
  ASSUME NEW d \in Int
  PROVE  /\ Backends!Abs(d) \in Nat /\ d * d = Backends!Abs(d) * Backends!Abs(d)
         /\ d * d \in Nat /\ Backends!Root(d * d) = Backends!Abs(d)
<1>1. CASE d >= 0
  <2>1. Backends!Abs(d) = d /\ d \in Nat BY <1>1 DEF Backends!Abs
  <2>2. d * d \in Nat BY <2>1, SMT
  <2>. QED BY <2>1, <2>2, RootOfSquare
<1>2. CASE d < 0
  <2>1. Backends!Abs(d) = -d /\ -d \in Nat BY <1>2 DEF Backends!Abs
  <2>2. (-d) * (-d) = d * d BY SMT
  <2>3. (-d) * (-d) \in Nat BY <2>1, SMT
  <2>4. Backends!Root((-d) * (-d)) = -d BY <2>1, RootOfSquare
  <2>. QED BY <2>1, <2>2, <2>3, <2>4
<1>. QED BY <1>1, <1>2

LEMMA SquaresCompare ==
  ASSUME NEW d \in Int, NEW e \in Int, Backends!Abs(d) <= Backends!Abs(e)
  PROVE  d * d \in Nat /\ e * e \in Nat /\ d * d <= e * e
BY SquareOfAbs, SquareGrows

(* The distance in two directions: it is a natural number, not below that  *)
(* in the first, grows with both, and is the first if the second is none.  *)
LEMMA NormIs ==
  ASSUME NEW d \in Int, NEW h \in Int
  PROVE  /\ Backends!Norm(d, h) \in Nat /\ Backends!Abs(d) <= Backends!Norm(d, h)
         /\ h = 0 => Backends!Norm(d, h) = Backends!Abs(d)
<1>1. d * d \in Nat /\ h * h \in Nat /\ d * d + h * h \in Nat /\ d * d <= d * d + h * h
  BY SquareOfAbs
<1>2. Backends!Norm(d, h) = Backends!Root(d * d + h * h) BY DEF Backends!Norm
<1>3. Backends!Root(d * d) <= Backends!Root(d * d + h * h) BY <1>1, RootGrows
<1>4. Backends!Root(d * d) = Backends!Abs(d) BY SquareOfAbs
<1>5. Backends!Root(d * d + h * h) \in Nat BY <1>1, RootIs
<1>6. h = 0 => d * d + h * h = d * d BY <1>1
<1>. QED BY <1>2, <1>3, <1>4, <1>5, <1>6

LEMMA NormGrows ==
  ASSUME NEW d \in Int, NEW h \in Int, NEW e \in Int, NEW k \in Int,
         Backends!Abs(d) <= Backends!Abs(e), Backends!Abs(h) <= Backends!Abs(k)
  PROVE  Backends!Norm(d, h) <= Backends!Norm(e, k)
<1>1. /\ d * d \in Nat /\ e * e \in Nat /\ d * d <= e * e
      /\ h * h \in Nat /\ k * k \in Nat /\ h * h <= k * k
  BY SquaresCompare
<1>2. d * d + h * h \in Nat /\ e * e + k * k \in Nat /\ d * d + h * h <= e * e + k * k
  BY <1>1
<1>. QED BY <1>2, RootGrows DEF Backends!Norm

(* What is clamped to an extent is its nearest place.                      *)
LEMMA ClampIsNearest ==
  ASSUME NEW v \in Int, NEW c \in Int, NEW r \in Nat
  PROVE  LET n == Backends!Clamp(v, c, r)
         IN /\ n \in (c - r)..(c + r)
            /\ \A p \in (c - r)..(c + r) : Backends!Abs(v - n) <= Backends!Abs(p - v)
            /\ v = c => n = c
            /\ Backends!Abs(v - n) = Backends!Positive(Backends!Abs(c - v) - r)
BY DEF Backends!Clamp, Backends!Abs, Backends!Positive

(* The triangle: from d, h to the centre it is no farther than from there  *)
(* to a place u, w away from the centre, and on from that place, with r at *)
(* least as long as u, w.                                                  *)
LEMMA Triangle ==
  ASSUME NEW d \in Int, NEW h \in Int, NEW u \in Int, NEW w \in Int, NEW r \in Nat,
         u * u + w * w <= r * r
  PROVE  Backends!Norm(d, h) - r <= Backends!Norm(d + u, h + w)
<1>. DEFINE a == d + u  b == h + w
            e == Backends!Norm(a, b)  n == Backends!Norm(d, h)
            q == e + 1
            dot == a * u + b * w   cross == a * w - b * u
            s == a * a + b * b     t == u * u + w * w
<1>1. a \in Int /\ b \in Int /\ dot \in Int /\ cross \in Int OBVIOUS
<1>2. s \in Nat /\ t \in Nat /\ d * d + h * h \in Nat
  <2>1. a * a \in Nat /\ b * b \in Nat /\ u * u \in Nat /\ w * w \in Nat /\ d * d \in Nat
        /\ h * h \in Nat
    BY <1>1, SquareOfAbs
  <2>. QED BY <2>1
<1>3. e \in Nat /\ s < q * q
  BY <1>1, <1>2, RootIs DEF Backends!Norm
<1>4. n \in Nat /\ n * n <= d * d + h * h
  BY <1>2, RootIs DEF Backends!Norm
<1>5. q \in Nat BY <1>3
<1>6. d * d + h * h = s - (dot + dot) + t
  BY <1>1, SMT
<1>7. dot * dot + cross * cross = s * t
  BY <1>1, SMT
<1>. HIDE DEF a, b, e, n, q, dot, cross, s, t
<1>8. dot * dot <= (q * r) * (q * r)
  <2>1. cross * cross \in Nat /\ dot * dot \in Nat BY <1>1, SquareOfAbs
  <2>2. dot * dot <= s * t BY <1>2, <1>7, <2>1
  <2>3. s * t <= (q * q) * (r * r)
    <3>1. t <= r * r /\ r * r \in Nat /\ q * q \in Nat /\ s <= q * q BY <1>2, <1>3, <1>5, SMT DEF t
    <3>2. s * t <= s * (r * r) BY <1>2, <3>1, SMT
    <3>3. s * (r * r) <= (q * q) * (r * r) BY <1>2, <3>1, SMT
    <3>. QED BY <1>2, <3>1, <3>2, <3>3
  <2>4. (q * q) * (r * r) = (q * r) * (q * r) BY <1>5, SMT
  <2>5. s * t \in Nat BY <1>2
  <2>6. (q * r) * (q * r) \in Nat
    <3>1. q * r \in Nat BY <1>5
    <3>. QED BY <3>1
  <2>. DEFINE A == dot * dot  B == s * t  C == (q * r) * (q * r)
  <2>7. A \in Nat /\ B \in Nat /\ C \in Nat /\ A <= B BY <2>1, <2>2, <2>5, <2>6
  <2>8. B <= C
    <3>1. (q * q) * (r * r) = C BY <2>4
    <3>. HIDE DEF C
    <3>. QED BY <2>3, <3>1, Zenon
  <2>. HIDE DEF A, B, C
  <2>9. A <= C BY <2>7, <2>8
  <2>. QED BY <2>9 DEF A, C
<1>9. -dot <= q * r
  <2>1. q * r \in Nat BY <1>5
  <2>2. Backends!Abs(dot) \in Nat /\ Backends!Abs(dot) * Backends!Abs(dot) <= (q * r) * (q * r)
    BY <1>1, <1>8, SquareOfAbs
  <2>3. (q * r) * (q * r) \in Nat /\ (q * r) * (q * r) < (q * r + 1) * (q * r + 1)
    <3>. DEFINE m == q * r
    <3>1. m * m \in Nat /\ (m + 1) * (m + 1) = m * m + m + m + 1 BY <2>1, SMT
    <3>. QED BY <2>1, <3>1
  <2>4. Backends!Abs(dot) <= q * r BY <2>1, <2>2, <2>3, RootBounds
  <2>. QED BY <1>1, <2>1, <2>4 DEF Backends!Abs
<1>10. n * n < (q + r) * (q + r)
  <2>1. (q + r) * (q + r) = q * q + (q * r + q * r) + r * r BY <1>5, SMT
  <2>2. q * q \in Nat /\ r * r \in Nat /\ q * r \in Nat /\ n * n \in Nat BY <1>4, <1>5, SMT
  <2>3. t <= r * r BY DEF t
  <2>. QED BY <1>1, <1>2, <1>3, <1>4, <1>6, <1>9, <2>1, <2>2, <2>3
<1>11. n <= e + r
  <2>1. e + r \in Nat /\ (e + r) + 1 = q + r BY <1>3 DEF q
  <2>2. n * n \in Nat BY <1>4, SMT
  <2>. QED BY <1>4, <1>10, <2>1, <2>2, RootBounds
<1>. QED BY <1>3, <1>4, <1>11 DEF e, n, a, b

(* A box or a sphere is measured from its nearest place, and a cylinder    *)
(* level with the robot by its footprint; the measure is never smaller     *)
(* than the footprint is far.                                              *)
LEMMA BoxIsNearest ==
  ASSUME NEW o \in Backends!Obstacle, NEW x \in Int, NEW z \in Int, o.geometry = "box"
  PROVE  /\ Backends!Clearance(o, x, z) \in Nat
         /\ Backends!Footprint(o, x) <= Backends!Clearance(o, x, z)
         /\ \A p \in Backends!Places(o) :
              Backends!Clearance(o, x, z) <= Backends!Norm(p[1] - x, p[2] - z)
<1>. DEFINE a == o.at  half == o.half  c == o.z  up == o.half_height
            n == Backends!Clamp(x, a, half)  k == Backends!Clamp(z, c, up)
<1>1. a \in Int /\ half \in Nat /\ c \in Int /\ up \in Nat BY DEF Backends!Obstacle
<1>2. /\ Backends!Clearance(o, x, z) = Backends!Norm(x - n, z - k)
      /\ Backends!Footprint(o, x) = Backends!Positive(Backends!Abs(a - x) - half)
  BY DEF Backends!Clearance, Backends!Footprint
<1>3. \A p \in Backends!Places(o) : p[1] \in (a - half)..(a + half) /\ p[2] \in (c - up)..(c + up)
  BY DEF Backends!Places
<1>. HIDE DEF a, half, c, up
<1>4. /\ n \in (a - half)..(a + half)
      /\ \A v \in (a - half)..(a + half) : Backends!Abs(x - n) <= Backends!Abs(v - x)
      /\ Backends!Abs(x - n) = Backends!Positive(Backends!Abs(a - x) - half)
  BY <1>1, ClampIsNearest
<1>5. /\ k \in (c - up)..(c + up)
      /\ \A v \in (c - up)..(c + up) : Backends!Abs(z - k) <= Backends!Abs(v - z)
  BY <1>1, ClampIsNearest
<1>. HIDE DEF n, k
<1>6. x - n \in Int /\ z - k \in Int BY <1>1, <1>4, <1>5
<1>7. Backends!Norm(x - n, z - k) \in Nat /\ Backends!Abs(x - n) <= Backends!Norm(x - n, z - k)
  BY <1>6, NormIs
<1>8. ASSUME NEW p \in Backends!Places(o)
      PROVE  Backends!Norm(x - n, z - k) <= Backends!Norm(p[1] - x, p[2] - z)
  <2>. DEFINE v == p[1]  w == p[2]
  <2>1. v \in (a - half)..(a + half) /\ w \in (c - up)..(c + up) BY <1>3
  <2>. HIDE DEF v, w
  <2>2. v - x \in Int /\ w - z \in Int BY <1>1, <2>1
  <2>3. Backends!Abs(x - n) <= Backends!Abs(v - x) /\ Backends!Abs(z - k) <= Backends!Abs(w - z)
    BY <1>4, <1>5, <2>1
  <2>4. Backends!Norm(x - n, z - k) <= Backends!Norm(v - x, w - z)
    BY <1>6, <2>2, <2>3, NormGrows
  <2>. QED BY <2>4 DEF v, w
<1>. QED BY <1>2, <1>4, <1>7, <1>8

LEMMA SphereIsNearest ==
  ASSUME NEW o \in Backends!Obstacle, NEW x \in Int, NEW z \in Int, o.geometry = "sphere"
  PROVE  /\ Backends!Clearance(o, x, z) \in Nat
         /\ Backends!Footprint(o, x) <= Backends!Clearance(o, x, z)
         /\ \A p \in Backends!Places(o) :
              Backends!Clearance(o, x, z) <= Backends!Norm(p[1] - x, p[2] - z)
<1>. DEFINE a == o.at  r == o.half  c == o.z  far == Backends!Norm(a - x, c - z)
<1>1. a \in Int /\ r \in Nat /\ c \in Int BY DEF Backends!Obstacle
<1>2. /\ Backends!Clearance(o, x, z) = Backends!Positive(far - r)
      /\ Backends!Footprint(o, x) = Backends!Positive(Backends!Abs(a - x) - r)
  BY DEF Backends!Clearance, Backends!Footprint
<1>3. \A p \in Backends!Places(o) :
        /\ p[1] \in (a - r)..(a + r) /\ p[2] \in (c - r)..(c + r)
        /\ (p[1] - a) * (p[1] - a) + (p[2] - c) * (p[2] - c) <= r * r
  BY DEF Backends!Places
<1>. HIDE DEF a, r, c
<1>4. a - x \in Int /\ c - z \in Int BY <1>1
<1>5. far \in Nat /\ Backends!Abs(a - x) <= far BY <1>4, NormIs
<1>6. Backends!Abs(a - x) \in Int BY <1>4 DEF Backends!Abs
<1>7. ASSUME NEW p \in Backends!Places(o)
      PROVE  Backends!Positive(far - r) <= Backends!Norm(p[1] - x, p[2] - z)
  <2>. DEFINE v == p[1]  w == p[2]  gap == Backends!Norm(v - x, w - z)
  <2>1. v \in (a - r)..(a + r) /\ w \in (c - r)..(c + r)
        /\ (v - a) * (v - a) + (w - c) * (w - c) <= r * r
    BY <1>3
  <2>. HIDE DEF v, w
  <2>2. v \in Int /\ w \in Int BY <1>1, <2>1
  <2>3. v - a \in Int /\ w - c \in Int BY <1>1, <2>2
  <2>4. (a - x) + (v - a) = v - x /\ (c - z) + (w - c) = w - z BY <1>1, <2>2
  <2>5. far - r <= Backends!Norm((a - x) + (v - a), (c - z) + (w - c))
    BY <1>1, <1>4, <2>1, <2>3, Triangle
  <2>6. far - r <= gap BY <2>4, <2>5
  <2>7. gap \in Nat BY <2>2, NormIs
  <2>. HIDE DEF far, gap
  <2>8. Backends!Positive(far - r) <= gap BY <1>1, <1>5, <2>6, <2>7 DEF Backends!Positive
  <2>. QED BY <2>8 DEF gap, v, w
<1>. HIDE DEF far
<1>8. /\ Backends!Positive(far - r) \in Nat
      /\ Backends!Positive(Backends!Abs(a - x) - r) <= Backends!Positive(far - r)
  BY <1>1, <1>5, <1>6 DEF Backends!Positive
<1>. QED BY <1>2, <1>7, <1>8

LEMMA CylinderIsFar ==
  ASSUME NEW o \in Backends!Obstacle, NEW x \in Int, NEW z \in Int, o.geometry = "cylinder"
  PROVE  /\ Backends!Clearance(o, x, z) \in Nat
         /\ Backends!Footprint(o, x) <= Backends!Clearance(o, x, z)
         /\ o.z = z => Backends!Clearance(o, x, z) = Backends!Footprint(o, x)
<1>. DEFINE a == o.at  r == o.half  c == o.z  up == o.half_height
            k == Backends!Clamp(z, c, up)  far == Backends!Norm(a - x, c - k)
<1>1. a \in Int /\ r \in Nat /\ c \in Int /\ up \in Nat BY DEF Backends!Obstacle
<1>2. /\ Backends!Clearance(o, x, z) = Backends!Positive(far - r)
      /\ Backends!Footprint(o, x) = Backends!Positive(Backends!Abs(a - x) - r)
      /\ o.z = c
  BY DEF Backends!Clearance, Backends!Footprint
<1>. HIDE DEF a, r, c, up
<1>3. k \in (c - up)..(c + up) /\ (z = c => k = c) BY <1>1, ClampIsNearest
<1>. HIDE DEF k
<1>4. a - x \in Int /\ c - k \in Int /\ (z = c => c - k = 0) BY <1>1, <1>3
<1>5. /\ far \in Nat /\ Backends!Abs(a - x) <= far
      /\ c - k = 0 => far = Backends!Abs(a - x)
  BY <1>4, NormIs
<1>6. Backends!Abs(a - x) \in Int BY <1>4 DEF Backends!Abs
<1>. HIDE DEF far
<1>7. /\ Backends!Positive(far - r) \in Nat
      /\ Backends!Positive(Backends!Abs(a - x) - r) <= Backends!Positive(far - r)
  BY <1>1, <1>5, <1>6 DEF Backends!Positive
<1>8. z = c => Backends!Positive(far - r) = Backends!Positive(Backends!Abs(a - x) - r)
  BY <1>4, <1>5
<1>. QED BY <1>2, <1>7, <1>8

LEMMA MinIs ==
  ASSUME NEW S \in SUBSET Nat, NEW m \in S, \A n \in S : m <= n PROVE Backends!Min(S) = m
<1>1. \A x \in S : (\A n \in S : x <= n) => x = m OBVIOUS
<1>2. Backends!Min(S) = CHOOSE x \in S : \A n \in S : x <= n BY DEF Backends!Min
<1>. QED BY <1>1, <1>2

(* The clearances that nearest_obstacle_state takes the least of.          *)
ClearancesIn(s, x, z) == {Backends!Clearance(o, x, z) : o \in Backends!Range(s.obstacles)}

(* So the least of them is told on the safe side of what has been said.    *)
LEMMA LeastIsTold ==
  ASSUME NEW x \in Int, NEW z \in Int, NEW s,
         s.obstacles \in Seq(Backends!Obstacle), s.obstacles # <<>>
  PROVE  Backends!TellsDistance(s, x, z, Backends!Min(ClearancesIn(s, x, z)))
<1>. DEFINE obstacles == Backends!Range(s.obstacles)
<1>1. obstacles \subseteq Backends!Obstacle /\ obstacles # {}
  <2>. DEFINE q == s.obstacles
  <2>1. q \in Seq(Backends!Obstacle) /\ q # <<>> OBVIOUS
  <2>. HIDE DEF q
  <2>2. 1 \in DOMAIN q /\ \A i \in DOMAIN q : q[i] \in Backends!Obstacle
    <3>1. Len(q) \in Nat /\ DOMAIN q = 1..Len(q) BY <2>1, LenProperties
    <3>2. Len(q) # 0 BY <2>1, EmptySeq
    <3>3. 1 \in DOMAIN q BY <3>1, <3>2
    <3>. QED BY <2>1, <3>1, <3>3, ElementOfSeq
  <2>. QED BY <2>2 DEF q, Backends!Range
<1>. HIDE DEF obstacles
<1>2. ClearancesIn(s, x, z) = {Backends!Clearance(o, x, z) : o \in obstacles}
  BY DEF ClearancesIn, obstacles
<1>3. \A o \in obstacles :
        /\ Backends!Clearance(o, x, z) \in Nat
        /\ Backends!Footprint(o, x) <= Backends!Clearance(o, x, z)
        /\ o.geometry = "cylinder" /\ o.z = z =>
             Backends!Clearance(o, x, z) = Backends!Footprint(o, x)
        /\ o.geometry # "cylinder" => \A p \in Backends!Places(o) :
             Backends!Clearance(o, x, z) <= Backends!Norm(p[1] - x, p[2] - z)
  <2>. SUFFICES ASSUME NEW o \in obstacles
                PROVE  /\ Backends!Clearance(o, x, z) \in Nat
                       /\ Backends!Footprint(o, x) <= Backends!Clearance(o, x, z)
                       /\ o.geometry = "cylinder" /\ o.z = z =>
                            Backends!Clearance(o, x, z) = Backends!Footprint(o, x)
                       /\ o.geometry # "cylinder" => \A p \in Backends!Places(o) :
                            Backends!Clearance(o, x, z) <= Backends!Norm(p[1] - x, p[2] - z)
    OBVIOUS
  <2>1. o \in Backends!Obstacle BY <1>1
  <2>2. o.geometry \in {"box", "sphere", "cylinder"} BY <2>1 DEF Backends!Obstacle
  <2>3. CASE o.geometry = "box" BY <2>1, <2>3, BoxIsNearest
  <2>4. CASE o.geometry = "sphere" BY <2>1, <2>4, SphereIsNearest
  <2>5. CASE o.geometry = "cylinder" BY <2>1, <2>5, CylinderIsFar
  <2>. QED BY <2>2, <2>3, <2>4, <2>5
<1>4. ClearancesIn(s, x, z) \in SUBSET Nat /\ ClearancesIn(s, x, z) # {} BY <1>1, <1>2, <1>3
<1>5. PICK m \in ClearancesIn(s, x, z) : \A n \in ClearancesIn(s, x, z) : m <= n
  BY <1>4, Tasks!LeastOf
<1>6. m \in Nat /\ Backends!Min(ClearancesIn(s, x, z)) = m BY <1>4, <1>5, MinIs
<1>7. \A o \in obstacles : m <= Backends!Clearance(o, x, z) BY <1>2, <1>5
<1>8. ASSUME NEW o \in obstacles, NEW p \in Backends!Places(o), o.geometry # "cylinder"
      PROVE  m <= Backends!Norm(p[1] - x, p[2] - z)
  <2>. DEFINE c == Backends!Clearance(o, x, z)  d == Backends!Norm(p[1] - x, p[2] - z)
  <2>1. o \in Backends!Obstacle /\ c \in Nat /\ c <= d /\ m <= c BY <1>1, <1>3, <1>7, <1>8
  <2>2. d \in Nat
    <3>1. p[1] - x \in Int /\ p[2] - z \in Int
      <4>1. o.at \in Int /\ o.half \in Nat /\ o.z \in Int /\ o.half_height \in Nat
        BY <2>1 DEF Backends!Obstacle
      <4>2. p[1] \in Int /\ p[2] \in Int BY <4>1 DEF Backends!Places
      <4>. QED BY <4>2
    <3>. QED BY <3>1, NormIs
  <2>. HIDE DEF c, d
  <2>3. m <= d BY <1>6, <2>1, <2>2
  <2>. QED BY <2>3 DEF d
<1>9. ASSUME NEW o \in obstacles, o.geometry = "cylinder", o.z = z
      PROVE  m <= Backends!Footprint(o, x)
  BY <1>3, <1>7, <1>9
<1>10. \E o \in obstacles : Backends!Footprint(o, x) <= m
  <2>1. PICK o \in obstacles : m = Backends!Clearance(o, x, z) BY <1>2
  <2>. QED BY <1>3, <2>1
<1>. QED BY <1>6, <1>8, <1>9, <1>10 DEF Backends!TellsDistance, obstacles

(* A backend that runs observes the scene it was reset in.                 *)
LEMMA BackendObserves ==
  ASSUME BackendInv PROVE Backends!ObservesItsRun
<1>1. /\ state = "running" =>
           backend_scene = begun /\ begun # Backends!None /\ Backends!Observable
      /\ state = "running" /\ backend = "mujoco" => model = begun
      /\ state = "running" /\ backend = "webots" => commands = walked
  BY ScenesMeasure DEF BackendInv, HasItsScene, RunsInIt, Backends!Observable
<1>2. ASSUME Backends!Observable, backend_scene.obstacles # <<>>
      PROVE  LET seen == Backends!Observation.obstacle_state
             IN /\ seen.obstacle_detected
                /\ Backends!TellsDistance(backend_scene, position, Backends!BaseHeight[backend],
                                          seen.nearest_distance)
  <2>. DEFINE z == Backends!BaseHeight[backend]
  <2>1. /\ backend_scene # Backends!None /\ position \in Int
        /\ backend_scene.obstacles \in Seq(Backends!Obstacle)
    BY <1>2, ScenesMeasure DEF BackendInv, HasItsScene, Backends!Observable
  <2>2. z \in Int BY DEF BackendInv, Backends!Backend, Backends!BaseHeight
  <2>. HIDE DEF z
  <2>3. Backends!Observation.obstacle_state =
          [obstacle_detected |-> TRUE,
           nearest_distance |-> Backends!Min(ClearancesIn(backend_scene, position, z))]
    BY <1>2, <2>1 DEF Backends!Observation, Backends!nearest_obstacle_state, ClearancesIn, z
  <2>4. Backends!TellsDistance(backend_scene, position, z,
                               Backends!Min(ClearancesIn(backend_scene, position, z)))
    BY <1>2, <2>1, <2>2, LeastIsTold
  <2>. QED BY <2>3, <2>4 DEF z
<1>. QED BY <1>1, <1>2 DEF Backends!ObservesItsRun

-----------------------------------------------------------------------------
(* THE PRESENTATION WINDOWS.                                               *)

(* What a window follows, as a value.                                      *)
Following ==
  [targets : Seq(Int), index : Nat, remaining : Nat, forward : BOOLEAN, passed : Seq(Int)]

(* It follows a path: the targets that were passed are the first ones, each *)
(* was near when it was left, and one is in hand unless the route is over. *)
OnItsPath(a, path) ==
  /\ a.targets \in {path, <<>>} /\ a.index = Len(a.passed) + 1
  /\ a.targets # <<>> => a.index <= Len(path)
  /\ \A i \in DOMAIN a.passed : Windows!Abs(a.passed[i] - path[i]) <= Threshold

(* It stands: there is neither a target nor a velocity.                    *)
Stands(a) == a.targets = <<>> /\ ~a.forward

(* Inductive: the window follows the command it took last.                 *)
FollowsLast ==
  /\ last.command_type = "run_path" => OnItsPath(Windows!Active, last.path)
  /\ last.command_type # "run_path" => Stands(Windows!Active)

WindowInv ==
  /\ pending \in Seq(Windows!Command) /\ listed \in 0..Len(pending)
  /\ last \in Windows!Command \cup {Windows!NoCommand}
  /\ Windows!Active \in Following /\ window_position \in Int
  /\ FollowsLast

(* A command's route begins at its first target, and a stop ends it.       *)
LEMMA CommandIs ==
  ASSUME ApplicationAssumption, NEW c \in Windows!Command
  PROVE  /\ c.command_type \in {"run_path", "stop", "safe_stand"}
         /\ c.command_type = "run_path" => c.path \in Seq(Int) /\ c.step_count \in Nat
BY DEF Windows!Command, ApplicationAssumption

LEMMA TakesWell ==
  ASSUME ApplicationAssumption, NEW a \in Following, NEW c \in Windows!Command
  PROVE  /\ Windows!Takes(a, c) \in Following
         /\ c.command_type = "run_path" => OnItsPath(Windows!Takes(a, c), c.path)
         /\ c.command_type # "run_path" => Stands(Windows!Takes(a, c))
<1>1. CASE c.command_type = "run_path"
  <2>. DEFINE path == c.path
  <2>1. path \in Seq(Int) /\ c.step_count \in Nat BY <1>1, CommandIs
  <2>2. Len(path) \in Nat /\ (path # <<>> => Len(path) # 0) BY <2>1, EmptySeq, LenProperties
  <2>3. Windows!Takes(a, c) = [targets |-> path, index |-> 1, remaining |-> c.step_count,
                               forward |-> TRUE, passed |-> <<>>]
    BY <1>1 DEF Windows!Takes
  <2>. HIDE DEF path
  <2>4. Windows!Takes(a, c) \in Following BY <2>1, <2>3 DEF Following
  <2>5. OnItsPath(Windows!Takes(a, c), path) BY <2>1, <2>2, <2>3 DEF OnItsPath
  <2>. QED BY <1>1, <2>4, <2>5 DEF path
<1>2. CASE c.command_type # "run_path"
  <2>1. Windows!Takes(a, c) = [targets |-> <<>>, index |-> a.index, remaining |-> 1,
                               forward |-> FALSE, passed |-> a.passed]
    BY <1>2 DEF Windows!Takes, Following
  <2>2. Windows!Takes(a, c) \in Following BY <2>1 DEF Following
  <2>3. Stands(Windows!Takes(a, c)) BY <2>1 DEF Stands
  <2>. QED BY <1>2, <2>2, <2>3
<1>. QED BY <1>1, <1>2

LEMMA Rewritten ==
  ASSUME NEW a \in Following, NEW i, NEW p, NEW r
  PROVE  [a EXCEPT !.index = i, !.passed = p, !.remaining = r] =
           [targets |-> a.targets, index |-> i, remaining |-> r, forward |-> a.forward,
            passed |-> p]
<1>. DEFINE t == a.targets  n == a.index  k == a.remaining  f == a.forward  q == a.passed
<1>1. a = [targets |-> t, index |-> n, remaining |-> k, forward |-> f, passed |-> q]
  BY DEF Following
<1>. HIDE DEF t, n, k, f, q
<1>2. [a EXCEPT !.index = i] =
        [targets |-> t, index |-> i, remaining |-> k, forward |-> f, passed |-> q]
  BY <1>1
<1>3. [[targets |-> t, index |-> i, remaining |-> k, forward |-> f, passed |-> q]
         EXCEPT !.passed = p] =
        [targets |-> t, index |-> i, remaining |-> k, forward |-> f, passed |-> p]
  OBVIOUS
<1>4. [[targets |-> t, index |-> i, remaining |-> k, forward |-> f, passed |-> p]
         EXCEPT !.remaining = r] =
        [targets |-> t, index |-> i, remaining |-> r, forward |-> f, passed |-> p]
  OBVIOUS
<1>5. [[[a EXCEPT !.index = i] EXCEPT !.passed = p] EXCEPT !.remaining = r] =
        [targets |-> t, index |-> i, remaining |-> r, forward |-> f, passed |-> p]
  BY <1>2, <1>3, <1>4, Zenon
<1>6. [a EXCEPT !.index = i, !.passed = p, !.remaining = r] =
        [[[a EXCEPT !.index = i] EXCEPT !.passed = p] EXCEPT !.remaining = r]
  OBVIOUS
<1>. QED BY <1>5, <1>6 DEF t, n, k, f, q

(* A target that is left near it is counted.                               *)
Left(a, x, steps) ==
  [a EXCEPT !.index = @ + 1, !.passed = Append(@, x), !.remaining = steps]

LEMMA LeavesTarget ==
  ASSUME NEW a \in Following, NEW path \in Seq(Int), OnItsPath(a, path),
         a.index < Len(a.targets), NEW x \in Int, NEW steps \in Nat,
         Windows!Abs(x - path[a.index]) <= Threshold
  PROVE  /\ Left(a, x, steps) \in Following /\ OnItsPath(Left(a, x, steps), path)
         /\ Left(a, x, steps).targets = path
<1>. DEFINE b == Left(a, x, steps)  n == a.index  q == a.passed
<1>1. n \in Nat /\ q \in Seq(Int) /\ n = Len(q) + 1 BY DEF Following, OnItsPath
<1>2. a.targets = path /\ n < Len(path) /\ Len(path) \in Nat
  <2>1. a.targets # <<>> BY EmptySeq DEF Following
  <2>. QED BY <2>1, LenProperties DEF OnItsPath
<1>3. b = [targets |-> path, index |-> n + 1, remaining |-> steps, forward |-> a.forward,
           passed |-> Append(q, x)]
  <2>1. b = [targets |-> a.targets, index |-> a.index + 1, remaining |-> steps,
             forward |-> a.forward, passed |-> Append(a.passed, x)]
    BY Rewritten DEF Left
  <2>. QED BY <1>2, <2>1
<1>4. /\ Append(q, x) \in Seq(Int) /\ Len(Append(q, x)) = Len(q) + 1
      /\ \A i \in 1..Len(q) : Append(q, x)[i] = q[i]
      /\ Append(q, x)[Len(q) + 1] = x
  BY <1>1, AppendProperties
<1>5. \A i \in DOMAIN Append(q, x) : Windows!Abs(Append(q, x)[i] - path[i]) <= Threshold
  <2>. SUFFICES ASSUME NEW i \in 1..Len(q) + 1
                PROVE  Windows!Abs(Append(q, x)[i] - path[i]) <= Threshold
    BY <1>4, LenProperties
  <2>1. CASE i \in 1..Len(q)
    <3>1. i \in DOMAIN q BY <1>1, <2>1
    <3>. QED BY <1>4, <2>1, <3>1 DEF OnItsPath
  <2>2. CASE i = Len(q) + 1 BY <1>1, <1>4, <2>2
  <2>3. Len(q) \in Nat BY <1>1, LenProperties
  <2>4. i \in 1..Len(q) \/ i = Len(q) + 1
    <3>. HIDE DEF q
    <3>. QED BY <2>3
  <2>. QED BY <2>1, <2>2, <2>4
<1>6. a.forward \in BOOLEAN BY DEF Following
<1>. HIDE DEF n, q, b
<1>7. b \in Following BY <1>1, <1>3, <1>4, <1>6 DEF Following
<1>8. OnItsPath(b, path) /\ b.targets = path
  <2>. DEFINE r == Append(q, x)
  <2>1. /\ b.targets = path /\ b.index = n + 1 /\ b.passed = r /\ n + 1 = Len(r) + 1
        /\ n + 1 <= Len(path)
    BY <1>1, <1>2, <1>3, <1>4
  <2>2. \A i \in DOMAIN r : Windows!Abs(r[i] - path[i]) <= Threshold BY <1>5
  <2>. HIDE DEF r
  <2>. QED BY <2>1, <2>2 DEF OnItsPath
<1>. QED BY <1>7, <1>8 DEF b

(* One that is not is not, and its steps may be fewer.                     *)
LEMMA StaysOnPath ==
  ASSUME NEW a \in Following, NEW path, OnItsPath(a, path), NEW steps \in Nat
  PROVE  LET b == [a EXCEPT !.remaining = steps]
         IN b \in Following /\ OnItsPath(b, path) /\ b.targets = a.targets
<1>1. [a EXCEPT !.remaining = steps] =
        [targets |-> a.targets, index |-> a.index, remaining |-> steps, forward |-> a.forward,
         passed |-> a.passed]
  BY DEF Following
<1>. QED BY <1>1 DEF Following, OnItsPath

(* The next target is gone for near the one in hand.                       *)
LEMMA GoesFurther ==
  ASSUME NEW a \in Following, NEW path \in Seq(Int), OnItsPath(a, path),
         window_position \in Int
  PROVE  /\ Windows!GoesForNext(a) \in Following /\ OnItsPath(Windows!GoesForNext(a), path)
         /\ Windows!GoesForNext(a).targets = a.targets
<1>1. CASE ~(/\ a.index < Len(a.targets)
             /\ Windows!Abs(a.targets[a.index] - window_position) <= Threshold)
  BY <1>1 DEF Windows!GoesForNext
<1>2. CASE /\ a.index < Len(a.targets)
           /\ Windows!Abs(a.targets[a.index] - window_position) <= Threshold
  <2>. DEFINE b == Left(a, window_position, a.remaining)
  <2>1. Windows!GoesForNext(a) = b
    <3>1. [a EXCEPT !.index = @ + 1, !.passed = Append(@, window_position)] = b
      BY DEF Following, Left
    <3>. QED BY <1>2, <3>1 DEF Windows!GoesForNext
  <2>2. a.targets = path /\ a.index \in 1..Len(path)
    <3>1. a.targets # <<>> BY <1>2, EmptySeq DEF Following
    <3>2. a.targets = path /\ a.index <= Len(path) BY <3>1 DEF OnItsPath
    <3>3. a.index \in Nat /\ a.index = Len(a.passed) + 1 /\ Len(a.passed) \in Nat
      BY LenProperties DEF OnItsPath, Following
    <3>. QED BY <3>2, <3>3, LenProperties
  <2>3. path[a.index] \in Int BY <2>2, ElementOfSeq
  <2>. DEFINE t == path[a.index]
  <2>4. Windows!Abs(t - window_position) = Windows!Abs(window_position - t)
    <3>1. t \in Int /\ window_position \in Int BY <2>3
    <3>. HIDE DEF t
    <3>. QED BY <3>1 DEF Windows!Abs
  <2>5. a.index < Len(a.targets) /\ Windows!Abs(window_position - path[a.index]) <= Threshold
    BY <1>2, <2>2, <2>4
  <2>6. a.remaining \in Nat BY DEF Following
  <2>7. b \in Following /\ OnItsPath(b, path) /\ b.targets = path
    BY <2>5, <2>6, LeavesTarget
  <2>. QED BY <2>1, <2>2, <2>7
<1>. QED BY <1>1, <1>2

(* A frame of either window keeps to the path, and one that stands does    *)
(* not move.                                                               *)
LEMMA RemainsIs == ASSUME NEW a \in Following PROVE Windows!Remains(a) \in Nat
<1>. DEFINE r == a.remaining
<1>1. r \in Nat BY DEF Following
<1>. HIDE DEF r
<1>2. (IF r > 0 THEN r - 1 ELSE 0) \in Nat BY <1>1
<1>. QED BY <1>2 DEF Windows!Remains, r

LEMMA TowardIs == ASSUME NEW x \in Int, NEW t PROVE Windows!Toward(x, t) \in Int
BY DEF Windows!Toward

LEMMA MujocoMovesWell ==
  ASSUME NEW a \in Following, NEW path \in Seq(Int), OnItsPath(a, path),
         window_position \in Int, NEW next \in Windows!MujocoMoves(a)
  PROVE  next[1] \in Following /\ OnItsPath(next[1], path) /\ next[2] \in Int
<1>. DEFINE b == Windows!GoesForNext(a)  steps == Windows!Remains(a)
<1>1. b \in Following /\ OnItsPath(b, path) BY GoesFurther
<1>2. steps \in Nat BY RemainsIs
<1>3. CASE a.targets # <<>>
  <2>1. PICK p \in {window_position, Windows!Toward(window_position, b.targets[b.index])} :
          next = <<[b EXCEPT !.remaining = steps], p>>
    BY <1>3 DEF Windows!MujocoMoves
  <2>2. p \in Int BY <2>1, TowardIs
  <2>. QED BY <1>1, <1>2, <2>1, <2>2, StaysOnPath
<1>4. CASE a.targets = <<>>
  <2>1. PICK p \in {window_position, IF a.forward THEN window_position + 1 ELSE window_position} :
          next = <<[a EXCEPT !.remaining = steps], p>>
    BY <1>4 DEF Windows!MujocoMoves
  <2>2. p \in Int BY <2>1
  <2>. QED BY <1>2, <2>1, <2>2, StaysOnPath
<1>. QED BY <1>3, <1>4

LEMMA RouteIsOver ==
  ASSUME NEW a \in Following, NEW path, OnItsPath(a, path)
  PROVE  LET b == [a EXCEPT !.targets = <<>>, !.remaining = 0]
         IN b \in Following /\ OnItsPath(b, path)
<1>. DEFINE b == [a EXCEPT !.targets = <<>>, !.remaining = 0]
<1>1. [a EXCEPT !.targets = <<>>] =
        [targets |-> <<>>, index |-> a.index, remaining |-> a.remaining, forward |-> a.forward,
         passed |-> a.passed]
  BY DEF Following
<1>2. [[targets |-> <<>>, index |-> a.index, remaining |-> a.remaining, forward |-> a.forward,
        passed |-> a.passed] EXCEPT !.remaining = 0] =
        [targets |-> <<>>, index |-> a.index, remaining |-> 0, forward |-> a.forward,
         passed |-> a.passed]
  OBVIOUS
<1>3. b = [[a EXCEPT !.targets = <<>>] EXCEPT !.remaining = 0] OBVIOUS
<1>4. b = [targets |-> <<>>, index |-> a.index, remaining |-> 0, forward |-> a.forward,
           passed |-> a.passed]
  BY <1>1, <1>2, <1>3, Zenon
<1>. HIDE DEF b
<1>5. b \in Following BY <1>4 DEF Following
<1>6. OnItsPath(b, path) BY <1>4 DEF OnItsPath
<1>. QED BY <1>5, <1>6 DEF b

LEMMA WebotsMovesWell ==
  ASSUME ApplicationAssumption, NEW a \in Following, NEW path \in Seq(Int), OnItsPath(a, path),
         window_position \in Int, NEW next \in Windows!WebotsMoves(a)
  PROVE  next[1] \in Following /\ OnItsPath(next[1], path) /\ next[2] \in Int
<1>. DEFINE b == Windows!GoesForNext(a)  steps == Windows!Remains(a)
            target == b.targets[b.index]
<1>1. b \in Following /\ OnItsPath(b, path) /\ b.targets = a.targets BY GoesFurther
<1>2. steps \in Nat BY RemainsIs
<1>3. CASE a.targets = <<>>
  <2>1. next = <<[a EXCEPT !.remaining = steps], window_position>>
    BY <1>3 DEF Windows!WebotsMoves
  <2>. QED BY <1>2, <2>1, StaysOnPath
<1>4. CASE a.targets # <<>>
  <2>1. b.targets = path /\ b.index \in 1..Len(path) /\ Len(path) \in Nat
    <3>1. b.targets # <<>> /\ b.targets = path /\ b.index <= Len(path) BY <1>1, <1>4 DEF OnItsPath
    <3>2. b.index \in Nat /\ b.index = Len(b.passed) + 1 /\ Len(b.passed) \in Nat
      BY <1>1, LenProperties DEF OnItsPath, Following
    <3>. QED BY <3>1, <3>2, LenProperties
  <2>2. target \in Int BY <2>1, ElementOfSeq
  <2>. DEFINE arrived == IF b.index = Len(b.targets)
                           THEN [b EXCEPT !.targets = <<>>, !.remaining = 0]
                         ELSE Left(b, target, steps)
  <2>3. next \in {<<arrived, target>>,
                  <<[b EXCEPT !.remaining = steps], Windows!Toward(window_position, target)>>}
    BY <1>4 DEF Windows!WebotsMoves, Left
  <2>4. arrived \in Following /\ OnItsPath(arrived, path)
    <3>1. CASE b.index = Len(b.targets) BY <1>1, <3>1, RouteIsOver
    <3>2. CASE b.index # Len(b.targets)
      <4>1. Windows!Abs(target - path[b.index]) <= Threshold
        <5>. DEFINE t == target
        <5>1. t \in Int /\ path[b.index] = t BY <2>1, <2>2
        <5>2. Threshold \in Nat BY DEF ApplicationAssumption
        <5>. HIDE DEF t
        <5>3. Windows!Abs(t - t) <= Threshold BY <5>1, <5>2 DEF Windows!Abs
        <5>. QED BY <5>1, <5>3 DEF t
      <4>2. b.index < Len(b.targets) BY <2>1, <3>2
      <4>. QED BY <1>1, <1>2, <2>2, <3>2, <4>1, <4>2, LeavesTarget
    <3>. QED BY <3>1, <3>2
  <2>5. /\ [b EXCEPT !.remaining = steps] \in Following
        /\ OnItsPath([b EXCEPT !.remaining = steps], path)
    BY <1>1, <1>2, StaysOnPath
  <2>6. Windows!Toward(window_position, target) \in Int BY TowardIs
  <2>. HIDE DEF arrived, b, target, steps
  <2>7. CASE next = <<arrived, target>> BY <2>2, <2>4, <2>7
  <2>8. CASE next = <<[b EXCEPT !.remaining = steps], Windows!Toward(window_position, target)>>
    BY <2>5, <2>6, <2>8
  <2>. QED BY <2>3, <2>7, <2>8
<1>. QED BY <1>3, <1>4

LEMMA StandsStill ==
  ASSUME NEW a \in Following, Stands(a), 
         NEW next \in Windows!MujocoMoves(a) \cup Windows!WebotsMoves(a)
  PROVE  next[1] \in Following /\ Stands(next[1]) /\ next[2] = window_position
<1>. DEFINE steps == Windows!Remains(a)
<1>1. steps \in Nat BY RemainsIs
<1>2. a.targets = <<>> /\ a.forward = FALSE BY DEF Stands, Following
<1>3. next = <<[a EXCEPT !.remaining = steps], window_position>>
  BY <1>2 DEF Windows!MujocoMoves, Windows!WebotsMoves
<1>4. [a EXCEPT !.remaining = steps] =
        [targets |-> a.targets, index |-> a.index, remaining |-> steps, forward |-> a.forward,
         passed |-> a.passed]
  BY DEF Following
<1>. HIDE DEF steps
<1>. QED BY <1>1, <1>2, <1>3, <1>4 DEF Following, Stands

(* What the window becomes is what it follows.                             *)
LEMMA BecomesActive ==
  ASSUME NEW a \in Following, Windows!Becomes(a) PROVE Windows!Active' = a
BY DEF Windows!Becomes, Windows!Active, Following

LEMMA WindowStep ==
  ASSUME ApplicationAssumption, WindowInv, [Windows!Next]_Windows!vars
  PROVE  WindowInv' /\ (last'.command_type # "run_path" => window_position' = window_position)
<1>. USE DEF WindowInv
<1>1. CASE Windows!Sends
  <2>1. PICK c \in Windows!Command : pending' = Append(pending, c) BY <1>1 DEF Windows!Sends
  <2>2. pending' \in Seq(Windows!Command) /\ Len(pending') = Len(pending) + 1
    BY <2>1, AppendProperties
  <2>3. listed' \in 0..Len(pending') BY <1>1, <2>2, LenProperties DEF Windows!Sends
  <2>4. last' = last /\ Windows!Active' = Windows!Active /\ window_position' = window_position
    BY <1>1 DEF Windows!Sends, Windows!Active
  <2>. QED BY <2>2, <2>3, <2>4 DEF FollowsLast
<1>2. CASE Windows!Lists
  <2>1. pending' = pending /\ listed' = Len(pending) BY <1>2 DEF Windows!Lists
  <2>2. listed' \in 0..Len(pending') BY <2>1, LenProperties
  <2>3. last' = last /\ Windows!Active' = Windows!Active /\ window_position' = window_position
    BY <1>2 DEF Windows!Lists, Windows!Active
  <2>. QED BY <2>1, <2>2, <2>3 DEF FollowsLast
<1>3. CASE Windows!TakesOne
  <2>. DEFINE c == Head(pending)
  <2>1. /\ listed \in Nat /\ listed > 0 /\ listed' = listed - 1 /\ pending' = Tail(pending)
        /\ last' = c /\ Windows!Becomes(Windows!Takes(Windows!Active, c))
        /\ window_position' = window_position
    BY <1>3 DEF Windows!TakesOne
  <2>2. pending # <<>> BY <2>1, EmptySeq
  <2>3. /\ c \in Windows!Command /\ pending' \in Seq(Windows!Command)
        /\ Len(pending') = Len(pending) - 1
    BY <2>1, <2>2, HeadTailProperties
  <2>4. listed' \in 0..Len(pending')
    <3>. DEFINE l == Len(pending)  k == Len(pending')  n == listed'
    <3>1. l \in Nat /\ listed \in 0..l /\ listed > 0 /\ k = l - 1 /\ n = listed - 1
      BY <2>1, <2>3, LenProperties
    <3>. HIDE DEF l, k, n
    <3>2. n \in 0..k BY <3>1
    <3>. QED BY <3>2 DEF n, k
  <2>. DEFINE a == Windows!Takes(Windows!Active, c)
  <2>5. /\ a \in Following
        /\ c.command_type = "run_path" => OnItsPath(a, c.path)
        /\ c.command_type # "run_path" => Stands(a)
    BY <2>3, TakesWell
  <2>6. Windows!Active' = a BY <2>1, <2>5, BecomesActive
  <2>7. FollowsLast' BY <2>1, <2>5, <2>6 DEF FollowsLast
  <2>. QED BY <2>1, <2>3, <2>4, <2>5, <2>6, <2>7
<1>4. CASE Windows!Moves
  <2>. DEFINE a == Windows!Active
  <2>1. PICK next \in IF a.remaining = 0 THEN {<<a, window_position>>}
                      ELSE IF window = "mujoco" THEN Windows!MujocoMoves(a)
                      ELSE Windows!WebotsMoves(a) :
          Windows!Becomes(next[1]) /\ window_position' = next[2]
    BY <1>4 DEF Windows!Moves
  <2>2. pending' = pending /\ listed' = listed /\ last' = last BY <1>4 DEF Windows!Moves
  <2>. HIDE DEF a
  <2>3. next = <<a, window_position>> \/ next \in Windows!MujocoMoves(a) \cup Windows!WebotsMoves(a)
    BY <2>1
  <2>4. a \in Following BY DEF a
  <2>5. CASE last.command_type = "run_path"
    <3>. DEFINE path == last.path
    <3>1. path \in Seq(Int)
      <4>1. last \in Windows!Command BY <2>5 DEF Windows!NoCommand
      <4>. QED BY <2>5, <4>1, CommandIs
    <3>2. OnItsPath(a, path) BY <2>5 DEF FollowsLast, a
    <3>. HIDE DEF path
    <3>3. next[1] \in Following /\ OnItsPath(next[1], path) /\ next[2] \in Int
      BY <2>3, <2>4, <3>1, <3>2, MujocoMovesWell, WebotsMovesWell
    <3>4. Windows!Active' = next[1] BY <2>1, <3>3, BecomesActive
    <3>5. FollowsLast' BY <2>2, <2>5, <3>3, <3>4 DEF FollowsLast, path
    <3>. QED BY <2>1, <2>2, <2>5, <3>3, <3>4, <3>5
  <2>6. CASE last.command_type # "run_path"
    <3>1. Stands(a) BY <2>6 DEF FollowsLast, a
    <3>2. next[1] \in Following /\ Stands(next[1]) /\ next[2] = window_position
      BY <2>3, <2>4, <3>1, StandsStill
    <3>3. Windows!Active' = next[1] BY <2>1, <3>2, BecomesActive
    <3>4. FollowsLast' BY <2>2, <2>6, <3>2, <3>3 DEF FollowsLast
    <3>. QED BY <2>1, <2>2, <3>2, <3>3, <3>4
  <2>. QED BY <2>5, <2>6
<1>5. CASE UNCHANGED Windows!vars
  <2>1. /\ pending' = pending /\ listed' = listed /\ last' = last
        /\ window_position' = window_position /\ Windows!Active' = Windows!Active
    BY <1>5 DEF Windows!vars, Windows!Active
  <2>. QED BY <2>1 DEF FollowsLast
<1>. QED BY <1>1, <1>2, <1>3, <1>4, <1>5 DEF Windows!Next

LEMMA InitWindow == Windows!Init => WindowInv
<1>. SUFFICES ASSUME Windows!Init PROVE WindowInv OBVIOUS
<1>1. pending \in Seq(Windows!Command) /\ listed \in 0..Len(pending) BY DEF Windows!Init
<1>2. Windows!Active \in Following /\ Stands(Windows!Active)
  <2>1. Windows!Active = [targets |-> <<>>, index |-> 1, remaining |-> 0, forward |-> FALSE,
                          passed |-> <<>>]
    BY DEF Windows!Init, Windows!Active
  <2>. QED BY <2>1 DEF Following, Stands
<1>. QED BY <1>1, <1>2 DEF Windows!Init, WindowInv, FollowsLast, Windows!NoCommand

Obeyed ==
  last.command_type = "run_path" =>
    /\ \A i \in DOMAIN passed : Windows!Abs(passed[i] - last.path[i]) <= Threshold
    /\ active_target_index = Len(passed) + 1

StandsAfterStop == last'.command_type # "run_path" => window_position' = window_position

LEMMA WindowsObeyed ==
  Windows!Spec => []Obeyed /\ [][StandsAfterStop]_Windows!vars
<1>1. ApplicationAssumption BY ApplicationAssumption
<1>2. WindowInv /\ [Windows!Next]_Windows!vars => WindowInv' BY <1>1, WindowStep
<1>3. WindowInv /\ [Windows!Next]_Windows!vars => StandsAfterStop
  BY <1>1, WindowStep DEF StandsAfterStop
<1>4. WindowInv => Obeyed BY DEF WindowInv, FollowsLast, OnItsPath, Obeyed, Windows!Active
<1>. QED BY <1>2, <1>3, <1>4, InitWindow, PTL DEF Windows!Spec

-----------------------------------------------------------------------------
(* THE LOCAL RUN.                                                          *)

(* The graph of the path.                                                  *)
LEMMA PathHas ==
  /\ Len(LocalPath) \in Nat /\ Len(LocalPath) >= 1
  /\ Local!Entries = 1..Len(LocalPath)
  /\ \A i \in Local!Entries : /\ LocalPath[i].at \in Int /\ LocalPath[i].dwell \in Nat
                              /\ LocalPath[i].is_task_target \in BOOLEAN
BY PathFits DEF Local!Entries

(* A name is looked up at its first entry, which lies where the others do. *)
LEMMA FirstIs ==
  ASSUME NEW i \in Local!Entries
  PROVE  /\ Local!FirstOf(i) \in Local!Entries
         /\ LocalPath[Local!FirstOf(i)].at = LocalPath[i].at
         /\ LocalPath[Local!FirstOf(i)].is_task_target = LocalPath[i].is_task_target
         /\ LocalPath[Local!FirstOf(i)].dwell \in Nat
<1>. DEFINE S == {j \in Local!Entries : LocalPath[j].target_id = LocalPath[i].target_id}
<1>1. S \in SUBSET Nat /\ S # {} BY PathHas
<1>2. PICK m \in S : \A k \in S : m <= k BY <1>1, Tasks!LeastOf
<1>3. /\ LocalPath[m].target_id = LocalPath[i].target_id
      /\ \A k \in 1..m - 1 : LocalPath[k].target_id # LocalPath[i].target_id
  <2>. SUFFICES ASSUME NEW k \in 1..m - 1, LocalPath[k].target_id = LocalPath[i].target_id
                PROVE  FALSE
    BY <1>2
  <2>1. m \in 1..Len(LocalPath) /\ Len(LocalPath) \in Nat BY <1>2, PathHas
  <2>2. k \in 1..Len(LocalPath) /\ ~(m <= k) BY <2>1
  <2>3. k \in S BY <2>2, PathHas
  <2>. QED BY <1>2, <2>2, <2>3
<1>4. /\ Local!FirstOf(i) \in Local!Entries
      /\ LocalPath[Local!FirstOf(i)].target_id = LocalPath[i].target_id
  BY <1>2, <1>3 DEF Local!FirstOf
<1>. HIDE DEF S
<1>. QED BY <1>4, PathHas, PathFits DEF Local!Entries

(* A node is the last one, or moves to an entry, or dwells at one; and what*)
(* there is at each, with what comes after it.                             *)
LEMMA NodesAre ==
  ASSUME NEW n \in Local!Node
  PROVE  \/ n = Local!StopNode
         \/ \E i \in Local!Entries : n = <<"move", i>>
         \/ \E i \in Local!Entries : n = <<"dwell", i>> /\ Local!HasDwell(i)
BY DEF Local!Node

LEMMA MoveIs ==
  ASSUME NEW i \in Local!Entries
  PROVE  /\ <<"move", i>> \in Local!Node /\ <<"move", i>> # Local!StopNode
         /\ <<"move", i>>[1] = "move" /\ <<"move", i>>[2] = i
         /\ Local!NodeType[<<"move", i>>] \in {"MoveTo", "ReturnHome"}
         /\ Local!Succ[<<"move", i>>] =
              IF Local!HasDwell(i) THEN <<"dwell", i>> ELSE Local!MoveAfter(i)
BY DEF Local!Node, Local!NodeType, Local!Succ, Local!StopNode

LEMMA DwellIs ==
  ASSUME NEW i \in Local!Entries, Local!HasDwell(i)
  PROVE  /\ <<"dwell", i>> \in Local!Node /\ <<"dwell", i>> # Local!StopNode
         /\ <<"dwell", i>>[1] = "dwell" /\ <<"dwell", i>>[2] = i
         /\ Local!NodeType[<<"dwell", i>>] = "Dwell"
         /\ Local!Succ[<<"dwell", i>>] = Local!MoveAfter(i)
BY DEF Local!Node, Local!NodeType, Local!Succ, Local!StopNode

LEMMA StopIs ==
  /\ Local!StopNode \in Local!Node /\ Local!StopNode[1] = "stop"
  /\ Local!NodeType[Local!StopNode] = "Stop"
  /\ Local!Succ[Local!StopNode] = Local!Nowhere
BY DEF Local!Node, Local!NodeType, Local!Succ, Local!StopNode

(* What a control step meets, and the shield's verdict.                    *)
LEMMA MetIs ==
  LET r == Local!Met IN
  /\ r.state_ok = TRUE /\ r.observe_ok = TRUE /\ r.policy_ok = TRUE /\ r.step_ok = TRUE
  /\ r.stability = "Stable" /\ r.risk = "low" /\ r.over_limit = FALSE /\ r.observed = TRUE
  /\ r.obstacle = "none" /\ r.require_observation = TRUE
  /\ r.emergency_stop = FALSE /\ r.manual_override = FALSE /\ r.override = "Pause"
  /\ r.in_zone = Local!InZone
  /\ r.reached = (current_node_id # Local!StopNode /\ Local!TargetDistance <= Local!Tolerance)
BY DEF Local!Met, Local!Nominal

PlanFor(n) ==
  IF Local!NodeType[n] \in {"MoveTo", "ReturnHome"} /\ ~Local!Met.reached
  THEN "BodyVelocity" ELSE "Stop"
VerdictFor(n) ==
  IF Local!InZone THEN [action |-> "Replan", decision |-> "Replan", event |-> "ForbiddenZone"]
  ELSE [action |-> PlanFor(n), decision |-> "Accepted", event |-> "None"]

(* The planner goes on until the target is reached; the shield accepts what*)
(* it is given outside the zone.                                           *)
LEMMA NodePlanned ==
  ASSUME NEW n, Local!NodeType[n] \in {"MoveTo", "ReturnHome", "Dwell", "Stop"}
  PROVE  /\ Local!Executor!Planned(n, Local!Met).action = PlanFor(n)
         /\ ~Local!Executor!Planned(n, Local!Met).over_limit
BY MetIs DEF PlanFor, Local!Executor!Planned, Local!Executor!View, Local!Executor!Infer,
   Local!Executor!RecoveryRequired, Local!Executor!NodePlan, Local!Executor!MovePlan,
   Local!Executor!Plan, Local!Executor!MovingType, Local!Executor!AvoidanceAction

LEMMA MovePlanned ==
  ASSUME NEW n, Local!NodeType[n] \in {"MoveTo", "ReturnHome"}
  PROVE  Local!Executor!Planned(n, Local!Met).target_reached <=> Local!Met.reached
BY MetIs DEF Local!Executor!Planned, Local!Executor!View, Local!Executor!Infer,
   Local!Executor!RecoveryRequired, Local!Executor!NodePlan, Local!Executor!MovePlan,
   Local!Executor!Plan, Local!Executor!MovingType, Local!Executor!AvoidanceAction

LEMMA NodeJudged ==
  ASSUME NEW n, Local!NodeType[n] \in {"MoveTo", "ReturnHome", "Dwell", "Stop"}
  PROVE  Local!Executor!Judged(n, Local!Met) = VerdictFor(n)
<1>. DEFINE r == Local!Met  p == Local!Executor!Planned(n, r)
<1>1. Local!Executor!Judged(n, r) = Local!Executor!Evaluate(p, r)
  BY MetIs DEF Local!Executor!Judged, Local!Executor!View
<1>2. p.action = PlanFor(n) /\ ~p.over_limit /\ PlanFor(n) \in {"BodyVelocity", "Stop"}
  <2>1. p.action = PlanFor(n) /\ ~p.over_limit BY NodePlanned
  <2>2. PlanFor(n) \in {"BodyVelocity", "Stop"} BY DEF PlanFor
  <2>. QED BY <2>1, <2>2
<1>3. Local!Executor!ProposalResult(p) =
        [action |-> PlanFor(n), decision |-> "Accepted", event |-> "None"]
  BY <1>2 DEF Local!Executor!ProposalResult, Local!Executor!BodyVelocityResult,
              Local!Executor!Terminal
<1>4. /\ ~Local!Executor!EmergencyStopAsked(r) /\ ~Local!Executor!ManualControlAsked(r)
      /\ r.override # "SafeStand" /\ ~Local!Executor!requires_safe_stand(r)
      /\ ~Local!Executor!observation_missing(r) /\ ~Local!Executor!collision_risk(r)
      /\ r.in_zone = Local!InZone
  BY MetIs DEF Local!Executor!EmergencyStopAsked, Local!Executor!ManualControlAsked,
               Local!Executor!requires_safe_stand, Local!Executor!observation_missing,
               Local!Executor!collision_risk
<1>. HIDE DEF r, p
<1>5. Local!Executor!Evaluate(p, r) =
        IF Local!InZone THEN [action |-> "Replan", decision |-> "Replan", event |-> "ForbiddenZone"]
        ELSE Local!Executor!ProposalResult(p)
  BY <1>4 DEF Local!Executor!Evaluate, Local!Executor!Terminal
<1>. QED BY <1>1, <1>3, <1>5 DEF VerdictFor, r

(* What a control step does at the node it stands on: it arrives there, or *)
(* completes it, or goes on with it.                                       *)
ArrivesAt(n, t) ==
  /\ n[1] = "move" /\ Local!TargetDistance <= Local!Tolerance
  /\ Local!Executor!FinishNode(n, "Succeeded", t) /\ Local!Executor!Advance(n)
  /\ result' = Local!Executor!Returned(TRUE) /\ commanded' = commanded

CompletesAt(n, t) ==
  /\ n[1] # "move"
  /\ Local!Executor!FinishNode(n, "Succeeded", t) /\ Local!Executor!Advance(n)
  /\ result' = [ok |-> TRUE, invoked |-> TRUE, stepped |-> TRUE, evaluation |-> VerdictFor(n)]
  /\ commanded' = VerdictFor(n).action

GoesOnAt(n, t) ==
  /\ n[1] # "stop" /\ Local!Executor!MarkRunning(n, t)
  /\ run_state' = run_state /\ current_node_id' = current_node_id
  /\ result' = [ok |-> TRUE, invoked |-> TRUE, stepped |-> TRUE, evaluation |-> VerdictFor(n)]
  /\ commanded' = VerdictFor(n).action

KindOf(n) ==
  /\ Local!NodeType[n] \in {"MoveTo", "ReturnHome"} <=> n[1] = "move"
  /\ Local!NodeType[n] = "Dwell" <=> n[1] = "dwell"
  /\ Local!NodeType[n] = "Stop" <=> n[1] = "stop"
  /\ Local!NodeType[n] \in {"MoveTo", "ReturnHome", "Dwell", "Stop"}
  /\ n[1] = "stop" <=> n = Local!StopNode

(* The type of a node tells what it is.                                    *)
LEMMA NodeKind == ASSUME NEW n \in Local!Node PROVE KindOf(n)
<1>1. CASE n = Local!StopNode BY <1>1, StopIs DEF KindOf, Local!StopNode
<1>2. ASSUME NEW i \in Local!Entries, n = <<"move", i>> PROVE KindOf(n)
  <2>1. n[1] = "move" /\ n # Local!StopNode BY <1>2 DEF Local!StopNode
  <2>2. Local!NodeType[n] \in {"MoveTo", "ReturnHome"} BY <1>2, MoveIs
  <2>. QED BY <2>1, <2>2 DEF KindOf
<1>3. ASSUME NEW i \in Local!Entries, n = <<"dwell", i>>, Local!HasDwell(i) PROVE KindOf(n)
  <2>1. n[1] = "dwell" /\ n # Local!StopNode BY <1>3 DEF Local!StopNode
  <2>2. Local!NodeType[n] = "Dwell" BY <1>3, DwellIs
  <2>. QED BY <2>1, <2>2 DEF KindOf
<1>. QED BY <1>1, <1>2, <1>3, NodesAre

(* A control step of a run that has not ended is one of the three.         *)
LEMMA StepShape ==
  ASSUME NEW n \in Local!Node, n = current_node_id, run_state = "Running", NEW t,
         Local!Executor!StepOnce(Local!Met, t)
  PROVE  ArrivesAt(n, t) \/ CompletesAt(n, t) \/ GoesOnAt(n, t)
<1>. DEFINE r == Local!Met  e == Local!Executor!Judged(n, r)
<1>1. KindOf(n) BY NodeKind
<1>2. Local!Executor!Judged(n, r) = VerdictFor(n) BY <1>1, NodeJudged DEF KindOf
<1>3. /\ ~Local!Executor!Rejects(e) /\ ~Local!Executor!should_pause_for_safety(e)
  BY <1>2 DEF VerdictFor, Local!Executor!Rejects, Local!Executor!should_pause_for_safety
<1>4. r.state_ok /\ r.policy_ok /\ r.step_ok /\ ~Local!Executor!NeedsTarget(n)
  BY <1>1, MetIs DEF KindOf, Local!Executor!NeedsTarget, Local!Executor!MovingType
<1>5. Local!Executor!Arrives(n, r) <=> n[1] = "move" /\ Local!TargetDistance <= Local!Tolerance
  <2>1. Local!NodeType[n] \in {"MoveTo", "ReturnHome"} =>
          (Local!Executor!Planned(n, r).target_reached <=> r.reached)
    BY MovePlanned
  <2>2. Local!NodeType[n] \in {"MoveTo", "ReturnHome"} <=> n[1] = "move" BY <1>1 DEF KindOf
  <2>3. n[1] = "move" => (r.reached <=> Local!TargetDistance <= Local!Tolerance)
    BY <1>1, MetIs DEF KindOf, Local!StopNode
  <2>. HIDE DEF r
  <2>4. Local!Executor!Arrives(n, r) <=>
          /\ Local!NodeType[n] \in {"MoveTo", "ReturnHome"}
          /\ Local!Executor!Planned(n, r).target_reached
    BY DEF Local!Executor!Arrives, Local!Executor!MovingType
  <2>. QED BY <2>1, <2>2, <2>3, <2>4
<1>6. \/ Local!Executor!StepArrives(n, r, t) \/ Local!Executor!StepCompletes(n, r, t)
      \/ Local!Executor!StepContinues(n, r, t)
  <2>1. PICK m \in Local!Node :
          \/ Local!Executor!StepNoState(m, r, t)
          \/ Local!Executor!StepNoPlan(m, r, t)
          \/ Local!Executor!StepArrives(m, r, t)
          \/ Local!Executor!StepAdapterFails(m, r, t)
          \/ Local!Executor!StepRejected(m, r, t)
          \/ Local!Executor!StepPaused(m, r, t)
          \/ Local!Executor!StepCompletes(m, r, t)
          \/ Local!Executor!StepContinues(m, r, t)
    BY DEF Local!Executor!StepOnce, Local!Executor!StepHalted, Local!Executor!StepMissingNode
  <2>. HIDE DEF r
  <2>2. m = n
    BY <2>1 DEF Local!Executor!StepNoState, Local!Executor!StepNoPlan, Local!Executor!StepArrives,
      Local!Executor!StepAdapterFails, Local!Executor!StepRejected, Local!Executor!StepPaused,
      Local!Executor!StepCompletes, Local!Executor!StepContinues, Local!Executor!Ready,
      Local!Executor!HasPlan, Local!Executor!Controls, Local!Executor!Controlled,
      Local!Executor!Undisturbed
  <2>. QED BY <1>3, <1>4, <2>1, <2>2 DEF Local!Executor!StepNoState, Local!Executor!StepNoPlan,
      Local!Executor!StepAdapterFails, Local!Executor!StepRejected, Local!Executor!StepPaused
<1>7. CASE Local!Executor!StepArrives(n, r, t)
  BY <1>5, <1>7 DEF Local!Executor!StepArrives, ArrivesAt, Local!Executor!Return
<1>8. ASSUME Local!Executor!Undisturbed(n, r)
      PROVE  /\ ~Local!Executor!Arrives(n, r) /\ commanded' = VerdictFor(n).action
             /\ result' = [ok |-> TRUE, invoked |-> TRUE, stepped |-> TRUE,
                            evaluation |-> VerdictFor(n)]
  BY <1>2, <1>3, <1>8 DEF Local!Executor!Undisturbed, Local!Executor!Controlled,
    Local!Executor!Controls
<1>9. CASE Local!Executor!StepCompletes(n, r, t)
  <2>1. n[1] # "move"
    BY <1>1, <1>9 DEF KindOf, Local!Executor!StepCompletes, Local!Executor!Completes
  <2>. QED BY <1>8, <1>9, <2>1 DEF Local!Executor!StepCompletes, CompletesAt
<1>10. CASE Local!Executor!StepContinues(n, r, t)
  <2>1. n[1] # "stop"
    BY <1>1, <1>10 DEF KindOf, Local!Executor!StepContinues, Local!Executor!Completes
  <2>. QED BY <1>8, <1>10, <2>1 DEF Local!Executor!StepContinues, GoesOnAt
<1>. QED BY <1>6, <1>7, <1>9, <1>10

(* A control step carries the robot no further than the flat ground's      *)
(* speed limit, and not back.                                              *)
LEMMA PartOf ==
  ASSUME NEW x \in Nat, NEW a \in Nat, NEW b \in Nat, a <= b, b > 0
  PROVE  (x * a) \div b \in 0..x
<1>1. x * a \in Nat /\ x * a <= x * b OBVIOUS
<1>. DEFINE p == x * a
<1>2. p \in Nat /\ p <= x * b BY <1>1
<1>. HIDE DEF p
<1>3. p \div b \in Nat /\ p \div b <= x BY <1>2
<1>. QED BY <1>3 DEF p

(* The ground is one of those with a limit and a progress.                 *)
LEMMA GroundIs ==
  ASSUME local_request \in LocalRequest
  PROVE  /\ Local!terrain_class \in {"flat", "slope", "gravel", "stairs", "low_friction", "unknown"}
         /\ Local!terrain_speed_limit[Local!terrain_class] \in 0..2200
         /\ Local!terrain_progress_scale[Local!terrain_class] \in 0..100
<1>1. local_request.terrain_pack \in DOMAIN Local!terrain_speed_limit \cup {"mixed"}
  BY LocalFits
<1>2. DOMAIN Local!terrain_speed_limit =
        {"flat", "slope", "gravel", "stairs", "low_friction", "unknown"}
  BY DEF Local!terrain_speed_limit
<1>3. Local!terrain_class \in {"flat", "slope", "gravel", "stairs", "low_friction", "unknown"}
  BY <1>1, <1>2 DEF Local!terrain_class
<1>. DEFINE c == Local!terrain_class
<1>. HIDE DEF c
<1>4. c \in {"flat", "slope", "gravel", "stairs", "low_friction", "unknown"} BY <1>3 DEF c
<1>5. Local!terrain_speed_limit[c] \in 0..2200 BY <1>4 DEF Local!terrain_speed_limit
<1>6. Local!terrain_progress_scale[c] \in 0..100 BY <1>4 DEF Local!terrain_progress_scale
<1>. QED BY <1>4, <1>5, <1>6 DEF c

(* A robot slows down near its target, and keeps to the limit.             *)
LEMMA CloseIs ==
  ASSUME NEW d \in Nat, NEW b \in Nat
  PROVE  Local!Larger(b \div 5, Local!Smaller(d, b)) \in Nat
         /\ Local!Larger(b \div 5, Local!Smaller(d, b)) <= b
<1>1. b \div 5 \in Nat /\ b \div 5 <= b OBVIOUS
<1>2. Local!Smaller(d, b) \in Nat /\ Local!Smaller(d, b) <= b BY DEF Local!Smaller
<1>. DEFINE r == b \div 5  m == Local!Smaller(d, b)
<1>. HIDE DEF r, m
<1>3. r \in Nat /\ r <= b /\ m \in Nat /\ m <= b BY <1>1, <1>2 DEF r, m
<1>4. Local!Larger(r, m) \in Nat /\ Local!Larger(r, m) <= b BY <1>3 DEF Local!Larger
<1>. QED BY <1>4 DEF r, m

LEMMA SpeedIs ==
  ASSUME NEW d \in Nat, Local!terrain_speed_limit[Local!terrain_class] \in Nat
  PROVE  Local!command_speed(d) \in 0..Local!terrain_speed_limit[Local!terrain_class]
<1>. DEFINE limit == Local!terrain_speed_limit[Local!terrain_class]
            b == Local!SlowDownRadius
            close == Local!Larger(b \div 5, Local!Smaller(d, b))
            speed == Local!command_speed(d)
<1>1. speed = (limit * close) \div b BY DEF Local!command_speed
<1>2. b \in Nat /\ b > 0 BY DEF Local!SlowDownRadius
<1>. HIDE DEF limit, b, speed
<1>3. close \in Nat /\ close <= b BY <1>2, CloseIs
<1>. HIDE DEF close
<1>4. limit \in Nat BY DEF limit
<1>5. speed \in 0..limit BY <1>1, <1>2, <1>3, <1>4, PartOf
<1>. QED BY <1>5 DEF speed, limit

LEMMA AdvanceIs ==
  ASSUME local_request \in LocalRequest, NEW d \in Nat
  PROVE  Local!Advance(d) \in Nat /\ Local!Advance(d) <= 2200
<1>. DEFINE limit == Local!terrain_speed_limit[Local!terrain_class]
            scale == Local!terrain_progress_scale[Local!terrain_class]
            speed == Local!command_speed(d)
            gait == Local!gait_progress_scale(speed)
<1>1. limit \in 0..2200 /\ scale \in 0..100 BY GroundIs
<1>. HIDE DEF limit
<1>2. limit \in Nat /\ limit <= 2200 BY <1>1
<1>3. speed \in 0..limit BY <1>2, SpeedIs DEF limit
<1>4. gait \in 0..100 BY DEF Local!gait_progress_scale
<1>5. Local!Advance(d) = (speed * scale * gait) \div 10000 BY DEF Local!Advance
<1>. HIDE DEF scale, speed, gait
<1>6. scale * gait \in Nat /\ scale * gait <= 10000
  <2>1. scale \in Nat /\ scale <= 100 /\ gait \in Nat /\ gait <= 100 BY <1>1, <1>4
  <2>2. scale * gait \in Nat /\ scale * gait <= 100 * gait BY <2>1
  <2>. DEFINE p == scale * gait
  <2>3. p \in Nat /\ p <= 100 * gait BY <2>2
  <2>. HIDE DEF p
  <2>4. p <= 10000 BY <2>1, <2>3
  <2>. QED BY <2>3, <2>4 DEF p
<1>7. speed * scale * gait = speed * (scale * gait) BY <1>1, <1>2, <1>3, <1>4
<1>8. speed \in Nat /\ speed <= 2200 BY <1>2, <1>3
<1>9. (speed * (scale * gait)) \div 10000 \in 0..speed BY <1>6, <1>8, PartOf
<1>10. Local!Advance(d) \in 0..speed BY <1>5, <1>7, <1>9
<1>. QED BY <1>8, <1>10

-----------------------------------------------------------------------------
(* What the summary may hold.                                              *)
SummaryType ==
  [state : {"none", "planned", "Created", "Running", "Succeeded"}, sim_time : Nat,
   base_position : Int, executed_step_count : Nat, adapter_step_count : Nat, safety_events : Nat,
   reached_target_count : Nat, route_completed : BOOLEAN]

(* What the variables hold: a run of this kind never fails or pauses.      *)
LocalTypes ==
  /\ local_request \in LocalRequest
  /\ local_pc \in {"begin", "steps", "evidence", "success", "failure"}
  /\ local_adapter \in {"Created", "Running", "Stopped"}
  /\ local_position \in Int /\ timestamp \in Nat /\ now \in Nat
  /\ run_state \in {"Created", "Running", "Succeeded"}
  /\ current_node_id \in Local!Node \cup {Local!Nowhere}
  /\ node_state \in [Local!Node -> {"Pending", "Running", "Succeeded"}]
  /\ started_at \in [Local!Node -> Nat] /\ finished_at \in [Local!Node -> Nat]
  /\ completed_node_count \in Nat
  /\ result \in Local!Executor!StepResult /\ result.ok
  /\ last_reading \in Local!Executor!ReadingType /\ commanded \in Local!Executor!ActionType
  /\ summary \in SummaryType

(* How far a run is: nowhere before it has begun, then at a node of the    *)
(* graph until it has succeeded, never beyond its budget.                  *)
Ran == local_adapter # "Created"
LocalPhase ==
  /\ local_pc = "begin" => ~Ran
  /\ local_pc \in {"steps", "evidence"} => Ran
  /\ local_pc = "success" /\ ~local_request.plan_only => Ran
  /\ ~Ran => /\ run_state = "Created" /\ current_node_id = Local!Nowhere
             /\ local_position = 0 /\ now = 0 /\ summary.safety_events = 0
  /\ Ran => /\ \/ run_state = "Running" /\ current_node_id \in Local!Node
               \/ run_state = "Succeeded" /\ current_node_id = Local!Nowhere
            /\ now <= Local!effective_step_limit
  /\ Ran /\ local_pc # "steps" =>
       local_adapter = "Stopped" /\ (run_state = "Succeeded" \/ now >= Local!effective_step_limit)

(* The entries whose move lies behind where the run stands.                *)
Passed(i) ==
  \/ run_state = "Succeeded" \/ current_node_id[1] = "stop"
  \/ current_node_id[1] = "move" /\ i < current_node_id[2]
  \/ current_node_id[1] = "dwell" /\ i <= current_node_id[2]

(* They have succeeded, and the robot is where it dwells or has ended.     *)
IsAt(i) == Local!Distance(local_position, LocalPath[i].at) <= Local!Tolerance
LocalPlace ==
  Ran => /\ \A i \in Local!Entries : Passed(i) => node_state[<<"move", i>>] = "Succeeded"
         /\ current_node_id[1] = "dwell" => IsAt(current_node_id[2])
         /\ run_state = "Succeeded" \/ current_node_id[1] = "stop" => IsAt(Len(LocalPath))

(* Without a zone there is no event, and with one the robot is at its edge *)
(* or before it.                                                           *)
LocalZone ==
  /\ Local!ClearWay => summary.safety_events = 0
  /\ ~Local!ClearWay => local_position <= local_request.zone[1] + 2200

(* The summary and the last frame tell where the run is.                   *)
LocalTelling ==
  Ran => /\ frames = Local!Frame(now + 1, summary)
         /\ summary.state = run_state
         /\ summary.route_completed <=> run_state = "Succeeded"
         /\ summary.route_completed =>
              summary.reached_target_count = Local!Cardinality(Local!TaskTargets)
         /\ \/ summary.base_position = local_position
            \/ summary.route_completed /\ summary.base_position = LocalPath[Len(LocalPath)].at

(* The files are a beginning of the list of them.                          *)
LocalFiles ==
  /\ files \in Seq(Local!Range(Local!EvidenceFiles))
  /\ Len(files) <= 5 /\ (local_pc = "evidence" => Len(files) < 5)
  /\ local_pc \in {"begin", "steps"} => files = <<>>
  /\ \A i \in DOMAIN files : files[i] = Local!EvidenceFiles[i]

LocalInv ==
  LocalTypes /\ LocalPhase /\ LocalPlace /\ LocalZone /\ LocalTelling /\ LocalFiles

(* The last task target is the last entry.                                 *)
LEMMA FinalIsLast == Local!Final = Len(LocalPath)
<1>1. Len(LocalPath) \in Local!TaskTargets /\ \A j \in Local!TaskTargets : j <= Len(LocalPath)
  <2>1. LocalPath[Len(LocalPath)].is_task_target BY PathFits
  <2>2. \A j \in Local!TaskTargets : j \in 1..Len(LocalPath) BY PathHas DEF Local!TaskTargets
  <2>3. Len(LocalPath) \in Local!Entries BY PathHas
  <2>. QED BY <2>1, <2>2, <2>3 DEF Local!TaskTargets
<1>2. \A i \in Local!TaskTargets : (\A j \in Local!TaskTargets : j <= i) => i = Len(LocalPath)
  <2>1. \A i \in Local!TaskTargets : i \in 1..Len(LocalPath) BY PathHas DEF Local!TaskTargets
  <2>2. Len(LocalPath) \in Nat BY PathHas
  <2>. QED BY <1>1, <2>1, <2>2
<1>. QED BY <1>1, <1>2 DEF Local!Final

(* The budget lies between what is asked for and the bound.                *)
LEMMA LimitIs ==
  ASSUME local_request \in LocalRequest
  PROVE  /\ Local!effective_step_limit \in Nat
         /\ local_request.max_steps <= Local!effective_step_limit
         /\ Local!effective_step_limit <= MaxLocalSteps
<1>. DEFINE m == local_request.max_steps  c == local_request.cap
            e == Local!estimate_required_step_count
<1>1. m \in 0..MaxLocalSteps /\ c \in 0..MaxLocalSteps /\ e \in Nat /\ MaxLocalSteps \in Nat
  BY LocalFits
<1>2. Local!effective_step_limit =
        IF ~local_request.auto_extend THEN m
        ELSE Local!Smaller(Local!Larger(m, e), Local!Larger(m, c))
  BY DEF Local!effective_step_limit
<1>. HIDE DEF m, c, e
<1>3. /\ Local!Smaller(Local!Larger(m, e), Local!Larger(m, c)) \in m..MaxLocalSteps
  BY <1>1 DEF Local!Smaller, Local!Larger
<1>. QED BY <1>1, <1>2, <1>3 DEF m

(* The invariant is as strong as the properties.                           *)
LEMMA LocalInvTells ==
  ASSUME LocalInv
  PROVE  Local!SummaryTells /\ Local!StandsAtItsTarget /\ Local!BundleNamesFiles
<1>. USE DEF LocalInv
<1>1. ASSUME Local!Answered
      PROVE  /\ summary.route_completed <=> run_state = "Succeeded"
             /\ summary.route_completed =>
                  /\ summary.reached_target_count = Local!Cardinality(Local!TaskTargets)
                  /\ Local!Distance(summary.base_position, local_position) <= Local!Tolerance
             /\ ~summary.route_completed =>
                  /\ summary.state = "Running" /\ now >= local_request.max_steps
                  /\ now = Local!effective_step_limit
             /\ frames = Local!Frame(now + 1, summary)
             /\ local_adapter = "Stopped"
  <2>1. Ran /\ local_pc = "success" BY <1>1 DEF Local!Answered, LocalPhase
  <2>2. run_state = "Running" => now = Local!effective_step_limit /\ now >= local_request.max_steps
    <3>. DEFINE l == Local!effective_step_limit  m == local_request.max_steps
    <3>1. l \in Nat /\ m <= l BY LimitIs DEF LocalTypes
    <3>2. run_state = "Running" => now <= l /\ now >= l BY <2>1 DEF LocalPhase
    <3>3. now \in Nat BY DEF LocalTypes
    <3>4. m \in Nat BY LocalFits DEF LocalTypes
    <3>. HIDE DEF l, m
    <3>5. run_state = "Running" => now = l /\ now >= m BY <3>1, <3>2, <3>3, <3>4
    <3>. QED BY <3>5 DEF l, m
  <2>3. summary.route_completed =>
          Local!Distance(summary.base_position, local_position) <= Local!Tolerance
    <3>. SUFFICES ASSUME summary.route_completed
                  PROVE  Local!Distance(summary.base_position, local_position) <= Local!Tolerance
      OBVIOUS
    <3>. DEFINE p == local_position  q == LocalPath[Len(LocalPath)].at
    <3>1. p \in Int /\ q \in Int
      <4>1. Len(LocalPath) \in Local!Entries BY PathHas
      <4>. QED BY <4>1, PathHas DEF LocalTypes
    <3>2. Local!Distance(p, q) <= Local!Tolerance
      BY <2>1 DEF LocalTelling, LocalPlace, IsAt
    <3>3. summary.base_position = p \/ summary.base_position = q BY <2>1 DEF LocalTelling
    <3>. HIDE DEF p, q
    <3>4. Local!Distance(p, p) <= Local!Tolerance /\ Local!Distance(q, p) <= Local!Tolerance
      BY <3>1, <3>2 DEF Local!Distance, Local!Tolerance
    <3>. QED BY <3>3, <3>4 DEF p
  <2>. QED BY <2>1, <2>2, <2>3 DEF LocalPhase, LocalTelling
<1>2. Local!SummaryTells
  <2>1. result.ok BY DEF LocalTypes
  <2>. QED BY <1>1, <2>1 DEF Local!SummaryTells
<1>3. current_node_id[1] = "dwell" => Local!TargetDistance <= Local!Tolerance
  <2>. SUFFICES ASSUME current_node_id[1] = "dwell" PROVE Local!TargetDistance <= Local!Tolerance
    OBVIOUS
  <2>1. current_node_id \in Local!Node BY DEF LocalTypes, Local!Nowhere
  <2>2. PICK i \in Local!Entries : current_node_id = <<"dwell", i>>
    BY <2>1, NodesAre DEF Local!StopNode
  <2>3. Ran BY <2>2 DEF LocalPhase, Local!Nowhere
  <2>4. IsAt(i) BY <2>2, <2>3 DEF LocalPlace
  <2>. QED BY <2>2, <2>4, FirstIs DEF IsAt, Local!TargetDistance, Local!Target
<1>4. run_state = "Succeeded" =>
        Local!Distance(local_position, LocalPath[Len(LocalPath)].at) <= Local!Tolerance
  BY DEF LocalPhase, LocalPlace, IsAt
<1>5. Local!StandsAtItsTarget
  BY <1>3, <1>4 DEF Local!StandsAtItsTarget, LocalZone, Local!terrain_speed_limit
<1>6. Local!BundleNamesFiles
  <2>. SUFFICES ASSUME NEW i \in DOMAIN files, files[i] = "bundle" PROVE Len(files) = 5
    <3>1. Len(Local!EvidenceFiles) = 5 BY DEF Local!EvidenceFiles
    <3>2. Local!Range(files) = {files[i] : i \in DOMAIN files} BY DEF Local!Range
    <3>. QED BY <3>1, <3>2 DEF Local!BundleNamesFiles
  <2>1. Len(files) \in Nat /\ i \in 1..Len(files) /\ Len(files) <= 5
    BY LenProperties DEF LocalFiles
  <2>2. Local!EvidenceFiles[i] = "bundle" BY DEF LocalFiles
  <2>3. i \in 1..5 BY <2>1
  <2>4. i = 5 BY <2>2, <2>3 DEF Local!EvidenceFiles
  <2>. DEFINE l == Len(files)
  <2>5. l \in Nat /\ 5 \in 1..l /\ l <= 5 BY <2>1, <2>4
  <2>. HIDE DEF l
  <2>6. l = 5 BY <2>5
  <2>. QED BY <2>6 DEF l
<1>. QED BY <1>2, <1>5, <1>6

(* What stays the same when the request does.                              *)
LEMMA SameRequest ==
  ASSUME local_request' = local_request
  PROVE  /\ Local!effective_step_limit' = Local!effective_step_limit
         /\ Local!ClearWay' <=> Local!ClearWay
BY DEF Local!effective_step_limit, Local!ClearWay

(* What is read and what is returned have their types.                     *)
LEMMA ReadingsAre == Local!Met \in Local!Executor!ReadingType
<1>. DEFINE z == Local!InZone
            r == current_node_id # Local!StopNode /\ Local!TargetDistance <= Local!Tolerance
<1>1. z \in BOOLEAN /\ r \in BOOLEAN BY DEF Local!InZone
<1>2. Local!Met = [Local!Nominal EXCEPT !.in_zone = z, !.reached = r] BY DEF Local!Met
<1>. HIDE DEF z, r
<1>3. [Local!Nominal EXCEPT !.in_zone = z, !.reached = r] \in Local!Executor!ReadingType
  BY <1>1 DEF Local!Executor!ReadingType, Local!Nominal, Local!Executor!StabilityState,
    Local!Executor!RiskBand, Local!Executor!ObstacleBand, Local!Executor!OverrideCommandType
<1>. QED BY <1>2, <1>3

LEMMA ReturnedIs ==
  /\ Local!Executor!Returned(TRUE) \in Local!Executor!StepResult
  /\ Local!Executor!Returned(TRUE).ok = TRUE /\ Local!Executor!Returned(TRUE).stepped = FALSE
  /\ Local!Executor!Returned(TRUE).evaluation.event = "None"
  /\ "Stop" \in Local!Executor!ActionType
BY DEF Local!Executor!Returned, Local!Executor!StepResult, Local!Executor!NoEvaluation,
  Local!Executor!Terminal, Local!Executor!SafetyEvaluation, Local!Executor!ActionType,
  Local!Executor!SafetyDecision, Local!Executor!TriggerType

(* The invariant holds at the start, and each step keeps it.               *)
LEMMA InitLocal == ASSUME Local!Init PROVE LocalInv
<1>1. /\ local_request \in LocalRequest /\ local_pc = "begin" /\ local_adapter = "Created"
      /\ local_position = 0 /\ timestamp = 0 /\ now = 0 /\ summary = Local!NoSummary
      /\ files = <<>> /\ run_state = "Created" /\ current_node_id = Local!Nowhere
      /\ node_state = [n \in Local!Node |-> "Pending"]
      /\ started_at = [n \in Local!Node |-> 0] /\ finished_at = [n \in Local!Node |-> 0]
      /\ completed_node_count = 0 /\ result = Local!Executor!Returned(TRUE) /\ commanded = "Stop"
  <2>1. Local!Executor!Init BY DEF Local!Init
  <2>2. /\ run_state = "Created" /\ current_node_id = Local!Nowhere
        /\ node_state = [n \in Local!Node |-> "Pending"]
        /\ started_at = [n \in Local!Node |-> 0] /\ finished_at = [n \in Local!Node |-> 0]
        /\ completed_node_count = 0 /\ result = Local!Executor!Returned(TRUE)
        /\ commanded = "Stop"
    BY <2>1, Zenon DEF Local!Executor!Init
  <2>. QED BY <2>2 DEF Local!Init
<1>2. last_reading \in Local!Executor!ReadingType
  <2>. DEFINE m(f) == [Local!Nominal EXCEPT !.reached = f[1], !.in_zone = f[2]]
              R == {m(f) : f \in BOOLEAN \X BOOLEAN}
  <2>1. ASSUME NEW f \in BOOLEAN \X BOOLEAN PROVE m(f) \in Local!Executor!ReadingType
    BY DEF Local!Executor!ReadingType, Local!Nominal, Local!Executor!StabilityState,
      Local!Executor!RiskBand, Local!Executor!ObstacleBand, Local!Executor!OverrideCommandType
  <2>2. last_reading = CHOOSE r \in R : TRUE BY Zenon DEF Local!Init, Local!Executor!Init
  <2>. HIDE DEF m
  <2>3. R \subseteq Local!Executor!ReadingType BY <2>1
  <2>4. m(<<TRUE, TRUE>>) \in R OBVIOUS
  <2>. HIDE DEF R
  <2>. QED BY <2>2, <2>3, <2>4
<1>3. summary \in SummaryType /\ summary.safety_events = 0 BY <1>1 DEF SummaryType, Local!NoSummary
<1>4. result \in Local!Executor!StepResult /\ result.ok /\ commanded \in Local!Executor!ActionType
  BY <1>1, ReturnedIs
<1>5. LocalTypes
  <2>1. /\ node_state \in [Local!Node -> {"Pending", "Running", "Succeeded"}]
        /\ started_at \in [Local!Node -> Nat] /\ finished_at \in [Local!Node -> Nat]
    BY <1>1
  <2>2. /\ local_position \in Int /\ timestamp \in Nat /\ now \in Nat
        /\ completed_node_count \in Nat
    BY <1>1
  <2>3. /\ local_request \in LocalRequest
        /\ local_pc \in {"begin", "steps", "evidence", "success", "failure"}
        /\ local_adapter \in {"Created", "Running", "Stopped"}
        /\ run_state \in {"Created", "Running", "Succeeded"}
        /\ current_node_id \in Local!Node \cup {Local!Nowhere}
    BY <1>1
  <2>. QED BY <1>2, <1>3, <1>4, <2>1, <2>2, <2>3 DEF LocalTypes
<1>6. LocalPhase BY <1>1, <1>3 DEF LocalPhase, Ran
<1>7. LocalPlace /\ LocalTelling BY <1>1 DEF LocalPlace, LocalTelling, Ran
<1>8. LocalZone
  <2>1. ~Local!ClearWay => local_request.zone[1] \in Nat
    BY <1>1, LocalFits DEF Local!ClearWay
  <2>. DEFINE a == local_request.zone[1]
  <2>. HIDE DEF a
  <2>2. ~Local!ClearWay => local_position <= a + 2200 BY <1>1, <2>1 DEF a
  <2>. QED BY <1>3, <2>2 DEF LocalZone, a
<1>9. LocalFiles BY <1>1 DEF LocalFiles
<1>. QED BY <1>5, <1>6, <1>7, <1>8, <1>9 DEF LocalInv

(* What is written down of a step, if all moves have succeeded where the   *)
(* run has.                                                                *)
LEMMA CountIs ==
  ASSUME NEW S \in SUBSET Local!Entries PROVE Local!Cardinality(S) \in Nat
<1>1. Local!Cardinality(S) = Cardinality(S) BY DEF Local!Cardinality, Cardinality
<1>2. Local!Entries = 1..Len(LocalPath) /\ Len(LocalPath) \in Nat BY PathHas
<1>3. IsFiniteSet(Local!Entries) BY <1>2, FS_Interval
<1>4. IsFiniteSet(S) BY <1>3, FS_Subset
<1>. QED BY <1>1, <1>4, FS_CardinalityType

LEMMA SummarizedIs ==
  ASSUME run_state' \in {"Running", "Succeeded"},
         timestamp' \in Nat, local_position' \in Int,
         run_state' = "Succeeded" =>
           \A i \in Local!Entries : node_state'[<<"move", i>>] = "Succeeded",
         NEW e \in Nat, NEW s \in Nat, NEW v \in Nat, summary' = Local!Summarized(e, s, v)
  PROVE  /\ summary' \in SummaryType /\ summary'.safety_events = v
         /\ summary'.state = run_state' /\ summary'.base_position = local_position'
         /\ summary'.route_completed <=> run_state' = "Succeeded"
         /\ summary'.route_completed =>
              summary'.reached_target_count = Local!Cardinality(Local!TaskTargets)
<1>. DEFINE R == {i \in Local!Entries : node_state'[<<"move", i>>] = "Succeeded"
                                          /\ LocalPath[Local!FirstOf(i)].is_task_target}
            c == Local!Cardinality(R)  t == Local!Cardinality(Local!TaskTargets)
<1>1. Local!TaskTargets \in SUBSET Local!Entries BY DEF Local!TaskTargets
<1>2. c \in Nat /\ t \in Nat BY <1>1, CountIs
<1>3. run_state' = "Succeeded" => c = t
  <2>. SUFFICES ASSUME run_state' = "Succeeded" PROVE R = Local!TaskTargets OBVIOUS
  <2>. QED BY FirstIs DEF Local!TaskTargets
<1>4. summary' =
        [state |-> run_state', sim_time |-> timestamp', base_position |-> local_position',
         executed_step_count |-> e, adapter_step_count |-> s, safety_events |-> v,
         reached_target_count |-> c, route_completed |-> c >= t /\ run_state' = "Succeeded"]
  BY DEF Local!Summarized, Local!ReachedTargets
<1>. DEFINE d == c >= t /\ run_state' = "Succeeded"
<1>. HIDE DEF c, t
<1>5. d \in BOOLEAN /\ (d <=> run_state' = "Succeeded") BY <1>2, <1>3
<1>. HIDE DEF d
<1>6. summary'.route_completed = d BY <1>4 DEF d
<1>7. /\ summary' \in SummaryType /\ summary'.safety_events = v /\ summary'.state = run_state'
      /\ summary'.base_position = local_position' /\ summary'.reached_target_count = c
  <2>1. run_state' \in {"none", "planned", "Created", "Running", "Succeeded"} OBVIOUS
  <2>. QED BY <1>2, <1>4, <1>5, <2>1 DEF d, SummaryType
<1>. QED BY <1>3, <1>5, <1>6, <1>7 DEF t

LEMMA BeginsLocal == ASSUME LocalInv, Local!Begins PROVE LocalInv'
<1>. DEFINE n == <<"move", 1>>
<1>1. 1 \in Local!Entries BY PathHas
<1>2. n \in Local!Node /\ n # Local!StopNode /\ n[1] = "move" /\ n[2] = 1 BY <1>1, MoveIs
<1>3. /\ local_pc = "begin" /\ local_pc' = "steps" /\ local_adapter' = "Running"
      /\ local_position' = 0 /\ timestamp' = 0 /\ now' = 0
      /\ run_state' = "Running" /\ current_node_id' = n
      /\ node_state' = [m \in Local!Node |-> "Pending"]
      /\ started_at' = [m \in Local!Node |-> 0] /\ finished_at' = [m \in Local!Node |-> 0]
      /\ completed_node_count' = 0 /\ result' = Local!Executor!Returned(TRUE)
      /\ last_reading' = last_reading /\ commanded' = commanded
      /\ summary' = Local!Summarized(0, 0, 0) /\ frames' = Local!Frame(1, summary')
      /\ local_request' = local_request /\ files' = files
  BY DEF Local!Begins, Local!Executor!Start
<1>. HIDE DEF n
<1>4. /\ summary' \in SummaryType /\ summary'.safety_events = 0
      /\ summary'.state = run_state' /\ summary'.base_position = local_position'
      /\ ~summary'.route_completed
  BY <1>3, SummarizedIs
<1>5. LocalTypes'
  <2>1. /\ node_state' \in [Local!Node -> {"Pending", "Running", "Succeeded"}]
        /\ started_at' \in [Local!Node -> Nat] /\ finished_at' \in [Local!Node -> Nat]
    BY <1>3
  <2>2. /\ local_position' \in Int /\ timestamp' \in Nat /\ now' \in Nat
        /\ completed_node_count' \in Nat
    BY <1>3
  <2>3. result' \in Local!Executor!StepResult /\ result'.ok BY <1>3, ReturnedIs
  <2>4. /\ local_request \in LocalRequest /\ last_reading \in Local!Executor!ReadingType
        /\ commanded \in Local!Executor!ActionType
    BY DEF LocalInv, LocalTypes
  <2>5. /\ local_request' \in LocalRequest
        /\ local_pc' \in {"begin", "steps", "evidence", "success", "failure"}
        /\ local_adapter' \in {"Created", "Running", "Stopped"}
        /\ run_state' \in {"Created", "Running", "Succeeded"}
        /\ current_node_id' \in Local!Node \cup {Local!Nowhere}
        /\ last_reading' \in Local!Executor!ReadingType
        /\ commanded' \in Local!Executor!ActionType
    BY <1>2, <1>3, <2>4
  <2>. QED BY <1>4, <2>1, <2>2, <2>3, <2>5 DEF LocalTypes
<1>6. LocalPhase'
  <2>1. Local!effective_step_limit' \in Nat
    BY <1>3, LimitIs, SameRequest DEF LocalInv, LocalTypes
  <2>. DEFINE l == Local!effective_step_limit'
  <2>. HIDE DEF l
  <2>2. now' <= l BY <1>3, <2>1 DEF l
  <2>3. Ran' /\ local_pc' = "steps" /\ run_state' = "Running" /\ current_node_id' \in Local!Node
    BY <1>2, <1>3 DEF Ran
  <2>. QED BY <2>2, <2>3 DEF LocalPhase, l
<1>7. LocalPlace'
  BY <1>1, <1>2, <1>3, PathHas DEF LocalPlace, Passed, n
<1>8. LocalZone'
  BY <1>3, <1>4, SameRequest, LocalFits DEF LocalZone, LocalInv, LocalTypes, Local!ClearWay
<1>9. LocalTelling' BY <1>3, <1>4 DEF LocalTelling, Ran
<1>10. LocalFiles' BY <1>3 DEF LocalFiles, LocalInv
<1>. QED BY <1>5, <1>6, <1>7, <1>8, <1>9, <1>10 DEF LocalInv

(* Where a control step leaves the graph.                                  *)
LEMMA SuccIs ==
  ASSUME NEW i \in Local!Entries
  PROVE  /\ Local!MoveAfter(i) \in Local!Node
         /\ \/ Local!MoveAfter(i) = Local!StopNode /\ i = Len(LocalPath)
            \/ /\ i + 1 \in Local!Entries /\ Local!MoveAfter(i) = <<"move", i + 1>>
               /\ i # Len(LocalPath)
<1>1. i \in 1..Len(LocalPath) /\ Len(LocalPath) \in Nat /\ Local!Entries = 1..Len(LocalPath)
  BY PathHas
<1>2. CASE i = Len(LocalPath) BY <1>2, StopIs DEF Local!MoveAfter
<1>3. CASE i # Len(LocalPath)
  <2>1. i + 1 \in Local!Entries BY <1>1, <1>3
  <2>. QED BY <1>3, <2>1, MoveIs DEF Local!MoveAfter
<1>. QED BY <1>2, <1>3

(* The places of the run after a step that changes node_state at n alone.  *)
MarksOnly(n, states) ==
  /\ node_state' \in [Local!Node -> {"Pending", "Running", "Succeeded"}]
  /\ \A m \in Local!Node : m # n \/ node_state[m] = "Succeeded" => node_state'[m] = node_state[m]
  /\ node_state'[n] \in states

LEMMA FinishMarks ==
  ASSUME LocalTypes, NEW n \in Local!Node, NEW t \in Nat,
         Local!Executor!FinishNode(n, "Succeeded", t)
  PROVE  /\ MarksOnly(n, {"Succeeded"})
         /\ started_at' \in [Local!Node -> Nat] /\ finished_at' \in [Local!Node -> Nat]
         /\ completed_node_count' \in Nat
BY DEF LocalTypes, MarksOnly, Local!Executor!FinishNode, Local!Executor!StartedAt

LEMMA RunningMarks ==
  ASSUME LocalTypes, NEW n \in Local!Node, NEW t \in Nat, Local!Executor!MarkRunning(n, t)
  PROVE  /\ MarksOnly(n, {"Running", "Succeeded"})
         /\ started_at' \in [Local!Node -> Nat] /\ finished_at' \in [Local!Node -> Nat]
         /\ completed_node_count' \in Nat
BY DEF LocalTypes, MarksOnly, Local!Executor!MarkRunning, Local!Executor!StartedAt

(* The robot moves by a step's length at most, and not if the step is no   *)
(* velocity, which it never is in the zone.                                *)
MovesBy(d) ==
  /\ local_position' = local_position + d
  /\ d # 0 => ~Local!InZone /\ current_node_id[1] = "move"
Hop == -2200..2200
RobotMoves == \E d \in Hop : MovesBy(d)

LEMMA TargetIs ==
  ASSUME NEW i \in Local!Entries, current_node_id[2] = i, local_position \in Int
  PROVE  Local!TargetDistance \in Nat /\ (Local!TargetDistance <= Local!Tolerance <=> IsAt(i))
<1>. DEFINE x == LocalPath[i].at  p == local_position
<1>1. Local!TargetDistance = Local!Distance(p, x)
  BY FirstIs DEF Local!TargetDistance, Local!Target
<1>2. x \in Int /\ p \in Int BY PathHas
<1>. HIDE DEF x, p
<1>3. Local!Distance(p, x) \in Nat BY <1>2 DEF Local!Distance
<1>. QED BY <1>1, <1>3 DEF IsAt, x, p

LEMMA ActionIs ==
  ASSUME NEW n \in Local!Node
  PROVE  /\ VerdictFor(n).action = "BodyVelocity" => ~Local!InZone /\ n[1] = "move"
         /\ VerdictFor(n).action \in Local!Executor!ActionType
         /\ [ok |-> TRUE, invoked |-> TRUE, stepped |-> TRUE, evaluation |-> VerdictFor(n)]
              \in Local!Executor!StepResult
         /\ VerdictFor(n).event # "None" => Local!InZone
<1>1. KindOf(n) BY NodeKind
<1>2. PlanFor(n) \in {"BodyVelocity", "Stop"} /\ (PlanFor(n) = "BodyVelocity" => n[1] = "move")
  BY <1>1 DEF PlanFor, KindOf
<1>3. \/ /\ VerdictFor(n) = [action |-> "Replan", decision |-> "Replan", event |-> "ForbiddenZone"]
         /\ Local!InZone
      \/ /\ VerdictFor(n) = [action |-> PlanFor(n), decision |-> "Accepted", event |-> "None"]
         /\ ~Local!InZone
  BY DEF VerdictFor
<1>4. VerdictFor(n) \in Local!Executor!SafetyEvaluation
  BY <1>2, <1>3 DEF Local!Executor!SafetyEvaluation, Local!Executor!ActionType,
    Local!Executor!SafetyDecision, Local!Executor!TriggerType
<1>. HIDE DEF VerdictFor
<1>5. VerdictFor(n).action \in Local!Executor!ActionType
  BY <1>4 DEF Local!Executor!SafetyEvaluation
<1>6. [ok |-> TRUE, invoked |-> TRUE, stepped |-> TRUE, evaluation |-> VerdictFor(n)]
              \in Local!Executor!StepResult
  BY <1>4 DEF Local!Executor!StepResult
<1>. QED BY <1>2, <1>3, <1>5, <1>6

LEMMA RobotIs ==
  ASSUME local_request \in LocalRequest, local_position \in Int,
         current_node_id \in Local!Node, Local!AdapterSteps,
         ~result'.stepped \/ commanded' = VerdictFor(current_node_id).action
  PROVE  RobotMoves
<1>1. CASE ~(result'.stepped /\ commanded' = "BodyVelocity")
  <2>1. MovesBy(0) BY <1>1 DEF Local!AdapterSteps, MovesBy
  <2>2. 0 \in Hop BY DEF Hop
  <2>. QED BY <2>1, <2>2 DEF RobotMoves
<1>2. CASE result'.stepped /\ commanded' = "BodyVelocity"
  <2>1. ~Local!InZone /\ current_node_id[1] = "move" BY <1>2, ActionIs
  <2>2. PICK i \in Local!Entries : current_node_id = <<"move", i>>
    BY <2>1, NodesAre DEF Local!StopNode
  <2>. DEFINE x == Local!TargetDistance  a == Local!Advance(x)  p == local_position
              q == local_position'
  <2>3. x \in Nat BY <2>2, TargetIs
  <2>4. q = p + a \/ q = p - a BY <1>2 DEF Local!AdapterSteps
  <2>5. a \in Nat /\ a <= 2200
    <3>. HIDE DEF x
    <3>. QED BY <2>3, AdvanceIs
  <2>6. p \in Int OBVIOUS
  <2>. HIDE DEF x, a, p, q
  <2>7. a \in Hop /\ -a \in Hop /\ p - a = p + (-a) BY <2>5, <2>6 DEF Hop
  <2>8. CASE q = p + a
    <3>1. MovesBy(a) BY <2>1, <2>8 DEF MovesBy, p, q
    <3>. QED BY <2>7, <3>1 DEF RobotMoves
  <2>9. CASE q = p - a
    <3>1. MovesBy(-a) BY <2>1, <2>7, <2>9 DEF MovesBy, p, q
    <3>. QED BY <2>7, <3>1 DEF RobotMoves
  <2>. QED BY <2>4, <2>8, <2>9
<1>. QED BY <1>1, <1>2

Placed ==
  /\ LocalPlace'
  /\ \/ run_state' = "Running" /\ current_node_id' \in Local!Node
     \/ run_state' = "Succeeded" /\ current_node_id' = Local!Nowhere

(* A run that leaves the node of an entry where the robot is stands well.  *)
LEMMA PlacedAfter ==
  ASSUME NEW i \in Local!Entries, IsAt(i), local_position' = local_position,
         \A j \in Local!Entries : j <= i => node_state'[<<"move", j>>] = "Succeeded",
         run_state' = "Running",
         \/ Local!HasDwell(i) /\ current_node_id' = <<"dwell", i>>
         \/ current_node_id' = Local!MoveAfter(i)
  PROVE  Placed
<1>1. IsAt(i)' BY DEF IsAt
<1>2. Local!Entries = 1..Len(LocalPath) /\ Len(LocalPath) \in Nat BY PathHas
<1>3. CASE Local!HasDwell(i) /\ current_node_id' = <<"dwell", i>>
  <2>1. \A j \in Local!Entries : Passed(j)' => j <= i BY <1>3 DEF Passed
  <2>. QED BY <1>1, <1>3, <2>1, DwellIs DEF Placed, LocalPlace
<1>4. CASE current_node_id' = Local!StopNode /\ i = Len(LocalPath)
  <2>1. \A j \in Local!Entries : j <= i BY <1>2, <1>4
  <2>. QED BY <1>1, <1>4, <2>1, StopIs DEF Placed, LocalPlace
<1>5. CASE i + 1 \in Local!Entries /\ current_node_id' = <<"move", i + 1>>
  <2>1. \A j \in Local!Entries : Passed(j)' => j <= i BY <1>2, <1>5 DEF Passed
  <2>. QED BY <1>5, <2>1, MoveIs DEF Placed, LocalPlace
<1>. QED BY <1>3, <1>4, <1>5, SuccIs

(* A control step leaves it so, whichever of the three it is.              *)
LEMMA ArrivesPlaced ==
  ASSUME LocalTypes, LocalPlace, Ran, NEW n \in Local!Node, n = current_node_id,
         run_state = "Running", NEW t \in Nat, ArrivesAt(n, t), local_position' = local_position
  PROVE  Placed
<1>1. PICK i \in Local!Entries : n = <<"move", i>>
  BY NodesAre DEF ArrivesAt, Local!StopNode
<1>2. IsAt(i) BY <1>1, TargetIs DEF ArrivesAt, LocalTypes
<1>3. MarksOnly(n, {"Succeeded"}) BY FinishMarks DEF ArrivesAt
<1>4. ASSUME NEW j \in Local!Entries, j <= i PROVE node_state'[<<"move", j>>] = "Succeeded"
  <2>1. CASE j = i BY <1>1, <1>3, <2>1 DEF MarksOnly
  <2>2. CASE j # i
    <3>1. j < i BY <1>4, <2>2, PathHas
    <3>2. node_state[<<"move", j>>] = "Succeeded" BY <1>1, <3>1 DEF LocalPlace, Passed
    <3>3. <<"move", j>> \in Local!Node BY MoveIs
    <3>. QED BY <1>3, <3>2, <3>3 DEF MarksOnly
  <2>. QED BY <2>1, <2>2
<1>5. /\ Local!Succ[n] # Local!Nowhere
      /\ \/ Local!HasDwell(i) /\ Local!Succ[n] = <<"dwell", i>>
         \/ Local!Succ[n] = Local!MoveAfter(i)
  <2>1. Local!Succ[n] = IF Local!HasDwell(i) THEN <<"dwell", i>> ELSE Local!MoveAfter(i)
    BY <1>1, MoveIs
  <2>2. Local!MoveAfter(i) # Local!Nowhere
    BY SuccIs DEF Local!Nowhere, Local!StopNode
  <2>. QED BY <2>1, <2>2 DEF Local!Nowhere
<1>6. run_state' = "Running" /\ current_node_id' = Local!Succ[n]
  BY <1>5 DEF ArrivesAt, Local!Executor!Advance
<1>. QED BY <1>2, <1>4, <1>5, <1>6, PlacedAfter

LEMMA CompletesPlaced ==
  ASSUME LocalTypes, LocalPlace, Ran, NEW n \in Local!Node, n = current_node_id,
         run_state = "Running", NEW t \in Nat, CompletesAt(n, t), local_position' = local_position
  PROVE  Placed
<1>1. MarksOnly(n, {"Succeeded"}) BY FinishMarks DEF CompletesAt
<1>2. ASSUME NEW j \in Local!Entries, Passed(j) PROVE node_state'[<<"move", j>>] = "Succeeded"
  <2>1. node_state[<<"move", j>>] = "Succeeded" BY <1>2 DEF LocalPlace
  <2>2. <<"move", j>> \in Local!Node BY MoveIs
  <2>. QED BY <1>1, <2>1, <2>2 DEF MarksOnly
<1>3. CASE n = Local!StopNode
  <2>1. n[1] = "stop" BY <1>3, StopIs
  <2>2. Local!Succ[n] = Local!Nowhere BY <1>3, StopIs
  <2>3. run_state' = "Succeeded" /\ current_node_id' = Local!Nowhere
    BY <2>2 DEF CompletesAt, Local!Executor!Advance
  <2>4. \A j \in Local!Entries : Passed(j) BY <2>1 DEF Passed
  <2>5. IsAt(Len(LocalPath)) BY <2>1 DEF LocalPlace
  <2>6. IsAt(Len(LocalPath))' BY <2>5 DEF IsAt
  <2>. QED BY <1>2, <2>3, <2>4, <2>6 DEF Placed, LocalPlace, Local!Nowhere
<1>4. ASSUME NEW i \in Local!Entries, n = <<"dwell", i>>, Local!HasDwell(i) PROVE Placed
  <2>1. n[1] = "dwell" /\ n[2] = i /\ Local!Succ[n] = Local!MoveAfter(i) BY <1>4, DwellIs
  <2>2. Local!MoveAfter(i) # Local!Nowhere BY SuccIs DEF Local!Nowhere, Local!StopNode
  <2>3. run_state' = "Running" /\ current_node_id' = Local!MoveAfter(i)
    BY <2>1, <2>2 DEF CompletesAt, Local!Executor!Advance
  <2>4. IsAt(i) BY <2>1 DEF LocalPlace
  <2>5. \A j \in Local!Entries : j <= i => Passed(j) BY <2>1 DEF Passed
  <2>. QED BY <1>2, <2>3, <2>4, <2>5, PlacedAfter
<1>5. ~\E i \in Local!Entries : n = <<"move", i>> BY DEF CompletesAt
<1>. QED BY <1>3, <1>4, <1>5, NodesAre

LEMMA GoesOnPlaced ==
  ASSUME LocalTypes, LocalPlace, Ran, NEW n \in Local!Node, n = current_node_id,
         run_state = "Running", NEW t \in Nat, GoesOnAt(n, t),
         local_position' = local_position \/ n[1] = "move"
  PROVE  Placed
<1>1. MarksOnly(n, {"Running", "Succeeded"}) BY RunningMarks DEF GoesOnAt
<1>2. run_state' = run_state /\ current_node_id' = n /\ n[1] # "stop" BY DEF GoesOnAt
<1>3. ASSUME NEW j \in Local!Entries, Passed(j)' PROVE node_state'[<<"move", j>>] = "Succeeded"
  <2>1. Passed(j) BY <1>2, <1>3 DEF Passed
  <2>2. node_state[<<"move", j>>] = "Succeeded" BY <2>1 DEF LocalPlace
  <2>3. <<"move", j>> \in Local!Node BY MoveIs
  <2>. QED BY <1>1, <2>2, <2>3 DEF MarksOnly
<1>4. n[1] = "dwell" => IsAt(n[2])'
  <2>. SUFFICES ASSUME n[1] = "dwell" PROVE IsAt(n[2])' OBVIOUS
  <2>1. IsAt(n[2]) BY DEF LocalPlace
  <2>2. local_position' = local_position OBVIOUS
  <2>. QED BY <2>1, <2>2 DEF IsAt
<1>. QED BY <1>2, <1>3, <1>4 DEF Placed, LocalPlace

LEMMA StepsLocal == ASSUME LocalInv, Local!Steps PROVE LocalInv'
<1>. DEFINE n == current_node_id  t == now + 1
<1>0. local_request \in LocalRequest BY DEF LocalInv, LocalTypes
<1>1. /\ local_pc = "steps" /\ run_state = "Running" /\ now < Local!effective_step_limit
      /\ Local!Executor!StepOnce(Local!Met, t) /\ Local!AdapterSteps
      /\ summary' = Local!Summarized(
           summary.executed_step_count + (IF result'.invoked THEN 1 ELSE 0),
           summary.adapter_step_count + (IF result'.stepped THEN 1 ELSE 0),
           summary.safety_events + (IF result'.evaluation.event # "None" THEN 1 ELSE 0))
      /\ frames' = Local!Frame(frames.count + 1, summary')
      /\ local_request' = local_request /\ local_pc' = local_pc /\ files' = files
  BY DEF Local!Steps, Local!Looping
<1>2. Ran /\ n \in Local!Node /\ t \in Nat
  BY <1>1 DEF LocalInv, LocalTypes, LocalPhase
<1>3. ArrivesAt(n, t) \/ CompletesAt(n, t) \/ GoesOnAt(n, t)
  BY <1>0, <1>1, <1>2, StepShape
<1>4. now' = t /\ last_reading' \in Local!Executor!ReadingType
  BY <1>1, ReadingsAre DEF Local!Executor!StepOnce
<1>. HIDE DEF n, t
<1>5. /\ result' \in Local!Executor!StepResult /\ result'.ok
      /\ commanded' \in Local!Executor!ActionType
      /\ ~result'.stepped \/ commanded' = VerdictFor(n).action
      /\ result'.evaluation.event # "None" => Local!InZone
  <2>1. CASE ArrivesAt(n, t)
    BY <2>1, ReturnedIs DEF ArrivesAt, LocalInv, LocalTypes
  <2>2. CASE CompletesAt(n, t) \/ GoesOnAt(n, t)
    <3>1. /\ result' = [ok |-> TRUE, invoked |-> TRUE, stepped |-> TRUE,
                        evaluation |-> VerdictFor(n)]
          /\ commanded' = VerdictFor(n).action
      BY <2>2 DEF CompletesAt, GoesOnAt
    <3>. QED BY <3>1, <1>0, <1>2, ActionIs
  <2>. QED BY <1>3, <2>1, <2>2
<1>6. RobotMoves
  <2>1. local_position \in Int BY DEF LocalInv, LocalTypes
  <2>. QED BY <1>0, <1>1, <1>2, <1>5, <2>1, RobotIs DEF n
<1>7. \/ local_position' = local_position
      \/ n[1] = "move" /\ ~Local!InZone
  <2>. DEFINE p == local_position  q == local_position'
  <2>1. PICK d \in Hop : MovesBy(d) BY <1>6 DEF RobotMoves
  <2>2. q = p + d /\ (d = 0 \/ (n[1] = "move" /\ ~Local!InZone)) BY <2>1 DEF MovesBy, n
  <2>3. p \in Int BY DEF LocalInv, LocalTypes
  <2>. HIDE DEF p, q, n
  <2>4. d = 0 => q = p BY <2>2, <2>3
  <2>. QED BY <2>2, <2>4 DEF p, q
<1>8. /\ node_state' \in [Local!Node -> {"Pending", "Running", "Succeeded"}]
      /\ started_at' \in [Local!Node -> Nat] /\ finished_at' \in [Local!Node -> Nat]
      /\ completed_node_count' \in Nat
  BY <1>2, <1>3, FinishMarks, RunningMarks
     DEF ArrivesAt, CompletesAt, GoesOnAt, MarksOnly, LocalInv
<1>9. Placed
  <2>1. CASE ArrivesAt(n, t)
    <3>1. ~result'.stepped BY <2>1, ReturnedIs DEF ArrivesAt
    <3>2. local_position' = local_position BY <1>1, <3>1 DEF Local!AdapterSteps
    <3>. QED BY <1>0, <1>1, <1>2, <2>1, <3>2, ArrivesPlaced DEF n, LocalInv
  <2>2. CASE CompletesAt(n, t)
    <3>1. local_position' = local_position BY <1>7, <2>2 DEF CompletesAt
    <3>. QED BY <1>0, <1>1, <1>2, <2>2, <3>1, CompletesPlaced DEF n, LocalInv
  <2>3. CASE GoesOnAt(n, t)
    BY <1>0, <1>1, <1>2, <1>7, <2>3, GoesOnPlaced DEF n, LocalInv
  <2>. QED BY <1>3, <2>1, <2>2, <2>3
<1>10. timestamp' \in Nat /\ local_position' \in Int /\ local_adapter' = local_adapter
  <2>1. timestamp \in Nat /\ local_position \in Int BY DEF LocalInv, LocalTypes
  <2>2. timestamp' = IF result'.stepped THEN timestamp + 1 ELSE timestamp
    BY <1>1 DEF Local!AdapterSteps
  <2>3. timestamp' \in Nat BY <2>1, <2>2
  <2>4. local_position' \in Int
    <3>. DEFINE p == local_position  q == local_position'
    <3>1. PICK d \in Hop : MovesBy(d) BY <1>6 DEF RobotMoves
    <3>2. p \in Int /\ q = p + d /\ d \in Int BY <2>1, <3>1 DEF MovesBy, Hop
    <3>. HIDE DEF p, q
    <3>3. q \in Int BY <3>2
    <3>. QED BY <3>3 DEF q
  <2>. QED BY <1>1, <2>3, <2>4 DEF Local!AdapterSteps
<1>. DEFINE e == summary.executed_step_count + (IF result'.invoked THEN 1 ELSE 0)
            s == summary.adapter_step_count + (IF result'.stepped THEN 1 ELSE 0)
            v == summary.safety_events + (IF result'.evaluation.event # "None" THEN 1 ELSE 0)
<1>11. e \in Nat /\ s \in Nat /\ v \in Nat /\ (Local!ClearWay => v = 0)
  <2>1. /\ summary.executed_step_count \in Nat /\ summary.adapter_step_count \in Nat
        /\ summary.safety_events \in Nat
    BY DEF LocalInv, LocalTypes, SummaryType
  <2>2. Local!ClearWay => ~Local!InZone /\ summary.safety_events = 0
    <3>1. Local!ClearWay => ~Local!InZone
      <4>. SUFFICES ASSUME Local!ClearWay, Local!InZone PROVE FALSE OBVIOUS
      <4>1. local_request.zone[1] = 1 /\ local_request.zone[2] = 0 BY DEF Local!ClearWay
      <4>2. 1 <= local_position /\ local_position <= 0 BY <4>1 DEF Local!InZone
      <4>3. local_position \in Int BY DEF LocalInv, LocalTypes
      <4>. QED BY <4>2, <4>3
    <3>. QED BY <3>1 DEF LocalInv, LocalZone
  <2>. QED BY <1>5, <2>1, <2>2
<1>12. summary' = Local!Summarized(e, s, v) BY <1>1
<1>. HIDE DEF e, s, v
<1>13. run_state' = "Succeeded" =>
         \A i \in Local!Entries : node_state'[<<"move", i>>] = "Succeeded"
  <2>1. Ran' BY <1>2, <1>10 DEF Ran
  <2>. QED BY <1>9, <2>1 DEF Placed, LocalPlace, Passed
<1>14. /\ summary' \in SummaryType /\ summary'.safety_events = v
       /\ summary'.state = run_state' /\ summary'.base_position = local_position'
       /\ summary'.route_completed <=> run_state' = "Succeeded"
       /\ summary'.route_completed =>
            summary'.reached_target_count = Local!Cardinality(Local!TaskTargets)
  <2>1. run_state' \in {"Running", "Succeeded"} BY <1>9 DEF Placed
  <2>. QED BY <1>0, <1>10, <1>11, <1>12, <1>13, <2>1, SummarizedIs
<1>15. LocalTypes'
  <2>1. run_state' \in {"Created", "Running", "Succeeded"}
        /\ current_node_id' \in Local!Node \cup {Local!Nowhere}
    BY <1>9 DEF Placed
  <2>. QED BY <1>1, <1>2, <1>4, <1>5, <1>8, <1>10, <1>14, <2>1 DEF LocalInv, LocalTypes
<1>16. LocalPhase'
  <2>. DEFINE l == Local!effective_step_limit
  <2>1. l \in Nat /\ l' = l BY <1>0, <1>1, LimitIs, SameRequest
  <2>. HIDE DEF l
  <2>2. now' <= l'
    <3>. DEFINE m == now
    <3>1. m \in Nat /\ m < l BY <1>1 DEF LocalInv, LocalTypes, l
    <3>. HIDE DEF m
    <3>2. m + 1 <= l BY <2>1, <3>1
    <3>. QED BY <1>4, <2>1, <3>2 DEF m, t
  <2>3. local_pc' = "steps" /\ Ran' BY <1>1, <1>2, <1>10 DEF Ran
  <2>. QED BY <1>9, <2>2, <2>3 DEF LocalPhase, Placed, l
<1>17. LocalPlace' BY <1>9 DEF Placed
<1>18. LocalZone'
  <2>1. Local!ClearWay' => summary'.safety_events = 0 BY <1>1, <1>11, <1>14, SameRequest
  <2>2. ~Local!ClearWay' => local_position' <= local_request'.zone[1] + 2200
    <3>. SUFFICES ASSUME ~Local!ClearWay
                  PROVE  local_position' <= local_request.zone[1] + 2200
      BY <1>1, SameRequest
    <3>. DEFINE p == local_position  q == local_position'  a == local_request.zone[1]
                b == local_request.zone[2]
    <3>1. a \in Nat /\ b \in Int /\ a + 2200 <= b
      BY <1>0, LocalFits DEF Local!ClearWay, Local!terrain_speed_limit
    <3>2. p \in Int /\ p <= a + 2200 BY DEF LocalInv, LocalTypes, LocalZone
    <3>3. PICK d \in Hop : MovesBy(d) BY <1>6 DEF RobotMoves
    <3>4. /\ q = p + d /\ (d # 0 => ~(a <= p /\ p <= b))
          /\ d \in Int /\ d <= 2200
      BY <3>3 DEF MovesBy, Local!InZone, Hop
    <3>. HIDE DEF p, q, a, b
    <3>5. q <= a + 2200 BY <3>1, <3>2, <3>4
    <3>. QED BY <3>5 DEF q, a
  <2>. QED BY <2>1, <2>2 DEF LocalZone
<1>19. LocalTelling'
  <2>1. frames.count = now + 1 BY <1>2 DEF LocalInv, LocalTelling, Local!Frame
  <2>2. frames' = Local!Frame(now' + 1, summary') BY <1>1, <1>4, <2>1 DEF t
  <2>. QED BY <1>14, <2>2 DEF LocalTelling
<1>20. LocalFiles' BY <1>1 DEF LocalFiles, LocalInv
<1>. QED BY <1>15, <1>16, <1>17, <1>18, <1>19, <1>20 DEF LocalInv

LEMMA RefusesLocal == ASSUME LocalInv, Local!Refuses \/ Local!Plans PROVE LocalInv'
<1>1. /\ local_pc = "begin" /\ ~Ran
      /\ \/ local_pc' = "failure" /\ summary' = summary
         \/ /\ local_pc' = "success" /\ local_request.plan_only
            /\ summary' = [Local!NoSummary EXCEPT !.state = "planned"]
      /\ local_request' = local_request /\ files' = files /\ frames' = frames
      /\ local_adapter' = local_adapter /\ local_position' = local_position
      /\ timestamp' = timestamp /\ run_state' = run_state /\ current_node_id' = current_node_id
      /\ node_state' = node_state /\ started_at' = started_at /\ finished_at' = finished_at
      /\ completed_node_count' = completed_node_count /\ result' = result
      /\ last_reading' = last_reading /\ commanded' = commanded /\ now' = now
  BY DEF Local!Refuses, Local!Plans, Local!adapter_vars, Local!executor_vars, LocalInv, LocalPhase
<1>2. ~Ran' BY <1>1 DEF Ran
<1>3. summary' \in SummaryType /\ (summary' = summary \/ summary'.safety_events = 0)
  <2>1. summary \in SummaryType BY DEF LocalInv, LocalTypes
  <2>2. /\ [Local!NoSummary EXCEPT !.state = "planned"] \in SummaryType
        /\ [Local!NoSummary EXCEPT !.state = "planned"].safety_events = 0
    <3>1. Local!NoSummary \in SummaryType /\ Local!NoSummary.safety_events = 0
      BY DEF Local!NoSummary, SummaryType
    <3>. QED BY <3>1 DEF SummaryType
  <2>. QED BY <1>1, <2>1, <2>2
<1>4. LocalTypes' BY <1>1, <1>3 DEF LocalInv, LocalTypes
<1>5. LocalPhase' BY <1>1, <1>2, <1>3 DEF LocalInv, LocalPhase
<1>6. LocalPlace' /\ LocalTelling' BY <1>2 DEF LocalPlace, LocalTelling
<1>7. LocalZone' BY <1>1, <1>3, SameRequest DEF LocalInv, LocalZone
<1>8. LocalFiles' BY <1>1 DEF LocalInv, LocalFiles
<1>. QED BY <1>4, <1>5, <1>6, <1>7, <1>8 DEF LocalInv

(* What a step keeps that leaves the executor and the robot alone.         *)
Kept ==
  /\ local_request' = local_request /\ local_position' = local_position
  /\ timestamp' = timestamp /\ run_state' = run_state /\ current_node_id' = current_node_id
  /\ node_state' = node_state /\ started_at' = started_at /\ finished_at' = finished_at
  /\ completed_node_count' = completed_node_count /\ result' = result
  /\ last_reading' = last_reading /\ commanded' = commanded /\ now' = now

LEMMA KeptPlace == ASSUME LocalPlace, Ran, Kept PROVE LocalPlace'
<1>1. \A i : (Passed(i)' <=> Passed(i)) /\ (IsAt(i)' <=> IsAt(i)) BY DEF Passed, IsAt, Kept
<1>. QED BY <1>1 DEF LocalPlace, Kept

LEMMA ConcludesLocal == ASSUME LocalInv, Local!Concludes PROVE LocalInv'
<1>1. /\ local_pc = "steps" /\ ~Local!Looping /\ Kept /\ files' = files
      /\ summary' = Local!PinnedToFinal
      /\ frames' = [frames EXCEPT !.base_position = summary'.base_position]
      /\ local_adapter' = "Stopped" /\ local_pc' \in {"evidence", "success"}
  BY DEF Local!Concludes, Kept, Local!executor_vars
<1>2. Ran /\ Ran' BY <1>1 DEF LocalInv, LocalPhase, Ran
<1>. DEFINE x == LocalPath[Len(LocalPath)].at
<1>3. summary' = IF summary.route_completed THEN [summary EXCEPT !.base_position = x] ELSE summary
  BY <1>1, FinalIsLast DEF Local!PinnedToFinal
<1>4. x \in Int BY PathHas
<1>. HIDE DEF x
<1>5. /\ summary' \in SummaryType /\ summary'.safety_events = summary.safety_events
      /\ summary'.state = summary.state
      /\ summary'.route_completed <=> summary.route_completed
      /\ summary'.reached_target_count = summary.reached_target_count
      /\ IF summary.route_completed THEN summary'.base_position = x ELSE summary' = summary
  <2>1. summary \in SummaryType BY DEF LocalInv, LocalTypes
  <2>. QED BY <1>3, <1>4, <2>1 DEF SummaryType
<1>6. LocalTypes' BY <1>1, <1>5 DEF LocalInv, LocalTypes, Kept
<1>7. LocalPhase'
  <2>. DEFINE l == Local!effective_step_limit
  <2>1. l' = l BY <1>1, SameRequest DEF Kept
  <2>2. l \in Nat BY LimitIs DEF LocalInv, LocalTypes
  <2>3. run_state # "Running" \/ ~(now < l) BY <1>1 DEF Local!Looping
  <2>. HIDE DEF l
  <2>4. now \in Nat BY DEF LocalInv, LocalTypes
  <2>5. run_state # "Running" \/ now >= l BY <2>2, <2>3, <2>4
  <2>. QED BY <1>1, <1>2, <2>1, <2>5 DEF LocalInv, LocalPhase, Kept, l
<1>8. LocalPlace' BY <1>1, <1>2, KeptPlace DEF LocalInv
<1>9. LocalZone' BY <1>1, <1>5, SameRequest DEF LocalInv, LocalZone, Kept
<1>10. LocalTelling'
  <2>1. frames' = Local!Frame(now + 1, summary')
    BY <1>1, <1>2, <1>5 DEF LocalInv, LocalTelling, Local!Frame
  <2>2. /\ summary.state = run_state
        /\ summary.route_completed <=> run_state = "Succeeded"
        /\ summary.route_completed =>
             summary.reached_target_count = Local!Cardinality(Local!TaskTargets)
        /\ summary.base_position = local_position \/ summary.route_completed
    BY <1>2 DEF LocalInv, LocalTelling
  <2>. QED BY <1>1, <1>5, <2>1, <2>2 DEF LocalTelling, Kept, x
<1>11. LocalFiles'
  <2>1. files' = <<>> /\ Len(<<>>) = 0 BY <1>1 DEF LocalInv, LocalFiles
  <2>. QED BY <1>1, <2>1 DEF LocalFiles
<1>. QED BY <1>6, <1>7, <1>8, <1>9, <1>10, <1>11 DEF LocalInv

LEMMA WritesLocal == ASSUME LocalInv, Local!Writes PROVE LocalInv'
<1>1. /\ local_pc = "evidence" /\ Kept /\ summary' = summary /\ frames' = frames
      /\ local_adapter' = local_adapter
      /\ \/ /\ files' = Append(files, Local!EvidenceFiles[Len(files) + 1])
            /\ local_pc' = IF Len(files') = Len(Local!EvidenceFiles) THEN "success" ELSE local_pc
         \/ local_pc' = "failure" /\ files' = files
  BY DEF Local!Writes, Kept, Local!adapter_vars, Local!executor_vars
<1>2. Ran /\ Ran' BY <1>1 DEF LocalInv, LocalPhase, Ran
<1>3. local_pc' \in {"evidence", "success", "failure"} BY <1>1
<1>4. LocalTypes' BY <1>1, <1>3 DEF LocalInv, LocalTypes, Kept
<1>5. LocalPhase'
  <2>1. Local!effective_step_limit' = Local!effective_step_limit BY <1>1, SameRequest DEF Kept
  <2>. QED BY <1>1, <1>2, <1>3, <2>1 DEF LocalInv, LocalPhase, Kept
<1>6. LocalPlace' BY <1>1, <1>2, KeptPlace DEF LocalInv
<1>7. LocalZone' BY <1>1, SameRequest DEF LocalInv, LocalZone, Kept
<1>8. LocalTelling' BY <1>1, <1>2 DEF LocalInv, LocalTelling, Kept
<1>9. LocalFiles'
  <2>1. CASE local_pc' = "failure" /\ files' = files BY <2>1 DEF LocalInv, LocalFiles
  <2>2. CASE /\ files' = Append(files, Local!EvidenceFiles[Len(files) + 1])
             /\ local_pc' = IF Len(files') = Len(Local!EvidenceFiles) THEN "success" ELSE local_pc
    <3>. DEFINE F == Local!Range(Local!EvidenceFiles)  k == Len(files)
    <3>1. files \in Seq(F) /\ k < 5 /\ \A i \in DOMAIN files : files[i] = Local!EvidenceFiles[i]
      BY <1>1 DEF LocalInv, LocalFiles
    <3>2. k \in Nat /\ DOMAIN files = 1..k BY <3>1, LenProperties
    <3>. HIDE DEF k
    <3>3. k + 1 \in 1..5 BY <3>1, <3>2 DEF k
    <3>4. Local!EvidenceFiles[k + 1] \in F /\ Len(Local!EvidenceFiles) = 5
      <4>1. DOMAIN Local!EvidenceFiles = 1..5 /\ Len(Local!EvidenceFiles) = 5
        BY DEF Local!EvidenceFiles
      <4>. QED BY <3>3, <4>1 DEF Local!Range
    <3>. HIDE DEF F
    <3>5. /\ files' \in Seq(F) /\ Len(files') = k + 1 /\ DOMAIN files' = 1..k + 1
          /\ files'[k + 1] = Local!EvidenceFiles[k + 1]
          /\ \A i \in 1..k : files'[i] = files[i]
      BY <2>2, <3>1, <3>2, <3>4, AppendProperties, LenProperties DEF k
    <3>6. \A i \in 1..k + 1 : files'[i] = Local!EvidenceFiles[i]
      BY <3>1, <3>2, <3>5
    <3>7. Len(files') <= 5 /\ (local_pc' = "evidence" => Len(files') < 5)
      <4>1. k + 1 <= 5 /\ (k + 1 # 5 => k + 1 < 5) BY <3>2, <3>3
      <4>2. local_pc' = "evidence" => k + 1 # 5 BY <2>2, <3>4, <3>5
      <4>. QED BY <3>5, <4>1, <4>2
    <3>8. local_pc' \notin {"begin", "steps"} BY <1>3
    <3>. QED BY <3>5, <3>6, <3>7, <3>8 DEF LocalFiles, F
  <2>. QED BY <1>1, <2>1, <2>2
<1>. QED BY <1>4, <1>5, <1>6, <1>7, <1>8, <1>9 DEF LocalInv

(* So every step of the run keeps it.                                      *)
LEMMA LocalStep == ASSUME LocalInv, [Local!Next]_(Local!vars) PROVE LocalInv'
<1>1. CASE Local!Next
  BY <1>1, RefusesLocal, BeginsLocal, StepsLocal, ConcludesLocal, WritesLocal DEF Local!Next
<1>2. CASE UNCHANGED Local!vars
  <2>1. /\ Kept /\ local_pc' = local_pc /\ local_adapter' = local_adapter /\ summary' = summary
        /\ frames' = frames /\ files' = files
    BY <1>2 DEF Kept, Local!vars, Local!adapter_vars, Local!executor_vars
  <2>2. Local!effective_step_limit' = Local!effective_step_limit
        /\ (Local!ClearWay' <=> Local!ClearWay)
    BY <2>1, SameRequest DEF Kept
  <2>3. LocalTypes' BY <2>1 DEF LocalInv, LocalTypes, Kept
  <2>4. LocalPhase' BY <2>1, <2>2 DEF LocalInv, LocalPhase, Kept, Ran
  <2>5. LocalPlace'
    <3>1. CASE Ran BY <2>1, <3>1, KeptPlace DEF LocalInv
    <3>2. CASE ~Ran BY <2>1, <3>2 DEF Ran, LocalPlace
    <3>. QED BY <3>1, <3>2
  <2>6. LocalZone' BY <2>1, <2>2 DEF LocalInv, LocalZone, Kept
  <2>7. LocalTelling' BY <2>1 DEF LocalInv, LocalTelling, Kept, Ran
  <2>8. LocalFiles' BY <2>1 DEF LocalInv, LocalFiles
  <2>. QED BY <2>3, <2>4, <2>5, <2>6, <2>7, <2>8 DEF LocalInv
<1>. QED BY <1>1, <1>2

(* The types of the variables follow.                                      *)
LEMMA LocalTyped == ASSUME LocalInv PROVE Local!TypeOK
<1>1. now \in 0..MaxLocalSteps
  <2>. DEFINE l == Local!effective_step_limit
  <2>1. l \in Nat /\ l <= MaxLocalSteps /\ MaxLocalSteps \in Nat
    BY LimitIs, LocalFits DEF LocalInv, LocalTypes
  <2>2. now \in Nat /\ (now <= l \/ now = 0) BY DEF LocalInv, LocalTypes, LocalPhase
  <2>. HIDE DEF l
  <2>. QED BY <2>1, <2>2
<1>2. run_state \in Local!Executor!ControlRunState
      /\ node_state \in [Local!Node -> Local!Executor!TaskNodeExecutionState]
  BY DEF LocalInv, LocalTypes, Local!Executor!ControlRunState, Local!Executor!TaskNodeExecutionState
<1>. QED BY <1>1, <1>2 DEF Local!TypeOK, Local!Executor!TypeOK, LocalInv, LocalTypes, LocalFiles,
                           SummaryType

-----------------------------------------------------------------------------
(* THE PARTS SIDE BY SIDE.                                                 *)

(* A step of the application is a step of the part or leaves its variables *)
(* alone.                                                                  *)
LEMMA TasksRun == AppSpec => Tasks!Spec
<1>1. AppInit => Tasks!Init BY DEF AppInit
<1>2. [AppNext]_app_vars => [Tasks!Next]_Tasks!vars
  <2>. SUFFICES ASSUME [AppNext]_app_vars PROVE Tasks!Next \/ UNCHANGED task_vars
    BY DEF Tasks!vars, task_vars
  <2>1. CASE UNCHANGED app_vars BY <2>1 DEF app_vars
  <2>2. CASE AppNext BY <2>2 DEF AppNext
  <2>. QED BY <2>1, <2>2
<1>. QED BY <1>1, <1>2, PTL DEF AppSpec, Tasks!Spec

LEMMA OrchestratorRuns == AppSpec => Tasks!Orchestrator!Spec
<1>1. AppInit => Tasks!Orchestrator!Init BY DEF AppInit
<1>2. [AppNext]_app_vars => [Tasks!Orchestrator!Next]_sessions
  <2>1. ASSUME UNCHANGED app_vars PROVE UNCHANGED sessions BY <2>1 DEF app_vars
  <2>2. ASSUME AppNext PROVE Tasks!Orchestrator!Next \/ UNCHANGED sessions BY <2>2 DEF AppNext
  <2>. QED BY <2>1, <2>2
<1>. QED BY <1>1, <1>2, PTL DEF AppSpec, Tasks!Orchestrator!Spec

LEMMA TrainingRuns == AppSpec => Training!Spec
<1>1. AppInit => Training!Init BY DEF AppInit
<1>2. [AppNext]_app_vars => [Training!Next]_Training!vars
  <2>. SUFFICES ASSUME [AppNext]_app_vars PROVE Training!Next \/ UNCHANGED training_vars
    BY DEF Training!vars, training_vars
  <2>1. CASE UNCHANGED app_vars BY <2>1 DEF app_vars
  <2>2. CASE AppNext BY <2>2 DEF AppNext
  <2>. QED BY <2>1, <2>2
<1>. QED BY <1>1, <1>2, PTL DEF AppSpec, Training!Spec

LEMMA StorageRuns == AppSpec => Storage!Spec
<1>1. AppInit => Storage!Init BY DEF AppInit
<1>2. [AppNext]_app_vars => [Storage!Next]_Storage!vars
  <2>. SUFFICES ASSUME [AppNext]_app_vars PROVE Storage!Next \/ UNCHANGED storage_vars
    BY DEF Storage!vars, storage_vars
  <2>1. CASE UNCHANGED app_vars BY <2>1 DEF app_vars
  <2>2. CASE AppNext BY <2>2 DEF AppNext
  <2>. QED BY <2>1, <2>2
<1>. QED BY <1>1, <1>2, PTL DEF AppSpec, Storage!Spec

LEMMA GovernanceRuns == AppSpec => Governance!Spec
<1>1. AppInit => Governance!Init BY DEF AppInit
<1>2. [AppNext]_app_vars => [Governance!Next]_Governance!vars
  <2>. SUFFICES ASSUME [AppNext]_app_vars PROVE Governance!Next \/ UNCHANGED governance_vars
    BY DEF Governance!vars, governance_vars
  <2>1. CASE UNCHANGED app_vars BY <2>1 DEF app_vars
  <2>2. CASE AppNext BY <2>2 DEF AppNext
  <2>. QED BY <2>1, <2>2
<1>. QED BY <1>1, <1>2, PTL DEF AppSpec, Governance!Spec

LEMMA SimulationRuns == AppSpec => Simulation!Spec
<1>1. AppInit => Simulation!Init BY DEF AppInit
<1>2. [AppNext]_app_vars => [Simulation!Next]_Simulation!vars
  <2>. SUFFICES ASSUME [AppNext]_app_vars PROVE Simulation!Next \/ UNCHANGED simulation_vars
    BY DEF Simulation!vars, simulation_vars
  <2>1. CASE UNCHANGED app_vars BY <2>1 DEF app_vars
  <2>2. CASE AppNext BY <2>2 DEF AppNext
  <2>. QED BY <2>1, <2>2
<1>. QED BY <1>1, <1>2, PTL DEF AppSpec, Simulation!Spec

LEMMA BackendsRun == AppSpec => Backends!Spec
<1>1. AppInit => Backends!Init BY DEF AppInit
<1>2. [AppNext]_app_vars => [Backends!Next]_Backends!vars
  <2>. SUFFICES ASSUME [AppNext]_app_vars PROVE Backends!Next \/ UNCHANGED backend_vars
    BY DEF Backends!vars, backend_vars
  <2>1. CASE UNCHANGED app_vars BY <2>1 DEF app_vars
  <2>2. CASE AppNext BY <2>2 DEF AppNext
  <2>. QED BY <2>1, <2>2
<1>. QED BY <1>1, <1>2, PTL DEF AppSpec, Backends!Spec

LEMMA WindowsRun == AppSpec => Windows!Spec
<1>1. AppInit => Windows!Init BY DEF AppInit
<1>2. [AppNext]_app_vars => [Windows!Next]_Windows!vars
  <2>. SUFFICES ASSUME [AppNext]_app_vars PROVE Windows!Next \/ UNCHANGED window_vars
    BY DEF Windows!vars, window_vars
  <2>1. CASE UNCHANGED app_vars BY <2>1 DEF app_vars
  <2>2. CASE AppNext BY <2>2 DEF AppNext
  <2>. QED BY <2>1, <2>2
<1>. QED BY <1>1, <1>2, PTL DEF AppSpec, Windows!Spec

LEMMA ParserRuns == AppSpec => Tasks!Parser!Spec
<1>1. AppInit => Tasks!Parser!Init BY DEF AppInit
<1>2. [AppNext]_app_vars => [Tasks!Parser!Next]_Tasks!Parser!vars
  <2>. SUFFICES ASSUME [AppNext]_app_vars PROVE Tasks!Parser!Next \/ UNCHANGED parser_vars
    BY DEF Tasks!Parser!vars, parser_vars
  <2>1. CASE UNCHANGED app_vars BY <2>1 DEF app_vars
  <2>2. CASE AppNext BY <2>2 DEF AppNext
  <2>. QED BY <2>1, <2>2
<1>. QED BY <1>1, <1>2, PTL DEF AppSpec, Tasks!Parser!Spec

LEMMA LocalRuns == AppSpec => Local!Spec
<1>1. AppInit => Local!Init BY DEF AppInit
<1>2. [AppNext]_app_vars => [Local!Next]_Local!vars
  <2>. SUFFICES ASSUME [AppNext]_app_vars PROVE Local!Next \/ UNCHANGED local_vars
    BY DEF Local!vars, Local!adapter_vars, Local!executor_vars, local_vars
  <2>1. CASE UNCHANGED app_vars BY <2>1 DEF app_vars
  <2>2. CASE AppNext BY <2>2 DEF AppNext
  <2>. QED BY <2>1, <2>2
<1>. QED BY <1>1, <1>2, PTL DEF AppSpec, Local!Spec

(* The catalog is over one repository all along: the part that moves stays *)
(* the one that moves.                                                     *)
LEMMA CatalogRuns ==
  /\ AppSpec /\ part = "scenes" => Scenes!Spec /\ [](part = "scenes")
  /\ AppSpec /\ part = "indexed_scenes" => IndexedScenes!Spec /\ [](part = "indexed_scenes")
  /\ AppSpec /\ part \notin {"scenes", "indexed_scenes"} =>
       [](part \notin {"scenes", "indexed_scenes"})
<1>1. AppInit => Scenes!Init /\ IndexedScenes!Init
  BY DEF AppInit, Scenes!Init, IndexedScenes!Init, Scenes!NoScene, IndexedScenes!NoScene,
         Scenes!Idle, IndexedScenes!Idle
<1>2. [AppNext]_app_vars => part' = part BY DEF AppNext, Moves, app_vars
<1>3. ASSUME [AppNext]_app_vars
      PROVE  /\ part = "scenes" => [Scenes!Next]_Scenes!vars
             /\ part = "indexed_scenes" => [IndexedScenes!Next]_IndexedScenes!vars
  <2>. SUFFICES /\ part = "scenes" => Scenes!Next \/ UNCHANGED scene_vars
                /\ part = "indexed_scenes" => IndexedScenes!Next \/ UNCHANGED scene_vars
    BY DEF Scenes!vars, IndexedScenes!vars, scene_vars
  <2>1. CASE UNCHANGED app_vars BY <2>1 DEF app_vars
  <2>2. CASE AppNext BY <2>2 DEF AppNext, Moves
  <2>. QED BY <1>3, <2>1, <2>2
<1>4. AppSpec /\ part = "scenes" => [](part = "scenes")
  <2>1. part = "scenes" /\ [AppNext]_app_vars => (part = "scenes")' BY <1>2
  <2>. QED BY <2>1, PTL DEF AppSpec
<1>5. AppSpec /\ part = "indexed_scenes" => [](part = "indexed_scenes")
  <2>1. part = "indexed_scenes" /\ [AppNext]_app_vars => (part = "indexed_scenes")' BY <1>2
  <2>. QED BY <2>1, PTL DEF AppSpec
<1>6. AppSpec /\ part \notin {"scenes", "indexed_scenes"} =>
        [](part \notin {"scenes", "indexed_scenes"})
  <2>1. part \notin {"scenes", "indexed_scenes"} /\ [AppNext]_app_vars =>
          (part \notin {"scenes", "indexed_scenes"})'
    BY <1>2
  <2>. QED BY <2>1, PTL DEF AppSpec
<1>7. part = "scenes" /\ [AppNext]_app_vars => [Scenes!Next]_Scenes!vars BY <1>3
<1>8. part = "indexed_scenes" /\ [AppNext]_app_vars => [IndexedScenes!Next]_IndexedScenes!vars
  BY <1>3
<1>. QED BY <1>1, <1>4, <1>5, <1>6, <1>7, <1>8, PTL DEF AppSpec, Scenes!Spec, IndexedScenes!Spec

-----------------------------------------------------------------------------
(* What runs was accepted, confirmed and handed off, a task on which       *)
(* requests come one at a time runs once; and the events of a session of   *)
(* the C++ service lead from its last submission to its state.             *)
THEOREM LoneTasksRun == ASSUME "none" \notin Task PROVE AppSpec => []LoneTaskRunsOnce
<1>1. Tasks!Spec => []Tasks!LoneTaskRunsOnce BY Tasks!LoneTaskRuns
<1>2. Tasks!LoneTaskRunsOnce /\ Tasks!Orchestrator!SessionTells => LoneTaskRunsOnce
  BY DEF LoneTaskRunsOnce
<1>. QED BY <1>1, <1>2, TasksRun, OrchestratorRuns, Tasks!SessionsTell, PTL

(* The events of a task tell every state it was in.                        *)
THEOREM EventsAreTold == ASSUME "none" \notin Task PROVE AppSpec => []EventsTellStates
<1>1. Tasks!Spec => []Tasks!EventsTellStates BY Tasks!EventsTell
<1>2. Tasks!EventsTellStates => EventsTellStates BY DEF EventsTellStates
<1>. QED BY <1>1, <1>2, TasksRun, PTL

(* One scene version at most is the baseline: over the unique index        *)
(* whatever overlaps, and without it when requests come one at a time.     *)
THEOREM BaselineIsKept == ASSUME Seeded \in Version PROVE AppSpec => []SceneBaseline
<1>1. Scenes!Spec => []Scenes!SceneBaseline BY Scenes!BaselineKept
<1>2. IndexedScenes!Spec => []IndexedScenes!SceneBaseline BY IndexedScenes!BaselineKept
<1>3. part = "scenes" /\ Scenes!SceneBaseline => SceneBaseline BY DEF SceneBaseline
<1>4. part = "indexed_scenes" /\ IndexedScenes!SceneBaseline => SceneBaseline
  BY DEF SceneBaseline
<1>5. part \notin {"scenes", "indexed_scenes"} => SceneBaseline BY DEF SceneBaseline
<1>6. part = "scenes" \/ part = "indexed_scenes" \/ part \notin {"scenes", "indexed_scenes"}
  OBVIOUS
<1>. QED BY <1>1, <1>2, <1>3, <1>4, <1>5, <1>6, CatalogRuns, PTL

(* A trained policy comes from a job that succeeded, and each such job has *)
(* left one; what is alone on a job only takes it forward.                 *)
THEOREM TrainingIsTold == AppSpec => TrainingTells
<1>1. MaxIterations \in Nat BY ApplicationAssumption
<1>2. Training!Spec => []Training!TrainedPoliciesTell BY <1>1, PoliciesTell
<1>3. Training!Spec => Training!LoneJobGoesForward BY <1>1, JobsGoForward
<1>. QED BY <1>2, <1>3, TrainingRuns, PTL DEF TrainingTells

(* The repository and its object store implement atomic calls, for any     *)
(* callers, records and files.                                             *)
THEOREM PromiseIsKept == ASSUME "free" \notin Caller PROVE AppSpec => KeepsItsPromise
<1>1. Storage!Spec => Storage!KeepsItsPromise BY Storage!PromiseImplemented
<1>. QED BY <1>1, StorageRuns DEF KeepsItsPromise

(* Requests of governance that come one at a time leave stages and flags   *)
(* that agree, and one baseline at most, without the unique index.         *)
THEOREM StagesAreKept == AppSpec => []StagesAgree
<1>1. Governance!Lone BY DEF Governance!Lone, LoneRequest
<1>2. MaxApprovals \in Nat BY ApplicationAssumption
<1>3. Governance!Spec => []Governance!StagesAgree BY <1>1, <1>2, Governance!StagesCorrect
<1>4. Governance!StagesAgree => StagesAgree BY DEF StagesAgree
<1>. QED BY <1>3, <1>4, GovernanceRuns, PTL

(* However drift and obstacles hold the robot up and bring it back, the    *)
(* targets of a run are reached in their order and each dwelt at for no    *)
(* more than its steps; a route that is completed has dwelt at all, if its *)
(* targets are numbered along it.  And a local run completes its route     *)
(* where its last target lies, with all task targets reached, or has used  *)
(* up its budget; its summary, its last frame and its files say so.        *)
THEOREM RoutesAreWalked == AppSpec => []RouteIsWalked
<1>1. Local!Spec => []LocalInv BY InitLocal, LocalStep, PTL DEF Local!Spec
<1>2. RunInv => Simulation!RouteIsWalked BY WalkInvImplies DEF RunInv
<1>3. Simulation!RouteIsWalked /\ LocalInv => RouteIsWalked
  BY LocalInvTells DEF RouteIsWalked
<1>. QED BY <1>1, <1>2, <1>3, RunInvariant, SimulationRuns, LocalRuns, PTL

(* However long the legs of a route, its dwells and its detours: a backend *)
(* that moves as commanded and meets no obstacle completes it within the   *)
(* steps that _estimated_required_step_count extends a request to; and     *)
(* however a run ends, its backend is closed or in error.                  *)
THEOREM RunsEndWell == AppSpec => []RunEndsWell
<1>1. RunInv => RunEndsWell BY BudgetImplies DEF RunInv, RunEndsWell
<1>. QED BY <1>1, RunInvariant, SimulationRuns, PTL

(* Whatever a local run meets, its variables have their types: the clock   *)
(* stays within the bound of step limits, and the executor within its own. *)
THEOREM LocalRunTyped == AppSpec => []Local!TypeOK
<1>1. Local!Spec => []LocalInv BY InitLocal, LocalStep, PTL DEF Local!Spec
<1>. QED BY <1>1, LocalTyped, LocalRuns, PTL

(* Whatever calls a backend is given in whatever order: it runs in the     *)
(* scene it was last reset in, MuJoCo with its model, and tells a distance *)
(* no longer than that of any box or sphere there, or of a cylinder whose  *)
(* centre is as high as the robot; a call that fails moves nothing, only   *)
(* an accepted step moves the robot, and Webots is handed the steps of its *)
(* run.                                                                    *)
THEOREM BackendsObey == AppSpec => BackendObeys
<1>1. BackendInv => Backends!ObservesItsRun BY BackendObserves
<1>2. Backends!Spec => []Backends!ObservesItsRun
  BY <1>1, InitBackend, BackendStep, PTL DEF Backends!Spec
<1>. QED BY <1>2, BackendsRun, MovesAreAccepted, PTL DEF BackendObeys

(* Whenever files are written between the listing of a frame and its end:  *)
(* from the moment a stop is taken a window's robot stands, and of a route *)
(* the targets are gone for in their order, none left out and each near    *)
(* when the next was gone for.                                             *)
THEOREM WindowsObey == AppSpec => WindowObeys
<1>1. Obeyed => (last.command_type = "run_path" =>
                   \A i \in DOMAIN passed : Windows!Abs(passed[i] - last.path[i]) <= Threshold)
  BY DEF Obeyed
<1>2. Obeyed => (last.command_type = "run_path" => active_target_index = Len(passed) + 1)
  BY DEF Obeyed
<1>3. [][StandsAfterStop]_Windows!vars <=>
        [][last'.command_type # "run_path" => window_position' = window_position]_Windows!vars
  BY DEF StandsAfterStop
<1>. QED BY <1>1, <1>2, <1>3, WindowsRun, WindowsObeyed, PTL DEF WindowObeys, Windows!WindowObeys

(* Whatever text comes over whatever catalog: no mention of a waypoint is  *)
(* lost or moved, a text that names a low-level action has no route, and   *)
(* walking the task graph passes every waypoint once and in order; a graph *)
(* of the C++ planner does so as well, through what the scene knows and    *)
(* with policies that may be executed.                                     *)
THEOREM TextsBecomeRoutes == AppSpec => []TextBecomesRoute
<1>1. Tasks!TextsFit /\ Tasks!SubmissionsFit BY TextsAndSubmissionsFit
<1>2. Tasks!Parser!Spec => []Tasks!Parser!TextBecomesRoute BY <1>1, Tasks!TextsKeep
<1>3. Tasks!Orchestrator!Spec => []Tasks!Orchestrator!GraphIsSound
  BY <1>1, Tasks!GraphsAreSound
<1>. QED BY <1>2, <1>3, ParserRuns, OrchestratorRuns, PTL DEF TextBecomesRoute
=============================================================================
