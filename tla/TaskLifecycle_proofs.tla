-------------------------- MODULE TaskLifecycle_proofs --------------------------
(***************************************************************************)
(* Proofs about the tasks of TaskLifecycle, for any tasks, requests and    *)
(* crashes: what runs was accepted, confirmed and handed off, a task on    *)
(* which requests come one at a time runs once, and its events tell its    *)
(* states.                                                                 *)
(*                                                                         *)
(* A request saves what it decided on a state that it read before, and a   *)
(* run is the end of three saves with appends between them.  So the        *)
(* invariants say of a request, wherever it stands, what it has read and   *)
(* still owes: Stands that what it read was ever saved, Alone that it is   *)
(* still so if no other request is on the task, Logged that the states     *)
(* without an event are those whose events requests have yet to append.    *)
(*                                                                         *)
(* Behind them stand the proofs about what a task is made from and what    *)
(* holds it in the C++ service: texts (TextsKeep, over the parser's steps  *)
(* ParserKeeps), sessions (SessionsTell, over SessionInv) and the graphs   *)
(* planned for submissions (GraphsAreSound, over GraphKept).  Application  *)
(* takes them from here for its own theorems.                              *)
(***************************************************************************)
EXTENDS TaskLifecycle, FiniteSetTheorems, SequenceTheorems, WellFoundedInduction, TLAPS

-----------------------------------------------------------------------------
(* The invariants.                                                         *)

Pc == {"idle", "append", "confirm", "save_confirm", "handoff", "save_handoff", "cancel",
       "save_cancel", "accept", "execute"}
RequestState == [pc : Pc, goal : AnyGoal \cup {"none"}, task : Task \cup {"none"},
                 saves : TaskState \cup {"none"}, todo : Seq(TaskEvent)]

TypeInv ==
  /\ task \in [Task -> TaskState \cup {"none"}] /\ events \in [Task -> Seq(TaskEvent)]
  /\ control \in [Task -> {"none", "running", "result"}] /\ worker \in [Task -> Nat]
  /\ request \in [Request -> RequestState]
  /\ was \in [Task -> SUBSET TaskState] /\ runs \in [Task -> Nat]
  /\ shared \subseteq Task /\ cut \subseteq Task /\ crashes \in Nat

(* What a request has read was saved at some time, and what it still       *)
(* appends is the event of what it saved, after that of a submission.      *)
Stands(r) ==
  LET q == request[r]
  IN /\ IF q.pc = "idle" THEN q = Idle ELSE q.task \in Task /\ task[q.task] # "none"
     /\ q.pc = "save_confirm" => "preview_ready" \in was[q.task]
     /\ q.pc = "save_handoff" => "confirmed" \in was[q.task]
     /\ q.pc \in {"accept", "execute"} => "handed_off" \in was[q.task]
     /\ q.pc = "append" =>
          /\ q.saves \in was[q.task]
          /\ \/ q.todo = <<EventOf(q.saves)>>
             \/ q.todo = <<"submitted", EventOf(q.saves)>>

(* The states a task was in come in their order, and what runs was handed  *)
(* off.                                                                    *)
History(t) ==
  /\ task[t] = "none" => was[t] = {} /\ events[t] = <<>>
  /\ task[t] # "none" => task[t] \in was[t]
  /\ "confirmed" \in was[t] => "preview_ready" \in was[t]
  /\ "handed_off" \in was[t] => "confirmed" \in was[t]
  /\ runs[t] > 0 \/ worker[t] > 0 \/ control[t] # "none" => "handed_off" \in was[t]

HistoryInv ==
  /\ TypeInv
  /\ \A r \in Request : Stands(r)
  /\ \A t \in Task : History(t)

(* A request that is alone on its task finds it as it read and saved it.   *)
StandsAlone(r) ==
  LET q == request[r]
      state == task[q.task]
  IN /\ q.pc = "save_confirm" => state = "preview_ready"
     /\ q.pc = "save_handoff" => state = "confirmed"
     /\ q.pc = "save_cancel" => state \in {"preview_ready", "rejected", "confirmed"}
     /\ q.pc = "append" => state = q.saves
     /\ q.pc \in {"accept", "execute"} => state = "handed_off"
     /\ q.pc \in {"accept", "execute"} \/ (q.pc = "append" /\ q.saves = "handed_off") =>
          runs[q.task] = 0 /\ worker[q.task] = 0

(* A task on which no two requests were at once: a handoff and a           *)
(* cancellation are its last states, and it has run at most once.          *)
Alone(t) ==
  /\ \A r, p \in Request : On(r) = t /\ On(p) = t => r = p
  /\ \A r \in Request : On(r) = t => StandsAlone(r)
  /\ "handed_off" \in was[t] => task[t] = "handed_off"
  /\ "cancelled" \in was[t] => task[t] = "cancelled"
  /\ runs[t] + worker[t] <= 1

AloneInv == HistoryInv /\ \A t \in Task \ shared : Alone(t)

-----------------------------------------------------------------------------
(* The events of a task, those of its states, and those that requests are  *)
(* still to append.                                                        *)
EventsOf(t) == {events[t][k] : k \in DOMAIN events[t]}
Expected(t) == {EventOf(s) : s \in was[t]} \cup {"submitted"}
Owes(r, e) ==
  At(r, "append") /\ \E k \in DOMAIN request[r].todo : request[r].todo[k] = e

Logged(t) ==
  /\ EventsOf(t) \subseteq Expected(t)
  /\ \A e \in Expected(t) : e \in EventsOf(t) \/ \E r \in Request : On(r) = t /\ Owes(r, e)

(* The last event of a task is that of its state, unless that is owed.     *)
LastLogged(t) ==
  \/ \E r \in Request : On(r) = t /\ At(r, "append")
  \/ events[t] # <<>> /\ events[t][Len(events[t])] = EventOf(task[t])

LogInv ==
  /\ AloneInv
  /\ \A t \in Task \ cut : task[t] # "none" => Logged(t)
  /\ \A t \in Task \ (cut \cup shared) : task[t] # "none" => LastLogged(t)

-----------------------------------------------------------------------------
(* What the steps of a request do to it.                                   *)

LEMMA EventsOfStates ==
  /\ \A s \in TaskState : EventOf(s) \in TaskEvent
  /\ \A s \in {"rejected", "confirmed", "handed_off", "cancelled"} : EventOf(s) = s
  /\ EventOf("preview_ready") = "preview_generated"
BY DEF EventOf, TaskState, TaskEvent

LEMMA IdleIsRequest == Idle \in RequestState
<1>1. <<>> \in Seq(TaskEvent) OBVIOUS
<1>. QED BY <1>1 DEF Idle, RequestState, Pc

LEMMA AsksStep ==
  ASSUME TypeInv, NEW r \in Request, Asks(r)
  PROVE  \E t \in Task, q \in RequestState :
           /\ task[t] # "none" /\ request' = [request EXCEPT ![r] = q]
           /\ q.pc \in {"confirm", "handoff", "cancel"} /\ q.task = t
           /\ shared' = IF \E p \in Request : On(p) = t THEN shared \cup {t} ELSE shared
<1>1. PICK t \in Task, g \in Goal \cap {"confirm", "handoff", "cancel"} :
        /\ task[t] # "none"
        /\ request' = [request EXCEPT ![r] = [Idle EXCEPT !.pc = g, !.goal = g, !.task = t]]
        /\ shared' = IF \E p \in Request : On(p) = t THEN shared \cup {t} ELSE shared
  BY DEF Asks
<1>. DEFINE q == [Idle EXCEPT !.pc = g, !.goal = g, !.task = t]
<1>2. <<>> \in Seq(TaskEvent) OBVIOUS
<1>3. q \in RequestState /\ q.pc = g /\ q.task = t BY <1>2 DEF Idle, RequestState, Pc, AnyGoal
<1>4. request' = [request EXCEPT ![r] = q] BY <1>1
<1>. HIDE DEF q
<1>. QED BY <1>1, <1>3, <1>4

LEMMA SubmitsStep ==
  ASSUME TypeInv, NEW r \in Request, Submits(r)
  PROVE  \E t \in Task, s \in {"preview_ready", "rejected"}, q \in RequestState :
           /\ task[t] = "none" /\ request' = [request EXCEPT ![r] = q]
           /\ q.pc = "append" /\ q.task = t /\ q.saves = s
           /\ q.todo = <<"submitted", EventOf(s)>>
           /\ task' = [task EXCEPT ![t] = s] /\ was' = [was EXCEPT ![t] = {s}]
<1>1. PICK t \in Task, g \in Goal \cap (Run \cup {"submit"}) :
        /\ task[t] = "none"
        /\ \E accepted \in BOOLEAN :
             LET state == IF accepted THEN "preview_ready" ELSE "rejected"
             IN /\ task' = [task EXCEPT ![t] = state] /\ was' = [was EXCEPT ![t] = {state}]
                /\ request' = [request EXCEPT ![r] =
                     [pc |-> "append", goal |-> g, task |-> t, saves |-> state,
                      todo |-> <<"submitted",
                                 IF accepted THEN "preview_generated" ELSE "rejected">>]]
  BY DEF Submits
<1>2. PICK s \in {"preview_ready", "rejected"} :
        /\ task' = [task EXCEPT ![t] = s] /\ was' = [was EXCEPT ![t] = {s}]
        /\ request' = [request EXCEPT ![r] =
             [pc |-> "append", goal |-> g, task |-> t, saves |-> s,
              todo |-> <<"submitted", EventOf(s)>>]]
  BY <1>1 DEF EventOf
<1>. DEFINE todo == <<"submitted", EventOf(s)>>
<1>3. todo \in Seq(TaskEvent) BY DEF EventOf, TaskEvent
<1>4. request' = [request EXCEPT ![r] =
        [pc |-> "append", goal |-> g, task |-> t, saves |-> s, todo |-> todo]]
  BY <1>2
<1>5. todo = <<"submitted", EventOf(s)>> OBVIOUS
<1>. HIDE DEF todo
<1>. DEFINE q == [pc |-> "append", goal |-> g, task |-> t, saves |-> s, todo |-> todo]
<1>6. /\ q \in RequestState /\ q.pc = "append" /\ q.task = t /\ q.saves = s
      /\ q.todo = todo
  BY <1>3 DEF RequestState, Pc, AnyGoal, Run, TaskState
<1>7. request' = [request EXCEPT ![r] = q] BY <1>4
<1>8. /\ task[t] = "none" /\ request' = [request EXCEPT ![r] = q]
      /\ q.pc = "append" /\ q.task = t /\ q.saves = s
      /\ q.todo = <<"submitted", EventOf(s)>>
      /\ task' = [task EXCEPT ![t] = s] /\ was' = [was EXCEPT ![t] = {s}]
  BY <1>1, <1>2, <1>5, <1>6, <1>7
<1>9. t \in Task /\ s \in {"preview_ready", "rejected"} /\ q \in RequestState
  BY <1>1, <1>2, <1>6
<1>. HIDE DEF q
<1>. QED BY <1>8, <1>9

LEMMA ReadsStep ==
  ASSUME TypeInv, NEW r \in Request, ConfirmReads(r) \/ HandoffReads(r) \/ CancelReads(r)
  PROVE  /\ UNCHANGED <<tables, worker, past>>
         /\ request[r].pc \in {"confirm", "handoff", "cancel"}
         /\ \E q \in RequestState :
              /\ request' = [request EXCEPT ![r] = q]
              /\ \/ q = Idle
                 \/ /\ q.task = On(r)
                    /\ \/ q.pc = "save_confirm" /\ task[On(r)] = "preview_ready"
                       \/ q.pc = "save_handoff" /\ task[On(r)] = "confirmed"
                       \/ /\ q.pc = "save_cancel"
                          /\ task[On(r)] \in {"preview_ready", "rejected", "confirmed"}
<1>0. request[r] \in RequestState BY DEF TypeInv
<1>1. ASSUME NEW pc \in Pc
      PROVE  /\ [request[r] EXCEPT !.pc = pc] \in RequestState
             /\ [request[r] EXCEPT !.pc = pc].task = On(r)
             /\ [request[r] EXCEPT !.pc = pc].pc = pc
  BY <1>0 DEF RequestState, On
<1>2. CASE request' = [request EXCEPT ![r] = Idle]
  BY <1>2, IdleIsRequest DEF ConfirmReads, HandoffReads, CancelReads, Reads, At
<1>3. CASE ConfirmReads(r) /\ request' # [request EXCEPT ![r] = Idle]
  <2>1. /\ request' = [request EXCEPT ![r] = [@ EXCEPT !.pc = "save_confirm"]]
        /\ task[On(r)] = "preview_ready" /\ "save_confirm" \in Pc
        /\ UNCHANGED <<tables, worker, past>> /\ request[r].pc = "confirm"
    BY <1>3 DEF ConfirmReads, Reads, GoTo, Done, At, Pc
  <2>. QED BY <1>1, <2>1
<1>4. CASE HandoffReads(r) /\ request' # [request EXCEPT ![r] = Idle]
  <2>1. /\ request' = [request EXCEPT ![r] = [@ EXCEPT !.pc = "save_handoff"]]
        /\ task[On(r)] = "confirmed" /\ "save_handoff" \in Pc
        /\ UNCHANGED <<tables, worker, past>> /\ request[r].pc = "handoff"
    BY <1>4 DEF HandoffReads, Reads, GoTo, Done, At, Pc
  <2>. QED BY <1>1, <2>1
<1>5. CASE CancelReads(r) /\ request' # [request EXCEPT ![r] = Idle]
  <2>1. /\ request' = [request EXCEPT ![r] = [@ EXCEPT !.pc = "save_cancel"]]
        /\ task[On(r)] \in {"preview_ready", "rejected", "confirmed"} /\ "save_cancel" \in Pc
        /\ UNCHANGED <<tables, worker, past>> /\ request[r].pc = "cancel"
    BY <1>5 DEF CancelReads, Reads, GoTo, Done, At, Pc
  <2>. QED BY <1>1, <2>1
<1>. QED BY <1>2, <1>3, <1>4, <1>5

LEMMA SavesStep ==
  ASSUME TypeInv, NEW r \in Request, ConfirmSaves(r) \/ HandoffSaves(r) \/ CancelSaves(r),
         On(r) \in Task
  PROVE  /\ UNCHANGED <<events, control, worker, runs, shared, cut, crashes>>
         /\ \E s \in TaskState, q \in RequestState :
              /\ task' = [task EXCEPT ![On(r)] = s]
              /\ was' = [was EXCEPT ![On(r)] = @ \cup {s}]
              /\ request' = [request EXCEPT ![r] = q]
              /\ q.pc = "append" /\ q.task = On(r) /\ q.saves = s
              /\ q.todo = <<EventOf(s)>>
              /\ \/ request[r].pc = "save_confirm" /\ s = "confirmed"
                 \/ request[r].pc = "save_handoff" /\ s = "handed_off"
                 \/ request[r].pc = "save_cancel" /\ s = "cancelled"
<1>0. request[r] \in RequestState BY DEF TypeInv
<1>1. PICK s \in {"confirmed", "handed_off", "cancelled"} :
        /\ Saves(r, On(r), s, <<s>>)
        /\ \/ request[r].pc = "save_confirm" /\ s = "confirmed"
           \/ request[r].pc = "save_handoff" /\ s = "handed_off"
           \/ request[r].pc = "save_cancel" /\ s = "cancelled"
  BY DEF ConfirmSaves, HandoffSaves, CancelSaves, At
<1>. DEFINE todo == <<s>>
<1>2. todo \in Seq(TaskEvent) BY DEF TaskEvent
<1>3. todo = <<EventOf(s)>> BY DEF EventOf
<1>4. request' = [request EXCEPT ![r] = [@ EXCEPT !.pc = "append", !.task = On(r),
                                                  !.saves = s, !.todo = todo]]
  BY <1>1 DEF Saves
<1>. HIDE DEF todo
<1>. DEFINE q == [request[r] EXCEPT !.pc = "append", !.task = On(r), !.saves = s, !.todo = todo]
<1>5. /\ q \in RequestState /\ q.pc = "append" /\ q.task = On(r) /\ q.saves = s
      /\ q.todo = todo
  BY <1>0, <1>2 DEF RequestState, Pc, TaskState
<1>6. request' = [request EXCEPT ![r] = q] BY <1>4
<1>. HIDE DEF q
<1>7. /\ task' = [task EXCEPT ![On(r)] = s] /\ was' = [was EXCEPT ![On(r)] = @ \cup {s}]
      /\ UNCHANGED <<events, control, worker, runs, shared, cut, crashes>> /\ s \in TaskState
  BY <1>1 DEF Saves, TaskState
<1>. QED BY <1>1, <1>3, <1>5, <1>6, <1>7

LEMMA TailOfShort ==
  ASSUME NEW a \in TaskEvent, NEW b \in TaskEvent, NEW s, s = <<a>> \/ s = <<b, a>>
  PROVE  Head(s) \in TaskEvent /\ Tail(s) \in Seq(TaskEvent)
<1>1. CASE s = <<a>> BY <1>1
<1>2. CASE s = <<b, a>> BY <1>2
<1>. QED BY <1>1, <1>2

LEMMA AppendsStep ==
  ASSUME TypeInv, NEW r \in Request, Stands(r), Appends(r)
  PROVE  /\ UNCHANGED <<task, control, worker, past>> /\ request[r].pc = "append"
         /\ \E e \in TaskEvent, q \in RequestState :
              /\ events' = [events EXCEPT ![On(r)] = Append(@, e)]
              /\ request' = [request EXCEPT ![r] = q]
              /\ \/ /\ request[r].todo = <<"submitted", EventOf(request[r].saves)>>
                    /\ e = "submitted" /\ q.pc = "append" /\ q.task = On(r)
                    /\ q.saves = request[r].saves /\ q.todo = <<EventOf(q.saves)>>
                 \/ /\ request[r].todo = <<EventOf(request[r].saves)>>
                    /\ e = EventOf(request[r].saves)
                    /\ \/ q = Idle
                       \/ /\ q.task = On(r)
                          /\ \/ q.pc \in {"accept", "execute"} /\ request[r].saves = "handed_off"
                             \/ q.pc \in {"confirm", "handoff"}
<1>0. /\ request[r] \in RequestState /\ request[r].pc = "append"
      /\ UNCHANGED <<task, control, worker, past>>
  BY DEF TypeInv, Appends, At
<1>. DEFINE saves == request[r].saves
            todo == request[r].todo
            next == IF Len(todo) > 1 THEN "append" ELSE Following(request[r].goal, saves)
            e == Head(todo)
<1>1. /\ saves \in TaskState /\ On(r) \in Task /\ todo \in Seq(TaskEvent)
      /\ todo = <<EventOf(saves)>> \/ todo = <<"submitted", EventOf(saves)>>
  BY <1>0 DEF Stands, RequestState, TypeInv, On
<1>2. /\ events' = [events EXCEPT ![On(r)] = Append(@, e)]
      /\ IF next = "idle" THEN request' = [request EXCEPT ![r] = Idle]
         ELSE request' = [request EXCEPT ![r] =
                            [request[r] EXCEPT !.pc = next, !.todo = Tail(todo)]]
  <2>1. events' = [events EXCEPT ![On(r)] = Append(@, e)] BY DEF Appends, On
  <2>2. next = "idle" => request' = [request EXCEPT ![r] = Idle] BY DEF Appends, Done
  <2>3. ASSUME next # "idle"
        PROVE  request' = [request EXCEPT ![r] = [request[r] EXCEPT !.pc = next,
                                                                   !.todo = Tail(todo)]]
    BY <2>3 DEF Appends
  <2>. QED BY <2>1, <2>2, <2>3
<1>3. e \in TaskEvent /\ Tail(todo) \in Seq(TaskEvent)
  <2>1. EventOf(saves) \in TaskEvent /\ "submitted" \in TaskEvent
    BY <1>1, EventsOfStates DEF TaskEvent
  <2>. QED BY <1>1, <2>1, TailOfShort
<1>4. CASE todo = <<"submitted", EventOf(saves)>>
  <2>1. next = "append" /\ e = "submitted" /\ Tail(todo) = <<EventOf(saves)>> BY <1>4
  <2>. DEFINE q == [request[r] EXCEPT !.pc = "append", !.todo = Tail(todo)]
  <2>2. request' = [request EXCEPT ![r] = q] BY <1>2, <2>1
  <2>. HIDE DEF next, e
  <2>3. /\ q \in RequestState /\ q.pc = "append" /\ q.task = On(r) /\ q.saves = saves
        /\ q.todo = Tail(todo)
    BY <1>0, <1>3 DEF RequestState, On
  <2>4. q.todo = <<EventOf(q.saves)>> BY <2>1, <2>3
  <2>. HIDE DEF q
  <2>. QED BY <1>0, <1>2, <1>3, <1>4, <2>1, <2>2, <2>3, <2>4
<1>5. CASE todo = <<EventOf(saves)>>
  <2>1. next = Following(request[r].goal, saves) /\ e = EventOf(saves) BY <1>5
  <2>2. \/ next = "idle" \/ next \in {"confirm", "handoff"}
        \/ next \in {"accept", "execute"} /\ saves = "handed_off"
    BY <2>1 DEF Following
  <2>3. CASE next = "idle"
    BY <1>0, <1>2, <1>3, <1>5, <2>1, <2>3, IdleIsRequest
  <2>4. CASE next # "idle"
    <3>. DEFINE q == [request[r] EXCEPT !.pc = next, !.todo = Tail(todo)]
    <3>1. request' = [request EXCEPT ![r] = q] BY <1>2, <2>4
    <3>2. next \in Pc BY <2>2, <2>4 DEF Pc
    <3>. HIDE DEF next, e
    <3>3. q \in RequestState /\ q.pc = next /\ q.task = On(r)
      BY <1>0, <1>3, <3>2 DEF RequestState, On
    <3>. HIDE DEF q
    <3>. QED BY <1>0, <1>2, <1>3, <1>5, <2>1, <2>2, <2>4, <3>1, <3>3
  <2>. QED BY <2>3, <2>4
<1>. QED BY <1>1, <1>4, <1>5

LEMMA MovesOne ==
  ASSUME TypeInv, NEW r \in Request, NEW q \in RequestState,
         request' = [request EXCEPT ![r] = q]
  PROVE  /\ request' \in [Request -> RequestState] /\ request'[r] = q
         /\ \A p \in Request : p # r => request'[p] = request[p]
BY DEF TypeInv

-----------------------------------------------------------------------------
(* What requests stand on, and what tasks were.                            *)

LEMMA OthersStand ==
  ASSUME TypeInv, NEW p \in Request, Stands(p), request'[p] = request[p],
         \A t \in Task : was[t] \subseteq was'[t] /\ (task[t] # "none" => task'[t] # "none")
  PROVE  Stands(p)'
<1>1. CASE request[p].pc = "idle" BY <1>1 DEF Stands
<1>2. CASE request[p].pc # "idle"
  <2>1. request[p].task \in Task BY <1>2 DEF Stands
  <2>. QED BY <1>2, <2>1 DEF Stands
<1>. QED BY <1>1, <1>2

LEMMA IdleStands == ASSUME NEW r \in Request, request'[r] = Idle PROVE Stands(r)'
BY DEF Stands, Idle

(* A step of a request that changes no task's state: of one request alone. *)
LEMMA MovesHistory ==
  ASSUME HistoryInv, NEW r \in Request, NEW q \in RequestState,
         request' = [request EXCEPT ![r] = q], Stands(r)', TypeInv',
         UNCHANGED <<task, was, control, runs>>,
         \A t \in Task : worker'[t] > 0 => worker[t] > 0 \/ "handed_off" \in was[t],
         \A t \in Task : events'[t] # events[t] => task[t] # "none"
  PROVE  HistoryInv'
<1>1. \A p \in Request : p # r => request'[p] = request[p] BY MovesOne DEF HistoryInv
<1>2. ASSUME NEW p \in Request PROVE Stands(p)'
  <2>1. CASE p = r BY <2>1
  <2>2. CASE p # r BY <1>1, <2>2, OthersStand DEF HistoryInv
  <2>. QED BY <2>1, <2>2
<1>3. ASSUME NEW t \in Task PROVE History(t)'
  <2>1. History(t) BY DEF HistoryInv
  <2>. QED BY <2>1 DEF History
<1>. QED BY <1>2, <1>3 DEF HistoryInv

LEMMA AsksHistory ==
  ASSUME HistoryInv, NEW r \in Request, Asks(r) PROVE HistoryInv'
<1>0. UNCHANGED <<task, events, control, worker, was, runs, cut, crashes>> /\ TypeInv
  BY DEF Asks, tables, HistoryInv
<1>1. PICK t \in Task, q \in RequestState :
        /\ task[t] # "none" /\ request' = [request EXCEPT ![r] = q]
        /\ q.pc \in {"confirm", "handoff", "cancel"} /\ q.task = t
        /\ shared' = IF \E p \in Request : On(p) = t THEN shared \cup {t} ELSE shared
  BY <1>0, AsksStep
<1>2. request' \in [Request -> RequestState] /\ request'[r] = q BY <1>0, <1>1, MovesOne
<1>3. shared' \subseteq Task BY <1>0, <1>1 DEF TypeInv
<1>4. TypeInv' BY <1>0, <1>2, <1>3 DEF TypeInv
<1>5. Stands(r)' BY <1>0, <1>1, <1>2 DEF Stands
<1>6. /\ UNCHANGED <<task, was, control, runs>>
      /\ \A u \in Task : worker'[u] > 0 => worker[u] > 0 \/ "handed_off" \in was[u]
      /\ \A u \in Task : events'[u] # events[u] => task[u] # "none"
  BY <1>0
<1>. QED BY <1>1, <1>4, <1>5, <1>6, MovesHistory

LEMMA SubmitsHistory ==
  ASSUME HistoryInv, NEW r \in Request, Submits(r) PROVE HistoryInv'
<1>0. UNCHANGED <<events, control, worker, runs, shared, cut, crashes>> /\ TypeInv
  BY DEF Submits, HistoryInv
<1>1. PICK t \in Task, s \in {"preview_ready", "rejected"}, q \in RequestState :
        /\ task[t] = "none" /\ request' = [request EXCEPT ![r] = q]
        /\ q.pc = "append" /\ q.task = t /\ q.saves = s
        /\ q.todo = <<"submitted", EventOf(s)>>
        /\ task' = [task EXCEPT ![t] = s] /\ was' = [was EXCEPT ![t] = {s}]
  BY <1>0, SubmitsStep
<1>2. /\ request' \in [Request -> RequestState] /\ request'[r] = q
      /\ \A p \in Request : p # r => request'[p] = request[p]
  BY <1>0, <1>1, MovesOne
<1>3. /\ task'[t] = s /\ was'[t] = {s}
      /\ \A u \in Task : u # t => task'[u] = task[u] /\ was'[u] = was[u]
      /\ task' \in [Task -> TaskState \cup {"none"}] /\ was' \in [Task -> SUBSET TaskState]
  BY <1>0, <1>1 DEF TypeInv, TaskState
<1>4. TypeInv' BY <1>0, <1>2, <1>3 DEF TypeInv
<1>5. History(t) /\ was[t] = {} BY <1>1 DEF HistoryInv, History
<1>6. \A u \in Task : was[u] \subseteq was'[u] /\ (task[u] # "none" => task'[u] # "none")
  BY <1>1, <1>3, <1>5
<1>7. ASSUME NEW p \in Request PROVE Stands(p)'
  <2>1. CASE p = r BY <1>1, <1>2, <1>3, <2>1 DEF Stands
  <2>2. CASE p # r BY <1>0, <1>2, <1>6, <2>2, OthersStand DEF HistoryInv
  <2>. QED BY <2>1, <2>2
<1>8. ASSUME NEW u \in Task PROVE History(u)'
  <2>1. CASE u = t BY <1>0, <1>1, <1>3, <1>5, <2>1 DEF History
  <2>2. CASE u # t
    <3>1. History(u) BY DEF HistoryInv
    <3>. QED BY <1>0, <1>3, <2>2, <3>1 DEF History
  <2>. QED BY <2>1, <2>2
<1>. QED BY <1>4, <1>7, <1>8 DEF HistoryInv

LEMMA ReadsHistory ==
  ASSUME HistoryInv, NEW r \in Request, ConfirmReads(r) \/ HandoffReads(r) \/ CancelReads(r)
  PROVE  HistoryInv'
<1>0. TypeInv /\ Stands(r) BY DEF HistoryInv
<1>1. UNCHANGED <<task, events, control, worker, was, runs, shared, cut, crashes>>
  BY <1>0, ReadsStep DEF tables, past
<1>2. PICK q \in RequestState :
        /\ request' = [request EXCEPT ![r] = q]
        /\ \/ q = Idle
           \/ /\ q.task = On(r)
              /\ \/ q.pc = "save_confirm" /\ task[On(r)] = "preview_ready"
                 \/ q.pc = "save_handoff" /\ task[On(r)] = "confirmed"
                 \/ /\ q.pc = "save_cancel"
                    /\ task[On(r)] \in {"preview_ready", "rejected", "confirmed"}
  BY <1>0, ReadsStep
<1>3. request' \in [Request -> RequestState] /\ request'[r] = q BY <1>0, <1>2, MovesOne
<1>4. TypeInv' BY <1>0, <1>1, <1>3 DEF TypeInv
<1>5. On(r) \in Task /\ task[On(r)] # "none" /\ task[On(r)] \in was[On(r)]
  <2>1. request[r].pc # "idle" BY <1>0, ReadsStep
  <2>2. On(r) \in Task /\ task[On(r)] # "none" BY <1>0, <2>1 DEF Stands, On
  <2>. QED BY <2>2 DEF HistoryInv, History
<1>6. Stands(r)'
  <2>1. CASE q = Idle BY <1>3, <2>1, IdleStands
  <2>2. CASE q # Idle BY <1>1, <1>2, <1>3, <1>5, <2>2 DEF Stands
  <2>. QED BY <2>1, <2>2
<1>7. /\ UNCHANGED <<task, was, control, runs>>
      /\ \A u \in Task : worker'[u] > 0 => worker[u] > 0 \/ "handed_off" \in was[u]
      /\ \A u \in Task : events'[u] # events[u] => task[u] # "none"
  BY <1>1
<1>. QED BY <1>2, <1>4, <1>6, <1>7, MovesHistory

LEMMA SavesHistory ==
  ASSUME HistoryInv, NEW r \in Request, ConfirmSaves(r) \/ HandoffSaves(r) \/ CancelSaves(r)
  PROVE  HistoryInv'
<1>0. TypeInv /\ Stands(r) BY DEF HistoryInv
<1>. DEFINE t == On(r)
<1>1. t \in Task /\ task[t] # "none" /\ History(t)
  <2>1. request[r].pc # "idle" BY DEF ConfirmSaves, HandoffSaves, CancelSaves, At
  <2>2. On(r) \in Task /\ task[On(r)] # "none" BY <1>0, <2>1 DEF Stands, On
  <2>. QED BY <2>2 DEF HistoryInv
<1>2. UNCHANGED <<events, control, worker, runs, shared, cut, crashes>>
  BY <1>0, <1>1, SavesStep
<1>3. PICK s \in TaskState, q \in RequestState :
        /\ task' = [task EXCEPT ![t] = s] /\ was' = [was EXCEPT ![t] = @ \cup {s}]
        /\ request' = [request EXCEPT ![r] = q]
        /\ q.pc = "append" /\ q.task = t /\ q.saves = s /\ q.todo = <<EventOf(s)>>
        /\ \/ request[r].pc = "save_confirm" /\ s = "confirmed"
           \/ request[r].pc = "save_handoff" /\ s = "handed_off"
           \/ request[r].pc = "save_cancel" /\ s = "cancelled"
  <2>1. TypeInv /\ On(r) \in Task BY <1>0, <1>1
  <2>. QED BY <2>1, SavesStep
<1>4. /\ request' \in [Request -> RequestState] /\ request'[r] = q
      /\ \A p \in Request : p # r => request'[p] = request[p]
  BY <1>0, <1>3, MovesOne
<1>5. /\ s = "confirmed" => "preview_ready" \in was[t]
      /\ s = "handed_off" => "confirmed" \in was[t]
      /\ s # "none"
  BY <1>0, <1>3 DEF Stands, On
<1>. HIDE DEF t
<1>6. /\ task'[t] = s /\ was'[t] = was[t] \cup {s}
      /\ \A u \in Task : u # t => task'[u] = task[u] /\ was'[u] = was[u]
      /\ task' \in [Task -> TaskState \cup {"none"}] /\ was' \in [Task -> SUBSET TaskState]
  BY <1>0, <1>1, <1>3 DEF TypeInv
<1>7. TypeInv' BY <1>0, <1>2, <1>4, <1>6 DEF TypeInv
<1>8. \A u \in Task : was[u] \subseteq was'[u] /\ (task[u] # "none" => task'[u] # "none")
  BY <1>5, <1>6
<1>9. ASSUME NEW p \in Request PROVE Stands(p)'
  <2>1. CASE p = r BY <1>1, <1>3, <1>4, <1>5, <1>6, <2>1 DEF Stands
  <2>2. CASE p # r BY <1>0, <1>4, <1>8, <2>2, OthersStand DEF HistoryInv
  <2>. QED BY <2>1, <2>2
<1>10. ASSUME NEW u \in Task PROVE History(u)'
  <2>1. CASE u = t BY <1>1, <1>2, <1>3, <1>5, <1>6, <2>1 DEF History
  <2>2. CASE u # t
    <3>1. History(u) BY DEF HistoryInv
    <3>. QED BY <1>2, <1>6, <2>2, <3>1 DEF History
  <2>. QED BY <2>1, <2>2
<1>. QED BY <1>7, <1>9, <1>10 DEF HistoryInv

LEMMA AppendsHistory ==
  ASSUME HistoryInv, NEW r \in Request, Appends(r) PROVE HistoryInv'
<1>0. TypeInv /\ Stands(r) BY DEF HistoryInv
<1>1. /\ UNCHANGED <<task, control, worker, was, runs, shared, cut, crashes>>
      /\ request[r].pc = "append"
  BY <1>0, AppendsStep DEF past
<1>2. PICK e \in TaskEvent, q \in RequestState :
        /\ events' = [events EXCEPT ![On(r)] = Append(@, e)]
        /\ request' = [request EXCEPT ![r] = q]
        /\ \/ /\ request[r].todo = <<"submitted", EventOf(request[r].saves)>>
              /\ e = "submitted" /\ q.pc = "append" /\ q.task = On(r)
              /\ q.saves = request[r].saves /\ q.todo = <<EventOf(q.saves)>>
           \/ /\ request[r].todo = <<EventOf(request[r].saves)>>
              /\ e = EventOf(request[r].saves)
              /\ \/ q = Idle
                 \/ /\ q.task = On(r)
                    /\ \/ q.pc \in {"accept", "execute"} /\ request[r].saves = "handed_off"
                       \/ q.pc \in {"confirm", "handoff"}
  BY <1>0, AppendsStep
<1>3. request' \in [Request -> RequestState] /\ request'[r] = q BY <1>0, <1>2, MovesOne
<1>4. On(r) \in Task /\ task[On(r)] # "none" /\ request[r].saves \in was[On(r)]
  BY <1>0, <1>1 DEF Stands, On
<1>5. events' \in [Task -> Seq(TaskEvent)]
  <2>1. events[On(r)] \in Seq(TaskEvent) BY <1>0, <1>4 DEF TypeInv
  <2>2. Append(events[On(r)], e) \in Seq(TaskEvent) BY <2>1
  <2>. QED BY <1>0, <1>2, <2>2 DEF TypeInv
<1>6. TypeInv' BY <1>0, <1>1, <1>3, <1>5 DEF TypeInv
<1>7. Stands(r)'
  <2>1. CASE q = Idle BY <1>3, <2>1, IdleStands
  <2>2. CASE q # Idle BY <1>1, <1>2, <1>3, <1>4, <2>2 DEF Stands
  <2>. QED BY <2>1, <2>2
<1>8. /\ UNCHANGED <<task, was, control, runs>>
      /\ \A u \in Task : worker'[u] > 0 => worker[u] > 0 \/ "handed_off" \in was[u]
  BY <1>1
<1>9. \A u \in Task : events'[u] # events[u] => task[u] # "none"
  BY <1>0, <1>2, <1>4 DEF TypeInv
<1>. QED BY <1>2, <1>6, <1>7, <1>8, <1>9, MovesHistory

LEMMA RunsHistory ==
  ASSUME HistoryInv, NEW r \in Request, Accepts(r) \/ Executes(r) PROVE HistoryInv'
<1>0. /\ TypeInv /\ Stands(r) /\ UNCHANGED <<task, events, was, shared, cut, crashes>>
      /\ request[r].pc \in {"accept", "execute"} /\ request' = [request EXCEPT ![r] = Idle]
  BY DEF Accepts, Executes, HistoryInv, past, At, Done
<1>. DEFINE t == On(r)
<1>1. t \in Task /\ "handed_off" \in was[t] BY <1>0 DEF Stands, On
<1>. HIDE DEF t
<1>2. /\ request' \in [Request -> RequestState] /\ request'[r] = Idle
      /\ \A p \in Request : p # r => request'[p] = request[p]
  BY <1>0, IdleIsRequest, MovesOne
<1>3. /\ control' \in [Task -> {"none", "running", "result"}]
      /\ worker' \in [Task -> Nat] /\ runs' \in [Task -> Nat]
      /\ \A u \in Task : u # t => /\ control'[u] = control[u] /\ worker'[u] = worker[u]
                                  /\ runs'[u] = runs[u]
  <2>1. CASE Accepts(r) BY <1>0, <1>1, <2>1 DEF Accepts, past, TypeInv, t
  <2>2. CASE Executes(r) BY <1>0, <1>1, <2>2 DEF Executes, TypeInv, t
  <2>. QED BY <2>1, <2>2
<1>4. TypeInv' BY <1>0, <1>2, <1>3 DEF TypeInv
<1>5. ASSUME NEW p \in Request PROVE Stands(p)'
  <2>1. CASE p = r BY <1>2, <2>1, IdleStands
  <2>2. CASE p # r BY <1>0, <1>2, <2>2, OthersStand DEF HistoryInv
  <2>. QED BY <2>1, <2>2
<1>6. ASSUME NEW u \in Task PROVE History(u)'
  <2>0. History(u) BY DEF HistoryInv
  <2>1. CASE u = t BY <1>0, <1>1, <2>0, <2>1 DEF History
  <2>2. CASE u # t BY <1>0, <1>3, <2>0, <2>2 DEF History
  <2>. QED BY <2>1, <2>2
<1>. QED BY <1>4, <1>5, <1>6 DEF HistoryInv

LEMMA WorkerHistory == ASSUME HistoryInv, NEW t \in Task, WorkerEnds(t) PROVE HistoryInv'
<1>0. /\ UNCHANGED <<task, events, request, was, shared, cut, crashes>> /\ TypeInv
      /\ worker[t] > 0 /\ worker[t] \in Nat
      /\ worker' = [worker EXCEPT ![t] = @ - 1] /\ runs' = [runs EXCEPT ![t] = @ + 1]
      /\ control' = [control EXCEPT ![t] = "result"]
  BY DEF WorkerEnds, HistoryInv, TypeInv
<1>1. worker[t] - 1 \in Nat BY <1>0
<1>2. TypeInv' BY <1>0, <1>1 DEF TypeInv
<1>3. ASSUME NEW p \in Request PROVE Stands(p)'
  BY <1>0, OthersStand DEF HistoryInv
<1>4. ASSUME NEW u \in Task PROVE History(u)'
  <2>0. History(u) BY DEF HistoryInv
  <2>1. CASE u = t BY <1>0, <2>0, <2>1 DEF History
  <2>2. CASE u # t
    <3>1. worker'[u] = worker[u] /\ runs'[u] = runs[u] /\ control'[u] = control[u]
      BY <1>0, <2>2 DEF TypeInv
    <3>. QED BY <1>0, <2>0, <3>1 DEF History
  <2>. QED BY <2>1, <2>2
<1>. QED BY <1>2, <1>3, <1>4 DEF HistoryInv

LEMMA CrashHistory == ASSUME HistoryInv, Crash PROVE HistoryInv'
<1>0. /\ UNCHANGED <<task, events, control, was, runs, shared>> /\ TypeInv
      /\ crashes' = crashes + 1 /\ request' = [r \in Request |-> Idle]
      /\ worker' = [t \in Task |-> 0] /\ cut' \subseteq Task
  BY DEF Crash, tables, HistoryInv, TypeInv
<1>1. request' \in [Request -> RequestState] BY <1>0, IdleIsRequest
<1>2. TypeInv' BY <1>0, <1>1 DEF TypeInv
<1>3. ASSUME NEW p \in Request PROVE Stands(p)' BY <1>0, IdleStands
<1>4. ASSUME NEW u \in Task PROVE History(u)'
  <2>0. History(u) /\ worker'[u] = 0 BY <1>0 DEF HistoryInv
  <2>. QED BY <1>0, <2>0 DEF History
<1>. QED BY <1>2, <1>3, <1>4 DEF HistoryInv

LEMMA StutterHistory == ASSUME HistoryInv, UNCHANGED vars PROVE HistoryInv'
<1>1. TypeInv' BY DEF vars, HistoryInv, TypeInv
<1>2. ASSUME NEW p \in Request PROVE Stands(p)' BY OthersStand DEF vars, HistoryInv
<1>3. ASSUME NEW u \in Task PROVE History(u)'
  <2>1. History(u) BY DEF HistoryInv
  <2>. QED BY <2>1 DEF vars, History
<1>. QED BY <1>1, <1>2, <1>3 DEF HistoryInv

LEMMA HistoryStarts == Init => HistoryInv
<1>. SUFFICES ASSUME Init PROVE HistoryInv OBVIOUS
<1>1. <<>> \in Seq(TaskEvent) OBVIOUS
<1>2. TypeInv BY <1>1, IdleIsRequest DEF Init, TypeInv
<1>3. \A r \in Request : Stands(r) BY DEF Init, Stands, Idle
<1>4. ASSUME NEW t \in Task PROVE History(t)
  <2>1. /\ task[t] = "none" /\ was[t] = {} /\ events[t] = <<>> /\ runs[t] = 0
        /\ worker[t] = 0 /\ control[t] = "none"
    BY DEF Init
  <2>. QED BY <2>1 DEF History
<1>. QED BY <1>2, <1>3, <1>4 DEF HistoryInv

LEMMA HistoryStep == HistoryInv /\ [Next]_vars => HistoryInv'
<1>. SUFFICES ASSUME HistoryInv, [Next]_vars PROVE HistoryInv' OBVIOUS
<1>1. CASE UNCHANGED vars BY <1>1, StutterHistory
<1>2. CASE Crash BY <1>2, CrashHistory
<1>3. CASE \E t \in Task : WorkerEnds(t) BY <1>3, WorkerHistory
<1>4. ASSUME NEW r \in Request, Asks(r) \/ Submits(r) \/ RequestStep(r) PROVE HistoryInv'
  BY <1>4, AsksHistory, SubmitsHistory, ReadsHistory, SavesHistory, AppendsHistory, RunsHistory
  DEF RequestStep
<1>. QED BY <1>1, <1>2, <1>3, <1>4 DEF Next

(* However requests overlap, a task and what a request has read of it are  *)
(* explained by the states it was in, and what runs was handed off.        *)
THEOREM HistoryInvariant == Spec => []HistoryInv
BY HistoryStarts, HistoryStep, PTL DEF Spec

LEMMA TypeParts == HistoryInv => TypeOK
BY DEF HistoryInv, TypeInv, TypeOK, RequestState, Pc

(* Every variable has its type, whatever requests and crashes come.        *)
THEOREM TypeCorrect == Spec => []TypeOK
BY HistoryInvariant, TypeParts, PTL

-----------------------------------------------------------------------------
(* Requests that come one at a time.                                       *)

(* A task that a step does not touch.                                      *)
LEMMA OthersAlone ==
  ASSUME NEW t \in Task, Alone(t),
         \A p \in Request : On(p)' = t => request'[p] = request[p] /\ On(p) = t,
         task'[t] = task[t], was'[t] = was[t], runs'[t] = runs[t], worker'[t] = worker[t]
  PROVE  Alone(t)'
<1>1. ASSUME NEW p \in Request, On(p)' = t PROVE StandsAlone(p)'
  <2>1. /\ request'[p] = request[p] /\ request[p].task = t /\ StandsAlone(p)
    BY <1>1 DEF Alone, On
  <2>. QED BY <2>1 DEF StandsAlone
<1>2. \A r, p \in Request : On(r)' = t /\ On(p)' = t => r = p BY DEF Alone
<1>. QED BY <1>1, <1>2 DEF Alone

(* A request goes on with its task, or ends.                               *)
LEMMA MovesAlone ==
  ASSUME AloneInv, "none" \notin Task, NEW r \in Request, NEW q \in RequestState,
         request' = [request EXCEPT ![r] = q], On(r) \in Task, q = Idle \/ q.task = On(r),
         HistoryInv', shared' = shared,
         \A u \in Task : u # On(r) => /\ task'[u] = task[u] /\ was'[u] = was[u]
                                      /\ runs'[u] = runs[u] /\ worker'[u] = worker[u],
         On(r) \notin shared =>
           /\ q # Idle => StandsAlone(r)'
           /\ "handed_off" \in was'[On(r)] => task'[On(r)] = "handed_off"
           /\ "cancelled" \in was'[On(r)] => task'[On(r)] = "cancelled"
           /\ runs'[On(r)] + worker'[On(r)] <= 1
  PROVE  AloneInv'
<1>0. PICK t \in Task : t = On(r) OBVIOUS
<1>1. request'[r] = q /\ \A p \in Request : p # r => request'[p] = request[p]
  BY MovesOne DEF AloneInv, HistoryInv
<1>2. On(r)' \in {t, "none"} /\ (q # Idle => On(r)' = t) BY <1>0, <1>1 DEF On, Idle
<1>3. \A p \in Request : p # r => On(p)' = On(p) BY <1>1 DEF On
<1>4. ASSUME NEW u \in Task \ shared, u # t PROVE Alone(u)'
  <2>1. Alone(u) BY DEF AloneInv
  <2>2. \A p \in Request : On(p)' = u => request'[p] = request[p] /\ On(p) = u
    BY <1>1, <1>2, <1>3, <1>4
  <2>. QED BY <1>0, <1>4, <2>1, <2>2, OthersAlone
<1>5. ASSUME t \notin shared PROVE Alone(t)'
  <2>1. \A p \in Request : On(p) = t => p = r BY <1>0, <1>5 DEF AloneInv, Alone
  <2>2. \A p \in Request : On(p)' = t => p = r BY <1>3, <2>1
  <2>3. ASSUME NEW p \in Request, On(p)' = t PROVE StandsAlone(p)'
    <3>1. p = r /\ q # Idle BY <1>1, <2>2, <2>3 DEF On, Idle
    <3>. QED BY <1>0, <1>5, <3>1
  <2>. QED BY <1>0, <1>5, <2>2, <2>3 DEF Alone
<1>. QED BY <1>4, <1>5 DEF AloneInv

(* Where requests come one at a time, nothing runs before the handoff.     *)
LEMMA BeforeHandoff ==
  ASSUME AloneInv, NEW t \in Task \ shared, task[t] # "handed_off"
  PROVE  runs[t] = 0 /\ worker[t] = 0 /\ "handed_off" \notin was[t]
<1>1. "handed_off" \notin was[t] BY DEF AloneInv, Alone
<1>2. ~(runs[t] > 0) /\ ~(worker[t] > 0) BY <1>1 DEF AloneInv, HistoryInv, History
<1>3. runs[t] \in Nat /\ worker[t] \in Nat BY DEF AloneInv, HistoryInv, TypeInv
<1>. QED BY <1>1, <1>2, <1>3

LEMMA AsksAlone ==
  ASSUME AloneInv, "none" \notin Task, NEW r \in Request, Asks(r) PROVE AloneInv'
<1>0. /\ UNCHANGED <<task, events, control, worker, was, runs, cut, crashes>> /\ TypeInv
      /\ request[r].pc = "idle" /\ HistoryInv'
  BY AsksHistory DEF Asks, At, tables, HistoryInv, AloneInv
<1>1. PICK t \in Task, q \in RequestState :
        /\ task[t] # "none" /\ request' = [request EXCEPT ![r] = q]
        /\ q.pc \in {"confirm", "handoff", "cancel"} /\ q.task = t
        /\ shared' = IF \E p \in Request : On(p) = t THEN shared \cup {t} ELSE shared
  BY <1>0, AsksStep
<1>2. request'[r] = q /\ \A p \in Request : p # r => request'[p] = request[p]
  BY <1>0, <1>1, MovesOne
<1>3. On(r)' = t /\ \A p \in Request : p # r => On(p)' = On(p) BY <1>1, <1>2 DEF On
<1>4. ASSUME NEW u \in Task \ shared', u # t PROVE Alone(u)'
  <2>1. Alone(u) BY <1>1 DEF AloneInv
  <2>2. \A p \in Request : On(p)' = u => request'[p] = request[p] /\ On(p) = u
    BY <1>2, <1>3, <1>4
  <2>. QED BY <1>0, <2>1, <2>2, OthersAlone
<1>5. ASSUME t \notin shared' PROVE Alone(t)'
  <2>1. Alone(t) /\ \A p \in Request : On(p) # t BY <1>1, <1>5 DEF AloneInv
  <2>2. \A p \in Request : On(p)' = t => p = r BY <1>3, <2>1
  <2>3. StandsAlone(r)' BY <1>1, <1>2 DEF StandsAlone
  <2>. QED BY <1>0, <2>1, <2>2, <2>3 DEF Alone
<1>. QED BY <1>0, <1>4, <1>5 DEF AloneInv

LEMMA SubmitsAlone ==
  ASSUME AloneInv, "none" \notin Task, NEW r \in Request, Submits(r) PROVE AloneInv'
<1>0. /\ UNCHANGED <<events, control, worker, runs, shared, cut, crashes>> /\ TypeInv
      /\ HistoryInv /\ HistoryInv'
  BY SubmitsHistory DEF Submits, HistoryInv, AloneInv
<1>1. PICK t \in Task, s \in {"preview_ready", "rejected"}, q \in RequestState :
        /\ task[t] = "none" /\ request' = [request EXCEPT ![r] = q]
        /\ q.pc = "append" /\ q.task = t /\ q.saves = s
        /\ q.todo = <<"submitted", EventOf(s)>>
        /\ task' = [task EXCEPT ![t] = s] /\ was' = [was EXCEPT ![t] = {s}]
  BY <1>0, SubmitsStep
<1>2. request'[r] = q /\ \A p \in Request : p # r => request'[p] = request[p]
  BY <1>0, <1>1, MovesOne
<1>3. On(r)' = t /\ \A p \in Request : p # r => On(p)' = On(p) BY <1>1, <1>2 DEF On
<1>4. /\ task'[t] = s /\ was'[t] = {s}
      /\ \A u \in Task : u # t => task'[u] = task[u] /\ was'[u] = was[u]
  BY <1>0, <1>1 DEF TypeInv
<1>5. \A p \in Request : On(p) # t
  <2>1. \A p \in Request : Stands(p) BY <1>0 DEF HistoryInv
  <2>. QED BY <1>1, <2>1 DEF Stands, On, Idle
<1>6. ASSUME NEW u \in Task \ shared, u # t PROVE Alone(u)'
  <2>1. Alone(u) BY DEF AloneInv
  <2>2. \A p \in Request : On(p)' = u => request'[p] = request[p] /\ On(p) = u
    BY <1>2, <1>3, <1>6
  <2>. QED BY <1>0, <1>4, <1>6, <2>1, <2>2, OthersAlone
<1>7. ASSUME t \notin shared PROVE Alone(t)'
  <2>1. \A p \in Request : On(p)' = t => p = r BY <1>3, <1>5
  <2>2. StandsAlone(r)' BY <1>1, <1>2, <1>4 DEF StandsAlone
  <2>3. runs[t] = 0 /\ worker[t] = 0 BY <1>1, <1>7, BeforeHandoff
  <2>. QED BY <1>0, <1>1, <1>4, <2>1, <2>2, <2>3 DEF Alone
<1>. QED BY <1>0, <1>6, <1>7 DEF AloneInv

LEMMA ReadsAlone ==
  ASSUME AloneInv, "none" \notin Task, NEW r \in Request,
         ConfirmReads(r) \/ HandoffReads(r) \/ CancelReads(r)
  PROVE  AloneInv'
<1>0. TypeInv /\ Stands(r) /\ HistoryInv' BY ReadsHistory DEF HistoryInv, AloneInv
<1>1. /\ UNCHANGED <<task, events, control, worker, was, runs, shared, cut, crashes>>
      /\ request[r].pc # "idle"
  BY <1>0, ReadsStep DEF tables, past
<1>2. PICK q \in RequestState :
        /\ request' = [request EXCEPT ![r] = q]
        /\ \/ q = Idle
           \/ /\ q.task = On(r)
              /\ \/ q.pc = "save_confirm" /\ task[On(r)] = "preview_ready"
                 \/ q.pc = "save_handoff" /\ task[On(r)] = "confirmed"
                 \/ /\ q.pc = "save_cancel"
                    /\ task[On(r)] \in {"preview_ready", "rejected", "confirmed"}
  BY <1>0, ReadsStep
<1>3. request'[r] = q BY <1>0, <1>2, MovesOne
<1>4. On(r) \in Task BY <1>0, <1>1 DEF Stands, On
<1>5. q # Idle => StandsAlone(r)' BY <1>1, <1>2, <1>3 DEF StandsAlone
<1>6. On(r) \notin shared => /\ "handed_off" \in was'[On(r)] => task'[On(r)] = "handed_off"
                             /\ "cancelled" \in was'[On(r)] => task'[On(r)] = "cancelled"
                             /\ runs'[On(r)] + worker'[On(r)] <= 1
  BY <1>1, <1>4 DEF AloneInv, Alone
<1>7. /\ q = Idle \/ q.task = On(r)
      /\ shared' = shared
      /\ \A u \in Task : u # On(r) => /\ task'[u] = task[u] /\ was'[u] = was[u]
                                      /\ runs'[u] = runs[u] /\ worker'[u] = worker[u]
  BY <1>1, <1>2
<1>. QED BY <1>0, <1>2, <1>4, <1>5, <1>6, <1>7, MovesAlone

LEMMA SavesAlone ==
  ASSUME AloneInv, "none" \notin Task, NEW r \in Request,
         ConfirmSaves(r) \/ HandoffSaves(r) \/ CancelSaves(r)
  PROVE  AloneInv'
<1>0. TypeInv /\ Stands(r) /\ HistoryInv' BY SavesHistory DEF HistoryInv, AloneInv
<1>1. On(r) \in Task
  <2>1. request[r].pc # "idle" BY DEF ConfirmSaves, HandoffSaves, CancelSaves, At
  <2>. QED BY <1>0, <2>1 DEF Stands, On
<1>2. UNCHANGED <<events, control, worker, runs, shared, cut, crashes>>
  BY <1>0, <1>1, SavesStep
<1>3. PICK s \in TaskState, q \in RequestState :
        /\ task' = [task EXCEPT ![On(r)] = s] /\ was' = [was EXCEPT ![On(r)] = @ \cup {s}]
        /\ request' = [request EXCEPT ![r] = q]
        /\ q.pc = "append" /\ q.task = On(r) /\ q.saves = s /\ q.todo = <<EventOf(s)>>
        /\ \/ request[r].pc = "save_confirm" /\ s = "confirmed"
           \/ request[r].pc = "save_handoff" /\ s = "handed_off"
           \/ request[r].pc = "save_cancel" /\ s = "cancelled"
  BY <1>0, <1>1, SavesStep
<1>4. request'[r] = q BY <1>0, <1>3, MovesOne
<1>5. /\ task'[On(r)] = s /\ was'[On(r)] = was[On(r)] \cup {s}
      /\ \A u \in Task : u # On(r) => task'[u] = task[u] /\ was'[u] = was[u]
  BY <1>0, <1>1, <1>3 DEF TypeInv
<1>6. ASSUME On(r) \notin shared
      PROVE  /\ StandsAlone(r)'
             /\ "handed_off" \in was'[On(r)] => task'[On(r)] = "handed_off"
             /\ "cancelled" \in was'[On(r)] => task'[On(r)] = "cancelled"
             /\ runs'[On(r)] + worker'[On(r)] <= 1
  <2>1. Alone(On(r)) /\ StandsAlone(r) BY <1>1, <1>6 DEF AloneInv, Alone
  <2>2. task[On(r)] \in {"preview_ready", "rejected", "confirmed"}
    BY <1>3, <2>1 DEF StandsAlone, On
  <2>3. runs[On(r)] = 0 /\ worker[On(r)] = 0 /\ "handed_off" \notin was[On(r)]
    BY <1>1, <1>6, <2>2, BeforeHandoff
  <2>4. "cancelled" \notin was[On(r)] BY <2>1, <2>2 DEF Alone
  <2>5. StandsAlone(r)' BY <1>2, <1>3, <1>4, <1>5, <2>3 DEF StandsAlone
  <2>. QED BY <1>2, <1>3, <1>5, <2>3, <2>4, <2>5
<1>7. /\ q = Idle \/ q.task = On(r)
      /\ shared' = shared
      /\ \A u \in Task : u # On(r) => /\ task'[u] = task[u] /\ was'[u] = was[u]
                                      /\ runs'[u] = runs[u] /\ worker'[u] = worker[u]
  BY <1>2, <1>3, <1>5
<1>. QED BY <1>0, <1>1, <1>3, <1>6, <1>7, MovesAlone

LEMMA AppendsAlone ==
  ASSUME AloneInv, "none" \notin Task, NEW r \in Request, Appends(r) PROVE AloneInv'
<1>0. TypeInv /\ Stands(r) /\ HistoryInv' BY AppendsHistory DEF HistoryInv, AloneInv
<1>1. /\ UNCHANGED <<task, control, worker, was, runs, shared, cut, crashes>>
      /\ request[r].pc = "append"
  BY <1>0, AppendsStep DEF past
<1>2. PICK q \in RequestState :
        /\ request' = [request EXCEPT ![r] = q]
        /\ \/ q.pc = "append" /\ q.task = On(r) /\ q.saves = request[r].saves
           \/ q = Idle
           \/ /\ q.task = On(r)
              /\ \/ q.pc \in {"accept", "execute"} /\ request[r].saves = "handed_off"
                 \/ q.pc \in {"confirm", "handoff"}
  BY <1>0, AppendsStep
<1>3. request'[r] = q BY <1>0, <1>2, MovesOne
<1>4. On(r) \in Task BY <1>0, <1>1 DEF Stands, On
<1>5. ASSUME On(r) \notin shared PROVE q # Idle => StandsAlone(r)'
  <2>1. StandsAlone(r) BY <1>4, <1>5 DEF AloneInv, Alone
  <2>2. /\ task[On(r)] = request[r].saves
        /\ request[r].saves = "handed_off" => runs[On(r)] = 0 /\ worker[On(r)] = 0
    BY <1>1, <2>1 DEF StandsAlone, On
  <2>. QED BY <1>1, <1>2, <1>3, <2>2 DEF StandsAlone
<1>6. On(r) \notin shared => /\ "handed_off" \in was'[On(r)] => task'[On(r)] = "handed_off"
                             /\ "cancelled" \in was'[On(r)] => task'[On(r)] = "cancelled"
                             /\ runs'[On(r)] + worker'[On(r)] <= 1
  BY <1>1, <1>4 DEF AloneInv, Alone
<1>7. /\ q = Idle \/ q.task = On(r)
      /\ shared' = shared
      /\ \A u \in Task : u # On(r) => /\ task'[u] = task[u] /\ was'[u] = was[u]
                                      /\ runs'[u] = runs[u] /\ worker'[u] = worker[u]
  BY <1>1, <1>2
<1>. QED BY <1>0, <1>2, <1>4, <1>5, <1>6, <1>7, MovesAlone

LEMMA RunsAlone ==
  ASSUME AloneInv, "none" \notin Task, NEW r \in Request, Accepts(r) \/ Executes(r)
  PROVE  AloneInv'
<1>0. /\ TypeInv /\ Stands(r) /\ HistoryInv' /\ UNCHANGED <<task, was, shared>>
      /\ request[r].pc \in {"accept", "execute"} /\ request' = [request EXCEPT ![r] = Idle]
  BY RunsHistory DEF Accepts, Executes, HistoryInv, AloneInv, past, At, Done
<1>1. On(r) \in Task BY <1>0 DEF Stands, On
<1>2. /\ runs'[On(r)] + worker'[On(r)] = runs[On(r)] + worker[On(r)] + 1
      /\ \A u \in Task : u # On(r) => runs'[u] = runs[u] /\ worker'[u] = worker[u]
  <2>1. runs[On(r)] \in Nat /\ worker[On(r)] \in Nat BY <1>0, <1>1 DEF TypeInv
  <2>2. CASE Accepts(r)
    <3>1. worker' = [worker EXCEPT ![On(r)] = @ + 1] /\ runs' = runs BY <2>2 DEF Accepts, past
    <3>. QED BY <1>0, <1>1, <2>1, <3>1 DEF TypeInv
  <2>3. CASE Executes(r)
    <3>1. runs' = [runs EXCEPT ![On(r)] = @ + 1] /\ worker' = worker BY <2>3 DEF Executes
    <3>. QED BY <1>0, <1>1, <2>1, <3>1 DEF TypeInv
  <2>. QED BY <2>2, <2>3
<1>3. ASSUME On(r) \notin shared
      PROVE  /\ "handed_off" \in was'[On(r)] => task'[On(r)] = "handed_off"
             /\ "cancelled" \in was'[On(r)] => task'[On(r)] = "cancelled"
             /\ runs'[On(r)] + worker'[On(r)] <= 1
  <2>1. Alone(On(r)) /\ StandsAlone(r) BY <1>1, <1>3 DEF AloneInv, Alone
  <2>2. runs[On(r)] = 0 /\ worker[On(r)] = 0 BY <1>0, <2>1 DEF StandsAlone, On
  <2>. QED BY <1>0, <1>2, <2>1, <2>2 DEF Alone
<1>4. \A u \in Task : u # On(r) => /\ task'[u] = task[u] /\ was'[u] = was[u]
                                  /\ runs'[u] = runs[u] /\ worker'[u] = worker[u]
  BY <1>0, <1>2
<1>5. Idle \in RequestState /\ shared' = shared BY <1>0, IdleIsRequest
<1>. QED BY <1>0, <1>1, <1>3, <1>4, <1>5, MovesAlone

LEMMA WorkerAlone ==
  ASSUME AloneInv, NEW t \in Task, WorkerEnds(t) PROVE AloneInv'
<1>0. /\ UNCHANGED <<task, request, was, shared>> /\ TypeInv /\ HistoryInv' /\ worker[t] > 0
      /\ worker[t] \in Nat /\ runs[t] \in Nat
      /\ worker' = [worker EXCEPT ![t] = @ - 1] /\ runs' = [runs EXCEPT ![t] = @ + 1]
  BY WorkerHistory DEF WorkerEnds, AloneInv, HistoryInv, TypeInv
<1>1. /\ runs'[t] + worker'[t] = runs[t] + worker[t]
      /\ \A u \in Task : u # t => runs'[u] = runs[u] /\ worker'[u] = worker[u]
  BY <1>0 DEF TypeInv
<1>2. ASSUME NEW u \in Task \ shared PROVE Alone(u)'
  <2>0. Alone(u) BY DEF AloneInv
  <2>1. CASE u = t
    <3>1. ASSUME NEW p \in Request, On(p) = t PROVE StandsAlone(p)'
      <4>1. StandsAlone(p) /\ request[p].task = t BY <2>0, <2>1, <3>1 DEF Alone, On
      <4>2. ~(request[p].pc \in {"accept", "execute"}
              \/ (request[p].pc = "append" /\ request[p].saves = "handed_off"))
        BY <1>0, <4>1 DEF StandsAlone
      <4>. QED BY <1>0, <4>1, <4>2 DEF StandsAlone
    <3>2. \A p \in Request : On(p)' = On(p) BY <1>0 DEF On
    <3>. QED BY <1>0, <1>1, <2>0, <2>1, <3>1, <3>2 DEF Alone
  <2>2. CASE u # t
    <3>1. \A p \in Request : On(p)' = On(p) /\ request'[p] = request[p] BY <1>0 DEF On
    <3>. QED BY <1>0, <1>1, <2>0, <2>2, <3>1, OthersAlone
  <2>. QED BY <2>1, <2>2
<1>. QED BY <1>0, <1>2 DEF AloneInv

LEMMA CrashAlone == ASSUME AloneInv, "none" \notin Task, Crash PROVE AloneInv'
<1>0. /\ UNCHANGED <<task, was, runs, shared>> /\ HistoryInv' /\ TypeInv
      /\ request' = [r \in Request |-> Idle] /\ worker' = [t \in Task |-> 0]
  BY CrashHistory DEF Crash, tables, AloneInv, HistoryInv
<1>1. ASSUME NEW u \in Task \ shared PROVE Alone(u)'
  <2>1. Alone(u) /\ worker'[u] = 0 /\ runs[u] \in Nat /\ worker[u] \in Nat
    BY <1>0 DEF AloneInv, TypeInv
  <2>2. \A p \in Request : On(p)' # u BY <1>0 DEF On, Idle
  <2>3. runs'[u] + worker'[u] <= 1 BY <1>0, <2>1 DEF Alone
  <2>. QED BY <1>0, <2>1, <2>2, <2>3 DEF Alone
<1>. QED BY <1>0, <1>1 DEF AloneInv

LEMMA StutterAlone == ASSUME AloneInv, UNCHANGED vars PROVE AloneInv'
<1>1. HistoryInv' BY StutterHistory DEF AloneInv
<1>2. ASSUME NEW u \in Task \ shared PROVE Alone(u)'
  <2>1. Alone(u) /\ \A p \in Request : request'[p] = request[p] /\ On(p)' = On(p)
    BY DEF AloneInv, vars, On
  <2>. QED BY <2>1, OthersAlone DEF vars
<1>. QED BY <1>1, <1>2 DEF AloneInv, vars

LEMMA AloneStarts == ASSUME "none" \notin Task PROVE Init => AloneInv
<1>. SUFFICES ASSUME Init PROVE AloneInv OBVIOUS
<1>1. ASSUME NEW t \in Task PROVE Alone(t)
  <2>1. \A r \in Request : On(r) # t BY DEF Init, On, Idle
  <2>2. was[t] = {} /\ runs[t] = 0 /\ worker[t] = 0 BY DEF Init
  <2>. QED BY <2>1, <2>2 DEF Alone
<1>. QED BY <1>1, HistoryStarts DEF AloneInv

LEMMA AloneStep == ASSUME "none" \notin Task PROVE AloneInv /\ [Next]_vars => AloneInv'
<1>. SUFFICES ASSUME AloneInv, [Next]_vars PROVE AloneInv' OBVIOUS
<1>1. CASE UNCHANGED vars BY <1>1, StutterAlone
<1>2. CASE Crash BY <1>2, CrashAlone
<1>3. CASE \E t \in Task : WorkerEnds(t) BY <1>3, WorkerAlone
<1>4. ASSUME NEW r \in Request, Asks(r) \/ Submits(r) \/ RequestStep(r) PROVE AloneInv'
  BY <1>4, AsksAlone, SubmitsAlone, ReadsAlone, SavesAlone, AppendsAlone, RunsAlone
  DEF RequestStep
<1>. QED BY <1>1, <1>2, <1>3, <1>4 DEF Next

LEMMA AloneRunsOnce == AloneInv => LoneTaskRunsOnce
<1>. SUFFICES ASSUME AloneInv, NEW t \in Task
     PROVE  /\ Started(t) \/ control[t] # "none" =>
                 {"preview_ready", "confirmed", "handed_off"} \subseteq was[t]
            /\ t \notin shared =>
                 /\ runs[t] + worker[t] <= 1
                 /\ "cancelled" \in was[t] => ~Started(t) /\ "handed_off" \notin was[t]
  BY DEF LoneTaskRunsOnce
<1>0. History(t) /\ \A r \in Request : Stands(r) BY DEF AloneInv, HistoryInv
<1>1. Started(t) \/ control[t] # "none" => "handed_off" \in was[t]
  BY <1>0 DEF Started, History, Stands, At, On
<1>2. Started(t) \/ control[t] # "none" =>
        {"preview_ready", "confirmed", "handed_off"} \subseteq was[t]
  BY <1>0, <1>1 DEF History
<1>3. t \notin shared => /\ runs[t] + worker[t] <= 1
                         /\ "cancelled" \in was[t] => "handed_off" \notin was[t]
  BY DEF AloneInv, Alone
<1>. QED BY <1>1, <1>2, <1>3

(* However requests overlap and wherever a crash falls, what runs was      *)
(* accepted, confirmed and handed off; and a task on which requests come   *)
(* one at a time runs at most once, and not at all once it is cancelled.   *)
THEOREM LoneTaskRuns == ASSUME "none" \notin Task PROVE Spec => []LoneTaskRunsOnce
BY AloneStarts, AloneStep, AloneRunsOnce, PTL DEF Spec

-----------------------------------------------------------------------------
(* The events.                                                             *)

LEMMA EventsAppended ==
  ASSUME NEW t \in Task, NEW e, events[t] \in Seq(TaskEvent), e \in TaskEvent,
         events'[t] = Append(events[t], e)
  PROVE  /\ EventsOf(t)' = EventsOf(t) \cup {e}
         /\ events'[t] # <<>> /\ events'[t][Len(events'[t])] = e
<1>. DEFINE s == events[t]
            n == Len(s) + 1
<1>1. /\ Len(s) \in Nat /\ DOMAIN s = 1..Len(s) /\ DOMAIN events'[t] = 1..n
      /\ Len(events'[t]) = n /\ events'[t][n] = e
      /\ \A k \in 1..Len(s) : events'[t][k] = s[k]
  OBVIOUS
<1>2. EventsOf(t)' \subseteq EventsOf(t) \cup {e} BY <1>1 DEF EventsOf
<1>3. EventsOf(t) \subseteq EventsOf(t)' BY <1>1 DEF EventsOf
<1>4. e \in EventsOf(t)' BY <1>1 DEF EventsOf
<1>5. events'[t] # <<>> BY <1>1
<1>. QED BY <1>1, <1>2, <1>3, <1>4, <1>5

LEMMA OwesOne ==
  ASSUME NEW r \in Request, NEW a, request[r].todo = <<a>>, NEW e
  PROVE  Owes(r, e) => e = a
BY DEF Owes

LEMMA OwesOneNext ==
  ASSUME NEW r \in Request, NEW a, request'[r].pc = "append", request'[r].todo = <<a>>
  PROVE  Owes(r, a)'
<1>1. 1 \in DOMAIN request'[r].todo /\ request'[r].todo[1] = a OBVIOUS
<1>. QED BY <1>1 DEF Owes, At

LEMMA OwesTwo ==
  ASSUME NEW r \in Request, NEW a, NEW b, request[r].todo = <<b, a>>, NEW e
  PROVE  Owes(r, e) => e = a \/ e = b
<1>1. DOMAIN request[r].todo = 1..2 /\ request[r].todo[1] = b /\ request[r].todo[2] = a OBVIOUS
<1>. QED BY <1>1 DEF Owes

LEMMA OwesTwoNext ==
  ASSUME NEW r \in Request, NEW a, NEW b,
         request'[r].pc = "append", request'[r].todo = <<b, a>>
  PROVE  Owes(r, a)' /\ Owes(r, b)'
<1>1. /\ DOMAIN request'[r].todo = 1..2
      /\ request'[r].todo[1] = b /\ request'[r].todo[2] = a
  OBVIOUS
<1>. QED BY <1>1 DEF Owes, At

(* A task without a new state or event keeps its log, if no request on it  *)
(* drops what it owes.                                                     *)
LEMMA KeepsLog ==
  ASSUME NEW t \in Task, events'[t] = events[t], was'[t] = was[t], Logged(t),
         \A p \in Request : On(p) = t /\ At(p, "append") => request'[p] = request[p]
  PROVE  Logged(t)'
<1>1. EventsOf(t)' = EventsOf(t) /\ Expected(t)' = Expected(t) BY DEF EventsOf, Expected
<1>2. ASSUME NEW e, NEW p \in Request, On(p) = t, Owes(p, e) PROVE On(p)' = t /\ Owes(p, e)'
  <2>1. request'[p] = request[p] BY <1>2 DEF Owes
  <2>. QED BY <1>2, <2>1 DEF Owes, On, At
<1>. QED BY <1>1, <1>2 DEF Logged

LEMMA KeepsLast ==
  ASSUME NEW t \in Task, events'[t] = events[t], task'[t] = task[t], LastLogged(t),
         \A p \in Request : On(p) = t /\ At(p, "append") => request'[p] = request[p]
  PROVE  LastLogged(t)'
<1>1. CASE \E p \in Request : On(p) = t /\ At(p, "append")
  <2>1. PICK p \in Request : On(p) = t /\ At(p, "append") BY <1>1
  <2>2. On(p)' = t /\ At(p, "append")' BY <2>1 DEF On, At
  <2>. QED BY <2>2 DEF LastLogged
<1>2. CASE events[t] # <<>> /\ events[t][Len(events[t])] = EventOf(task[t])
  BY <1>2 DEF LastLogged
<1>. QED BY <1>1, <1>2 DEF LastLogged

(* A step of a request that appends nothing and saves nothing.             *)
LEMMA QuietLog ==
  ASSUME LogInv, AloneInv', UNCHANGED <<task, events, was>>, shared \subseteq shared',
         cut \subseteq cut', \A p \in Request : At(p, "append") => request'[p] = request[p]
  PROVE  LogInv'
<1>1. ASSUME NEW t \in Task \ cut', task'[t] # "none" PROVE Logged(t)'
  <2>1. Logged(t) BY <1>1 DEF LogInv
  <2>. QED BY <2>1, KeepsLog
<1>2. ASSUME NEW t \in Task \ (cut' \cup shared'), task'[t] # "none" PROVE LastLogged(t)'
  <2>1. LastLogged(t) BY <1>2 DEF LogInv
  <2>. QED BY <2>1, KeepsLast
<1>. QED BY <1>1, <1>2 DEF LogInv

LEMMA AsksLog ==
  ASSUME LogInv, "none" \notin Task, NEW r \in Request, Asks(r) PROVE LogInv'
<1>1. /\ UNCHANGED <<task, events, was, cut>> /\ ~At(r, "append") /\ AloneInv' /\ TypeInv
  BY AsksAlone DEF Asks, tables, At, LogInv, AloneInv, HistoryInv
<1>2. PICK t \in Task, q \in RequestState :
        /\ request' = [request EXCEPT ![r] = q]
        /\ shared' = IF \E p \in Request : On(p) = t THEN shared \cup {t} ELSE shared
  BY <1>1, AsksStep
<1>3. \A p \in Request : p # r => request'[p] = request[p] BY <1>1, <1>2, MovesOne
<1>4. shared \subseteq shared' BY <1>2
<1>. QED BY <1>1, <1>3, <1>4, QuietLog

LEMMA ReadsLog ==
  ASSUME LogInv, "none" \notin Task, NEW r \in Request,
         ConfirmReads(r) \/ HandoffReads(r) \/ CancelReads(r)
  PROVE  LogInv'
<1>1. AloneInv' /\ TypeInv BY ReadsAlone DEF LogInv, AloneInv, HistoryInv
<1>2. /\ UNCHANGED <<task, events, was, shared, cut>> /\ ~At(r, "append")
      /\ \E q \in RequestState : request' = [request EXCEPT ![r] = q]
  BY <1>1, ReadsStep DEF tables, past, At
<1>3. \A p \in Request : p # r => request'[p] = request[p] BY <1>1, <1>2, MovesOne
<1>. QED BY <1>1, <1>2, <1>3, QuietLog

LEMMA RunsLog ==
  ASSUME LogInv, "none" \notin Task, NEW r \in Request, Accepts(r) \/ Executes(r) PROVE LogInv'
<1>1. /\ AloneInv' /\ TypeInv /\ UNCHANGED <<task, events, was, shared, cut>>
      /\ ~At(r, "append") /\ request' = [request EXCEPT ![r] = Idle]
  BY RunsAlone DEF Accepts, Executes, past, At, Done, LogInv, AloneInv, HistoryInv
<1>2. \A p \in Request : p # r => request'[p] = request[p]
  BY <1>1, IdleIsRequest, MovesOne
<1>. QED BY <1>1, <1>2, QuietLog

LEMMA WorkerLog == ASSUME LogInv, NEW t \in Task, WorkerEnds(t) PROVE LogInv'
<1>1. AloneInv' /\ UNCHANGED <<task, events, was, shared, cut, request>>
  BY WorkerAlone DEF WorkerEnds, LogInv
<1>. QED BY <1>1, QuietLog

LEMMA StutterLog == ASSUME LogInv, UNCHANGED vars PROVE LogInv'
<1>1. AloneInv' /\ UNCHANGED <<task, events, was, shared, cut, request>>
  BY StutterAlone DEF vars, LogInv
<1>. QED BY <1>1, QuietLog

LEMMA CrashLog == ASSUME LogInv, "none" \notin Task, Crash PROVE LogInv'
<1>1. /\ AloneInv' /\ UNCHANGED <<task, events, was, shared>>
      /\ cut' = cut \cup {t \in Task : worker[t] > 0 \/ \E r \in Request : On(r) = t}
  BY CrashAlone DEF Crash, tables, LogInv
<1>2. ASSUME NEW t \in Task \ cut', task'[t] # "none" PROVE Logged(t)'
  <2>1. Logged(t) /\ \A p \in Request : On(p) # t BY <1>1, <1>2 DEF LogInv
  <2>. QED BY <1>1, <2>1, KeepsLog
<1>3. ASSUME NEW t \in Task \ (cut' \cup shared'), task'[t] # "none" PROVE LastLogged(t)'
  <2>1. LastLogged(t) /\ \A p \in Request : On(p) # t BY <1>1, <1>3 DEF LogInv
  <2>. QED BY <1>1, <2>1, KeepsLast
<1>. QED BY <1>1, <1>2, <1>3 DEF LogInv

LEMMA SubmitsLog ==
  ASSUME LogInv, "none" \notin Task, NEW r \in Request, Submits(r) PROVE LogInv'
<1>0. /\ UNCHANGED <<events, shared, cut>> /\ AloneInv' /\ TypeInv /\ HistoryInv
      /\ ~At(r, "append")
  BY SubmitsAlone DEF Submits, At, LogInv, AloneInv, HistoryInv
<1>1. PICK t \in Task, s \in {"preview_ready", "rejected"}, q \in RequestState :
        /\ task[t] = "none" /\ request' = [request EXCEPT ![r] = q]
        /\ q.pc = "append" /\ q.task = t /\ q.saves = s
        /\ q.todo = <<"submitted", EventOf(s)>>
        /\ task' = [task EXCEPT ![t] = s] /\ was' = [was EXCEPT ![t] = {s}]
  BY <1>0, SubmitsStep
<1>2. request'[r] = q /\ \A p \in Request : p # r => request'[p] = request[p]
  BY <1>0, <1>1, MovesOne
<1>3. /\ task'[t] = s /\ was'[t] = {s}
      /\ \A u \in Task : u # t => task'[u] = task[u] /\ was'[u] = was[u]
  BY <1>0, <1>1 DEF TypeInv
<1>4. On(r)' = t /\ At(r, "append")' BY <1>1, <1>2 DEF On, At
<1>5. Logged(t)'
  <2>1. events[t] = <<>> BY <1>0, <1>1 DEF HistoryInv, History
  <2>2. EventsOf(t)' = {} BY <1>0, <2>1 DEF EventsOf
  <2>3. Expected(t)' = {EventOf(s), "submitted"} BY <1>3 DEF Expected
  <2>4. request'[r].pc = "append" /\ request'[r].todo = <<"submitted", EventOf(s)>>
    BY <1>1, <1>2
  <2>5. Owes(r, EventOf(s))' /\ Owes(r, "submitted")' BY <2>4, OwesTwoNext
  <2>. QED BY <1>4, <2>2, <2>3, <2>5 DEF Logged
<1>6. LastLogged(t)' BY <1>4 DEF LastLogged
<1>7. ASSUME NEW u \in Task \ cut, u # t, task'[u] # "none" PROVE Logged(u)'
  <2>1. Logged(u) /\ events'[u] = events[u] /\ was'[u] = was[u] BY <1>0, <1>3, <1>7 DEF LogInv
  <2>2. \A p \in Request : At(p, "append") => request'[p] = request[p] BY <1>0, <1>2
  <2>. QED BY <2>1, <2>2, KeepsLog
<1>8. ASSUME NEW u \in Task \ (cut \cup shared), u # t, task'[u] # "none" PROVE LastLogged(u)'
  <2>1. LastLogged(u) /\ events'[u] = events[u] /\ task'[u] = task[u]
    BY <1>0, <1>3, <1>8 DEF LogInv
  <2>2. \A p \in Request : At(p, "append") => request'[p] = request[p] BY <1>0, <1>2
  <2>. QED BY <2>1, <2>2, KeepsLast
<1>. QED BY <1>0, <1>5, <1>6, <1>7, <1>8 DEF LogInv

LEMMA SavesLog ==
  ASSUME LogInv, "none" \notin Task, NEW r \in Request,
         ConfirmSaves(r) \/ HandoffSaves(r) \/ CancelSaves(r)
  PROVE  LogInv'
<1>0. TypeInv /\ Stands(r) /\ AloneInv' /\ request[r].pc \notin {"idle", "append"}
  BY SavesAlone DEF ConfirmSaves, HandoffSaves, CancelSaves, At, LogInv, AloneInv, HistoryInv
<1>1. PICK t \in Task : t = On(r) BY <1>0 DEF Stands, On
<1>2. UNCHANGED <<events, shared, cut>> BY <1>0, <1>1, SavesStep
<1>3. PICK s \in TaskState, q \in RequestState :
        /\ task' = [task EXCEPT ![t] = s] /\ was' = [was EXCEPT ![t] = @ \cup {s}]
        /\ request' = [request EXCEPT ![r] = q]
        /\ q.pc = "append" /\ q.task = t /\ q.saves = s /\ q.todo = <<EventOf(s)>>
  BY <1>0, <1>1, SavesStep
<1>4. request'[r] = q /\ \A p \in Request : p # r => request'[p] = request[p]
  BY <1>0, <1>3, MovesOne
<1>5. /\ was'[t] = was[t] \cup {s}
      /\ \A u \in Task : u # t => task'[u] = task[u] /\ was'[u] = was[u]
  BY <1>0, <1>3 DEF TypeInv
<1>6. On(r)' = t /\ At(r, "append")' /\ Owes(r, EventOf(s))'
  BY <1>3, <1>4, OwesOneNext DEF On, At
<1>7. \A p \in Request : At(p, "append") => request'[p] = request[p] BY <1>0, <1>4 DEF At
<1>8. ASSUME t \notin cut PROVE Logged(t)'
  <2>1. Logged(t) BY <1>0, <1>1, <1>8 DEF LogInv, Stands, On
  <2>2. EventsOf(t)' = EventsOf(t) BY <1>2 DEF EventsOf
  <2>3. Expected(t)' = Expected(t) \cup {EventOf(s)} BY <1>5 DEF Expected
  <2>4. ASSUME NEW e, NEW p \in Request, On(p) = t, Owes(p, e) PROVE On(p)' = t /\ Owes(p, e)'
    <3>1. request'[p] = request[p] BY <1>7, <2>4 DEF Owes
    <3>. QED BY <2>4, <3>1 DEF Owes, On, At
  <2>. QED BY <1>6, <2>1, <2>2, <2>3, <2>4 DEF Logged
<1>9. LastLogged(t)' BY <1>6 DEF LastLogged
<1>10. ASSUME NEW u \in Task \ cut, u # t, task'[u] # "none" PROVE Logged(u)'
  <2>1. Logged(u) /\ events'[u] = events[u] /\ was'[u] = was[u] BY <1>2, <1>5, <1>10 DEF LogInv
  <2>. QED BY <1>7, <2>1, KeepsLog
<1>11. ASSUME NEW u \in Task \ (cut \cup shared), u # t, task'[u] # "none" PROVE LastLogged(u)'
  <2>1. LastLogged(u) /\ events'[u] = events[u] /\ task'[u] = task[u]
    BY <1>2, <1>5, <1>11 DEF LogInv
  <2>. QED BY <1>7, <2>1, KeepsLast
<1>. QED BY <1>0, <1>2, <1>8, <1>9, <1>10, <1>11 DEF LogInv

LEMMA AppendsLog ==
  ASSUME LogInv, "none" \notin Task, NEW r \in Request, Appends(r) PROVE LogInv'
<1>0. TypeInv /\ Stands(r) /\ AloneInv' BY AppendsAlone DEF LogInv, AloneInv, HistoryInv
<1>1. UNCHANGED <<task, was, shared, cut>> /\ request[r].pc = "append"
  BY <1>0, AppendsStep DEF past
<1>2. PICK t \in Task : t = On(r) BY <1>0, <1>1 DEF Stands, On
<1>. PICK saves : saves = request[r].saves OBVIOUS
<1>3. PICK e \in TaskEvent, q \in RequestState :
        /\ events' = [events EXCEPT ![t] = Append(@, e)]
        /\ request' = [request EXCEPT ![r] = q]
        /\ \/ /\ request[r].todo = <<"submitted", EventOf(saves)>>
              /\ e = "submitted" /\ q.pc = "append" /\ q.task = t
              /\ q.saves = saves /\ q.todo = <<EventOf(saves)>>
           \/ request[r].todo = <<EventOf(saves)>> /\ e = EventOf(saves)
  <2>0. TypeInv /\ Stands(r) BY <1>0
  <2>1. \E e \in TaskEvent, q \in RequestState :
          /\ events' = [events EXCEPT ![On(r)] = Append(@, e)]
          /\ request' = [request EXCEPT ![r] = q]
          /\ \/ /\ request[r].todo = <<"submitted", EventOf(request[r].saves)>>
                /\ e = "submitted" /\ q.pc = "append" /\ q.task = On(r)
                /\ q.saves = request[r].saves /\ q.todo = <<EventOf(q.saves)>>
             \/ /\ request[r].todo = <<EventOf(request[r].saves)>>
                /\ e = EventOf(request[r].saves)
                /\ \/ q = Idle
                   \/ /\ q.task = On(r)
                      /\ \/ q.pc \in {"accept", "execute"} /\ request[r].saves = "handed_off"
                         \/ q.pc \in {"confirm", "handoff"}
    BY <2>0, AppendsStep
  <2>. QED BY <1>2, <2>1
<1>4. request'[r] = q /\ \A p \in Request : p # r => request'[p] = request[p]
  BY <1>0, <1>3, MovesOne
<1>5. /\ events[t] \in Seq(TaskEvent) /\ events'[t] = Append(events[t], e)
      /\ \A u \in Task : u # t => events'[u] = events[u]
  BY <1>0, <1>3 DEF TypeInv
<1>6. /\ EventsOf(t)' = EventsOf(t) \cup {e}
      /\ events'[t] # <<>> /\ events'[t][Len(events'[t])] = e
  BY <1>5, EventsAppended
<1>7. Expected(t)' = Expected(t) BY <1>1 DEF Expected
<1>8. saves \in was[t] /\ task[t] # "none" BY <1>0, <1>1, <1>2 DEF Stands, On
<1>9. \A x : Owes(r, x) => x = e \/ (On(r)' = t /\ Owes(r, x)')
  <2>1. CASE /\ request[r].todo = <<"submitted", EventOf(saves)>>
             /\ e = "submitted" /\ q.pc = "append" /\ q.task = t
             /\ q.todo = <<EventOf(saves)>>
    <3>1. On(r)' = t /\ Owes(r, EventOf(saves))' BY <1>4, <2>1, OwesOneNext DEF On
    <3>. QED BY <2>1, <3>1, OwesTwo
  <2>2. CASE request[r].todo = <<EventOf(saves)>> /\ e = EventOf(saves)
    BY <2>2, OwesOne
  <2>. QED BY <1>3, <2>1, <2>2
<1>10. ASSUME t \notin cut PROVE Logged(t)'
  <2>1. Logged(t) BY <1>8, <1>10 DEF LogInv
  <2>2. e \in Expected(t) BY <1>3, <1>8 DEF Expected
  <2>3. ASSUME NEW x, NEW p \in Request, On(p) = t, Owes(p, x)
        PROVE  x = e \/ (On(p)' = t /\ Owes(p, x)')
    <3>1. CASE p = r BY <1>9, <2>3, <3>1
    <3>2. CASE p # r
      <4>1. request'[p] = request[p] BY <1>4, <3>2
      <4>. QED BY <2>3, <4>1 DEF Owes, On, At
    <3>. QED BY <3>1, <3>2
  <2>. QED BY <1>6, <1>7, <2>1, <2>2, <2>3 DEF Logged
<1>11. ASSUME t \notin cut \cup shared PROVE LastLogged(t)'
  <2>1. CASE q.pc = "append" /\ q.task = t
    <3>1. On(r)' = t /\ At(r, "append")' BY <1>4, <2>1 DEF On, At
    <3>. QED BY <3>1 DEF LastLogged
  <2>2. CASE e = EventOf(saves)
    <3>1. StandsAlone(r) BY <1>2, <1>11 DEF LogInv, AloneInv, Alone
    <3>2. task'[t] = saves BY <1>1, <1>2, <3>1 DEF StandsAlone, On
    <3>. QED BY <1>6, <2>2, <3>2 DEF LastLogged
  <2>. QED BY <1>3, <2>1, <2>2
<1>12. ASSUME NEW u \in Task, u # t
       PROVE  \A p \in Request : On(p) = u /\ At(p, "append") => request'[p] = request[p]
  BY <1>2, <1>4, <1>12
<1>13. ASSUME NEW u \in Task \ cut, u # t, task'[u] # "none" PROVE Logged(u)'
  <2>1. Logged(u) /\ events'[u] = events[u] /\ was'[u] = was[u] BY <1>1, <1>5, <1>13 DEF LogInv
  <2>. QED BY <1>12, <1>13, <2>1, KeepsLog
<1>14. ASSUME NEW u \in Task \ (cut \cup shared), u # t, task'[u] # "none" PROVE LastLogged(u)'
  <2>1. LastLogged(u) /\ events'[u] = events[u] /\ task'[u] = task[u]
    BY <1>1, <1>5, <1>14 DEF LogInv
  <2>. QED BY <1>12, <1>14, <2>1, KeepsLast
<1>. QED BY <1>0, <1>1, <1>10, <1>11, <1>13, <1>14 DEF LogInv

LEMMA LogStarts == ASSUME "none" \notin Task PROVE Init => LogInv
<1>1. Init => \A t \in Task : task[t] = "none" BY DEF Init
<1>. QED BY <1>1, AloneStarts DEF LogInv

LEMMA LogStep == ASSUME "none" \notin Task PROVE LogInv /\ [Next]_vars => LogInv'
<1>. SUFFICES ASSUME LogInv, [Next]_vars PROVE LogInv' OBVIOUS
<1>1. CASE UNCHANGED vars BY <1>1, StutterLog
<1>2. CASE Crash BY <1>2, CrashLog
<1>3. CASE \E t \in Task : WorkerEnds(t) BY <1>3, WorkerLog
<1>4. ASSUME NEW r \in Request, Asks(r) \/ Submits(r) \/ RequestStep(r) PROVE LogInv'
  BY <1>4, AsksLog, SubmitsLog, ReadsLog, SavesLog, AppendsLog, RunsLog DEF RequestStep
<1>. QED BY <1>1, <1>2, <1>3, <1>4 DEF Next

LEMMA LogTells == LogInv => EventsTellStates
<1>. SUFFICES ASSUME LogInv, NEW t \in Task \ cut, \A r \in Request : On(r) # t, task[t] # "none"
     PROVE  /\ {events[t][k] : k \in DOMAIN events[t]}
                 = {EventOf(s) : s \in was[t]} \cup {"submitted"}
            /\ t \notin shared => events[t][Len(events[t])] = EventOf(task[t])
  BY DEF EventsTellStates
<1>1. EventsOf(t) = Expected(t) BY DEF LogInv, Logged
<1>2. t \notin shared => events[t][Len(events[t])] = EventOf(task[t]) BY DEF LogInv, LastLogged
<1>. QED BY <1>1, <1>2 DEF EventsOf, Expected

(* The events of a task tell every state it was in, and the last one its   *)
(* state if requests came one at a time, unless a crash cut one off.       *)
THEOREM EventsTell == ASSUME "none" \notin Task PROVE Spec => []EventsTellStates
BY LogStarts, LogStep, LogTells, PTL DEF Spec

-----------------------------------------------------------------------------
(* TEXTS AND SUBMISSIONS.                                                  *)

CONSTANTS
  Text, SceneAssets, WaypointOrder, Digits, Numerals, MaxGap, \* TaskParser
  Submission                                                 \* TaskOrchestrator

VARIABLES source_text, assets, parser_pc, draft, graph
Parser == INSTANCE TaskParser WITH pc <- parser_pc

VARIABLE sessions
Orchestrator == INSTANCE TaskOrchestrator WITH TaskId <- Task

(* Texts are made of words, assets have an id, and the waypoints of every  *)
(* catalog have a place in the order of their ids.                         *)
TextsFit ==
  /\ Text \subseteq Seq(STRING) /\ WaypointOrder \in Seq(Seq(STRING))
  /\ {Parser!PointA, Parser!PointB, Parser!Platform} \subseteq Parser!ToSet(WaypointOrder)
  /\ \A s \in SceneAssets :
       /\ s \in Seq([asset_type : STRING, asset_id : Seq(STRING) \ {<<>>}])
       /\ \A i \in 1..Len(s) : s[i].asset_type = "checkpoint" =>
            Parser!checkpoint_waypoint_id(s[i].asset_id) \in Parser!ToSet(WaypointOrder)

(* Scripts are rows of waypoints, and candidates a row of policies.        *)
SubmissionsFit ==
  \A s \in Submission :
    /\ s.script.waypoints \in Seq([id : STRING, dwells : BOOLEAN, terrain : STRING])
    /\ s.candidates \in Seq([id : STRING, stage : STRING, terrain : STRING, task_tag : STRING,
                             risk_flag : BOOLEAN])

(* A set of numbers that is not empty has a least one: the well-ordering   *)
(* of the naturals gives it, where an induction would be needed.           *)
LEMMA LeastOf ==
  ASSUME NEW S \in SUBSET Nat, S # {} PROVE \E m \in S : \A n \in S : m <= n
<1>1. PICK m \in S : \A n \in S : ~(<<n, m>> \in OpToRel(<, Nat))
  BY NatLessThanWellFounded, WFMin
<1>2. \A n \in S : m <= n
  <2>. SUFFICES ASSUME NEW n \in S, n < m PROVE FALSE OBVIOUS
  <2>1. <<n, m>> \in OpToRel(<, Nat) BY DEF OpToRel
  <2>. QED BY <1>1, <2>1
<1>. QED BY <1>2

-----------------------------------------------------------------------------
(* SESSIONS OF THE C++ SERVICE.                                            *)

(* An event of a session.                                                  *)
EventRecord ==
  [type : {"Submitted", "UnderstandingStarted", "PreviewGenerated", "Rejected", "Confirmed",
           "HandedOff", "Cancelled"},
   from : Orchestrator!LifecycleState, to : Orchestrator!LifecycleState]

(* The events of a session lead from its submission to its state, and one  *)
(* that was confirmed since has the event.                                 *)
EventsLead(e, to) ==
  /\ e \in Seq(EventRecord) /\ Len(e) > 0 /\ e[1].type = "Submitted"
  /\ \A i \in 1..Len(e) - 1 :
       /\ e[i].to = e[i + 1].from /\ ~Orchestrator!Terminal(e[i].to)
       /\ e[i + 1].type # "Submitted"
  /\ e[Len(e)].to = to
  /\ to \in {"Confirmed", "HandedOff"} => \E i \in 1..Len(e) : e[i].type = "Confirmed"

(* Inductive: so it is for every session that was opened.                  *)
SessionInv ==
  /\ DOMAIN sessions = Task
  /\ \A t \in Task :
       /\ {"state", "events"} \subseteq DOMAIN sessions[t]
       /\ sessions[t].state \in Orchestrator!LifecycleState
       /\ sessions[t].state # "None" => EventsLead(sessions[t].events, sessions[t].state)

(* An event holds what it was made of.                                     *)
LEMMA EventIs ==
  ASSUME NEW type, NEW from, NEW to
  PROVE  /\ Orchestrator!Event(type, from, to).type = type
         /\ Orchestrator!Event(type, from, to).from = from
         /\ Orchestrator!Event(type, from, to).to = to
BY DEF Orchestrator!Event

(* Events lead one further.                                                *)
LEMMA LeadsOn ==
  ASSUME NEW e, NEW to, EventsLead(e, to), ~Orchestrator!Terminal(to),
         NEW x \in EventRecord,
         x.type # "Submitted", x.from = to,
         x.to = "HandedOff" => to = "Confirmed",
         x.to = "Confirmed" => x.type = "Confirmed"
  PROVE  EventsLead(Append(e, x), x.to)
<1>. DEFINE f == Append(e, x)  n == Len(e)
<1>1. e \in Seq(EventRecord) /\ n \in Nat /\ n > 0 BY LenProperties DEF EventsLead
<1>2. f \in Seq(EventRecord) /\ Len(f) = n + 1 /\ f[n + 1] = x /\ \A i \in 1..n : f[i] = e[i]
  BY <1>1, AppendProperties
<1>. HIDE DEF f, n
<1>3. f[1].type = "Submitted" BY <1>1, <1>2 DEF EventsLead, n
<1>4. ASSUME NEW i \in 1..n
      PROVE  f[i].to = f[i + 1].from /\ ~Orchestrator!Terminal(f[i].to)
             /\ f[i + 1].type # "Submitted"
  <2>1. CASE i = n
    <3>1. f[i].to = to BY <1>2, <2>1 DEF EventsLead, n
    <3>. QED BY <1>2, <2>1, <3>1
  <2>2. CASE i # n
    <3>1. i \in 1..n - 1 /\ i + 1 \in 1..n BY <1>1, <2>2
    <3>2. f[i] = e[i] /\ f[i + 1] = e[i + 1] BY <1>2, <3>1
    <3>3. e[i].to = e[i + 1].from /\ ~Orchestrator!Terminal(e[i].to) /\ e[i + 1].type # "Submitted"
      BY <3>1 DEF EventsLead, n
    <3>. QED BY <3>2, <3>3
  <2>. QED BY <2>1, <2>2
<1>5. ASSUME x.to \in {"Confirmed", "HandedOff"}
      PROVE  \E i \in 1..n + 1 : f[i].type = "Confirmed"
  <2>1. CASE x.to = "Confirmed" BY <1>1, <1>2, <2>1
  <2>2. CASE x.to = "HandedOff"
    <3>1. PICK i \in 1..n : e[i].type = "Confirmed" BY <2>2 DEF EventsLead, n
    <3>2. i \in 1..n + 1 /\ f[i].type = "Confirmed" BY <1>1, <1>2, <3>1
    <3>. QED BY <3>2
  <2>. QED BY <1>5, <2>1, <2>2
<1>6. Len(f) - 1 = n /\ f[Len(f)].to = x.to /\ Len(f) > 0 BY <1>1, <1>2
<1>. QED BY <1>2, <1>3, <1>4, <1>5, <1>6 DEF EventsLead, f

(* What a submission opens.                                                *)
LEMMA OpenedLeads ==
  ASSUME NEW s
  PROVE  /\ Orchestrator!Opened(s).state \in {"PreviewReady", "Rejected"}
         /\ {"state", "events"} \subseteq DOMAIN Orchestrator!Opened(s)
         /\ EventsLead(Orchestrator!Opened(s).events, Orchestrator!Opened(s).state)
<1>. DEFINE a == Orchestrator!Event("Submitted", "Received", "Received")
            b == Orchestrator!Event("UnderstandingStarted", "Received", "Understanding")
            c == Orchestrator!Event("PreviewGenerated", "Understanding", "PreviewReady")
            d == Orchestrator!Event("Rejected", "Understanding", "Rejected")
<1>1. {a, b, c, d} \subseteq EventRecord BY DEF Orchestrator!Event, EventRecord,
     Orchestrator!LifecycleState
<1>2. /\ a.type = "Submitted" /\ a.to = "Received"
      /\ b.type = "UnderstandingStarted" /\ b.from = "Received" /\ b.to = "Understanding"
      /\ c.type = "PreviewGenerated" /\ c.from = "Understanding" /\ c.to = "PreviewReady"
      /\ d.type = "Rejected" /\ d.from = "Understanding" /\ d.to = "Rejected"
  BY DEF Orchestrator!Event
<1>3. \/ Orchestrator!Opened(s) = [state |-> "PreviewReady", graph |-> Orchestrator!Planned(s),
                      submission |-> s,
                      events |-> Append(<<a, b>>, c)]
      \/ Orchestrator!Opened(s) = [state |-> "Rejected", graph |-> <<>>, submission |-> s,
                      events |-> Append(<<a, b>>, d)]
  BY DEF Orchestrator!Opened
<1>. HIDE DEF a, b, c, d
<1>4. EventsLead(<<a>>, "Received") BY <1>1, <1>2 DEF EventsLead
<1>5. EventsLead(<<a, b>>, "Understanding")
  <2>1. EventsLead(Append(<<a>>, b), b.to) BY <1>1, <1>2, <1>4, LeadsOn DEF Orchestrator!Terminal
  <2>2. <<a>> \in Seq(EventRecord) /\ Len(<<a>>) = 1 /\ <<a>>[1] = a BY <1>1
  <2>3. /\ Append(<<a>>, b) \in Seq(EventRecord) /\ Len(Append(<<a>>, b)) = 2
        /\ Append(<<a>>, b)[1] = a /\ Append(<<a>>, b)[2] = b
    BY <1>1, <2>2, AppendProperties
  <2>4. <<a, b>> \in Seq(EventRecord) /\ Len(<<a, b>>) = 2 /\ <<a, b>>[1] = a /\ <<a, b>>[2] = b
    BY <1>1
  <2>5. \A i \in 1..2 : Append(<<a>>, b)[i] = <<a, b>>[i] BY <2>3, <2>4
  <2>6. Append(<<a>>, b) = <<a, b>> BY <2>3, <2>4, <2>5, SeqEqual
  <2>. QED BY <1>2, <2>1, <2>6
<1>6. EventsLead(Append(<<a, b>>, c), "PreviewReady")
  <2>1. EventsLead(Append(<<a, b>>, c), c.to) BY <1>1, <1>2, <1>5, LeadsOn
       DEF Orchestrator!Terminal
  <2>. QED BY <1>2, <2>1
<1>7. EventsLead(Append(<<a, b>>, d), "Rejected")
  <2>1. EventsLead(Append(<<a, b>>, d), d.to) BY <1>1, <1>2, <1>5, LeadsOn
       DEF Orchestrator!Terminal
  <2>. QED BY <1>2, <2>1
<1>8. CASE Orchestrator!Opened(s) = [state |-> "PreviewReady", graph |-> Orchestrator!Planned(s),
                        submission |-> s,
                        events |-> Append(<<a, b>>, c)]
  BY <1>6, <1>8
<1>9. CASE Orchestrator!Opened(s) = [state |-> "Rejected", graph |-> <<>>, submission |-> s,
                        events |-> Append(<<a, b>>, d)]
  BY <1>7, <1>9
<1>. QED BY <1>3, <1>8, <1>9

(* A session that is moved.                                                *)
LEMMA MovedLeads ==
  ASSUME SessionInv, NEW t \in Task, NEW type \in {"Confirmed", "HandedOff", "Cancelled"},
         Orchestrator!Moved(t, type, type), sessions[t].state # "None",
         ~Orchestrator!Terminal(sessions[t].state),
         type = "HandedOff" => sessions[t].state = "Confirmed"
  PROVE  SessionInv'
<1>. DEFINE s == sessions[t]  x == Orchestrator!Event(type, s.state, type)
            q == [s EXCEPT !.state = type, !.events = Append(@, x)]
<1>1. sessions' = [sessions EXCEPT ![t] = [s EXCEPT !.state = type, !.events = Append(@, x)]]
  BY DEF Orchestrator!Moved
<1>2. /\ {"state", "events"} \subseteq DOMAIN s /\ s.state \in Orchestrator!LifecycleState
      /\ EventsLead(s.events, s.state)
  BY DEF SessionInv
<1>3. /\ sessions'[t] = q /\ DOMAIN sessions' = Task
      /\ \A u \in Task \ {t} : sessions'[u] = sessions[u]
  <2>. HIDE DEF x
  <2>1. sessions' = [sessions EXCEPT ![t] = q] BY <1>1, Zenon
  <2>. HIDE DEF q
  <2>. QED BY <2>1 DEF SessionInv
<1>4. x \in EventRecord /\ x.type = type /\ x.from = s.state /\ x.to = type
  BY <1>2 DEF Orchestrator!Event, EventRecord, Orchestrator!LifecycleState
<1>5. type \in Orchestrator!LifecycleState BY DEF Orchestrator!LifecycleState
<1>6. q.state = type /\ q.events = Append(s.events, x) /\ DOMAIN q = DOMAIN s
  <2>. HIDE DEF x, s
  <2>. QED BY <1>2
<1>. HIDE DEF q, x
<1>7. EventsLead(Append(s.events, x), x.to) BY <1>2, <1>4, LeadsOn
<1>8. EventsLead(q.events, q.state) BY <1>4, <1>6, <1>7
<1>. HIDE DEF s
<1>. QED BY <1>2, <1>3, <1>5, <1>6, <1>8 DEF SessionInv

(* Every call leaves events that lead to the state it leaves.              *)
LEMMA SessionStep == SessionInv /\ [Orchestrator!Next]_sessions => SessionInv'
<1>. SUFFICES ASSUME SessionInv, [Orchestrator!Next]_sessions PROVE SessionInv' OBVIOUS
<1>1. CASE UNCHANGED sessions BY <1>1 DEF SessionInv
<1>2. ASSUME NEW t \in Task, NEW s \in Submission, Orchestrator!Submit(t, s) PROVE SessionInv'
  <2>1. DOMAIN sessions' = Task /\ sessions'[t] = Orchestrator!Opened(s)
        /\ \A u \in Task \ {t} : sessions'[u] = sessions[u]
    BY <1>2 DEF Orchestrator!Submit, Orchestrator!OpenedAfresh, SessionInv
  <2>2. Orchestrator!Opened(s).state \in Orchestrator!LifecycleState BY OpenedLeads
       DEF Orchestrator!LifecycleState
  <2>. QED BY <2>1, <2>2, OpenedLeads DEF SessionInv
<1>3. ASSUME NEW t \in Task, Orchestrator!Confirm(t) PROVE SessionInv'
  BY <1>3, MovedLeads DEF Orchestrator!Confirm, Orchestrator!Terminal
<1>4. ASSUME NEW t \in Task, Orchestrator!Handoff(t) PROVE SessionInv'
  BY <1>4, MovedLeads DEF Orchestrator!Handoff, Orchestrator!Terminal
<1>5. ASSUME NEW t \in Task, Orchestrator!Cancel(t) PROVE SessionInv'
  BY <1>5, MovedLeads DEF Orchestrator!Cancel
<1>. QED BY <1>1, <1>2, <1>3, <1>4, <1>5 DEF Orchestrator!Next

(* However often a task is submitted again, its session's events lead from *)
(* the last submission to its state, and one handed off was confirmed.     *)
LEMMA SessionsTell == Orchestrator!Spec => []Orchestrator!SessionTells
<1>1. Orchestrator!Init => SessionInv BY DEF Orchestrator!Init, SessionInv,
                                         Orchestrator!NoSession, Orchestrator!LifecycleState
<1>2. SessionInv => Orchestrator!SessionTells
  <2>. SUFFICES ASSUME SessionInv, NEW t \in Task, sessions[t].state # "None"
                PROVE  LET s == sessions[t]
                       IN /\ Head(s.events).type = "Submitted" /\ Orchestrator!EventsChain(s.events)
                          /\ Orchestrator!Last(s.events).to = s.state
                          /\ s.state = "HandedOff" =>
                               \E i \in DOMAIN s.events : s.events[i].type = "Confirmed"
    BY DEF Orchestrator!SessionTells
  <2>. DEFINE e == sessions[t].events
  <2>1. EventsLead(e, sessions[t].state) BY DEF SessionInv
  <2>. HIDE DEF e
  <2>2. e \in Seq(EventRecord) /\ Len(e) \in Nat /\ Len(e) > 0 /\ DOMAIN e = 1..Len(e)
    BY <2>1, LenProperties DEF EventsLead
  <2>3. Head(e) = e[1] /\ Orchestrator!Last(e) = e[Len(e)]
    BY <2>2 DEF Orchestrator!Last
  <2>. QED BY <2>1, <2>2, <2>3 DEF EventsLead, Orchestrator!EventsChain, e
<1>. QED BY <1>1, <1>2, SessionStep, PTL DEF Orchestrator!Spec

-----------------------------------------------------------------------------
(* SEQUENCES OF PIECES.                                                    *)

(* A sequence of sequences, joined from the left.                          *)
JoinTo(f, s, n) == f = [i \in 1..n |-> IF i = 1 THEN s[i] ELSE f[i - 1] \o s[i]]

LEMMA JoinsExist == ASSUME NEW s, NEW n \in Nat PROVE \E f : JoinTo(f, s, n)
<1>. DEFINE S == {k \in Nat : ~\E f : JoinTo(f, s, k)}
<1>. SUFFICES ASSUME S # {} PROVE FALSE OBVIOUS
<1>1. PICK m \in S : \A k \in S : m <= k BY LeastOf
<1>2. m # 0
  <2>1. JoinTo([i \in 1..0 |-> 0], s, 0) BY DEF JoinTo
  <2>. QED BY <2>1
<1>3. m \in Nat /\ m - 1 \in Nat /\ m - 1 \notin S BY <1>1, <1>2
<1>4. PICK f : JoinTo(f, s, m - 1) BY <1>3
<1>. DEFINE g == [k \in 1..m |-> IF k # m THEN f[k] ELSE IF k = 1 THEN s[k] ELSE f[k - 1] \o s[k]]
<1>5. ASSUME NEW k \in 1..m PROVE g[k] = IF k = 1 THEN s[k] ELSE g[k - 1] \o s[k]
  <2>1. CASE k = m
    <3>1. k # 1 => k - 1 \in 1..m /\ k - 1 # m BY <1>3
    <3>2. k # 1 => g[k - 1] = f[k - 1] BY <3>1
    <3>. QED BY <2>1, <3>2
  <2>2. CASE k # m
    <3>1. k \in 1..m - 1 BY <1>3, <2>2
    <3>2. f[k] = IF k = 1 THEN s[k] ELSE f[k - 1] \o s[k] BY <1>4, <3>1 DEF JoinTo
    <3>3. k # 1 => k - 1 \in 1..m /\ k - 1 # m BY <1>3, <3>1
    <3>4. k # 1 => g[k - 1] = f[k - 1] BY <3>3
    <3>. QED BY <2>2, <3>2, <3>4
  <2>. QED BY <2>1, <2>2
<1>6. JoinTo(g, s, m)
  <2>1. g = [k \in 1..m |-> g[k]] OBVIOUS
  <2>. HIDE DEF g
  <2>. QED BY <1>5, <2>1 DEF JoinTo
<1>. QED BY <1>1, <1>6

(* Piece j of what is joined begins behind start[j].                       *)
Places(start, s, F) ==
  /\ start \in [1..Len(s) + 1 -> Nat] /\ start[1] = 0 /\ start[Len(s) + 1] = Len(F)
  /\ \A j \in 1..Len(s) : start[j + 1] = start[j] + Len(s[j])
  /\ \A j \in 1..Len(s) : \A q \in 1..Len(s[j]) : F[start[j] + q] = s[j][q]

LEMMA JoinsAre ==
  ASSUME NEW E, NEW s \in Seq(Seq(E)), Len(s) # 0, NEW f, JoinTo(f, s, Len(s))
  PROVE  f[Len(s)] \in Seq(E) /\ \E start : Places(start, s, f[Len(s)])
<1>. DEFINE N == Len(s)
<1>1. N \in Nat \ {0} /\ \A i \in 1..N : s[i] \in Seq(E) /\ Len(s[i]) \in Nat
  BY LenProperties, ElementOfSeq
<1>2. \A i \in 1..N : f[i] = IF i = 1 THEN s[i] ELSE f[i - 1] \o s[i] BY DEF JoinTo
<1>. HIDE DEF N
<1>. DEFINE start == [j \in 1..N + 1 |-> IF j = 1 THEN 0 ELSE Len(f[j - 1])]
            Good(i) == /\ f[i] \in Seq(E)
                       /\ \A j \in 1..i : /\ start[j] \in Nat /\ start[j + 1] \in Nat
                                          /\ start[j + 1] = start[j] + Len(s[j])
                                          /\ start[j + 1] <= Len(f[i])
                       /\ \A j \in 1..i : \A q \in 1..Len(s[j]) : f[i][start[j] + q] = s[j][q]
<1>3. start[1] = 0 /\ \A i \in 1..N : start[i + 1] = Len(f[i]) BY <1>1
<1>. HIDE DEF start
<1>4. Good(1)
  <2>1. f[1] = s[1] /\ f[1] \in Seq(E) /\ Len(s[1]) \in Nat /\ 1 \in 1..N BY <1>1, <1>2
  <2>2. start[1 + 1] = Len(s[1]) BY <1>3, <2>1
  <2>3. \A j \in 1..1 : j = 1 OBVIOUS
  <2>4. \A q \in 1..Len(s[1]) : f[1][start[1] + q] = s[1][q] BY <1>3, <2>1
  <2>5. start[1] = 0 /\ start[1 + 1] = start[1] + Len(s[1]) BY <1>3, <2>1, <2>2
  <2>. QED BY <2>1, <2>2, <2>3, <2>4, <2>5
<1>5. ASSUME NEW i \in 2..N, Good(i - 1) PROVE Good(i)
  <2>. DEFINE a == f[i - 1]  b == s[i]  n == Len(f[i - 1])
  <2>1. i \in 1..N /\ i # 1 /\ i - 1 \in 1..N /\ i \in Nat BY <1>1
  <2>2. a \in Seq(E) /\ b \in Seq(E) /\ f[i] = a \o b BY <1>1, <1>2, <1>5, <2>1
  <2>3. n \in Nat /\ Len(b) \in Nat /\ Len(a \o b) = n + Len(b) /\ a \o b \in Seq(E)
        /\ \A k \in 1..n + Len(b) : (a \o b)[k] = IF k <= n THEN a[k] ELSE b[k - n]
    BY <2>2, ConcatProperties, LenProperties
  <2>4. start[i] = n /\ start[i + 1] = n + Len(b)
    <3>1. i = (i - 1) + 1 BY <2>1
    <3>2. start[(i - 1) + 1] = n BY <1>3, <2>1
    <3>3. start[i + 1] = Len(f[i]) BY <1>3, <2>1
    <3>4. Len(f[i]) = n + Len(b) BY <2>2, <2>3
    <3>. HIDE DEF n
    <3>. QED BY <3>1, <3>2, <3>3, <3>4
  <2>. HIDE DEF a, b, n
  <2>5. \A j \in 1..i - 1 : /\ start[j] \in Nat /\ start[j + 1] \in Nat
                            /\ start[j + 1] = start[j] + Len(s[j]) /\ start[j + 1] <= n
    BY <1>5 DEF n
  <2>6. \A j \in 1..i - 1 : \A q \in 1..Len(s[j]) : a[start[j] + q] = s[j][q] BY <1>5 DEF a
  <2>7. \A j \in 1..i : j = i \/ j \in 1..i - 1 BY <2>1
  <2>8. f[i] \in Seq(E) /\ Len(f[i]) = n + Len(b) BY <2>2, <2>3
  <2>9. ASSUME NEW j \in 1..i
        PROVE  /\ start[j] \in Nat /\ start[j + 1] \in Nat
               /\ start[j + 1] = start[j] + Len(s[j]) /\ start[j + 1] <= Len(f[i])
    <3>1. CASE j = i
      <4>. DEFINE first == start[j]  after == start[j + 1]  l == Len(f[i])  y == Len(b)
      <4>1. Len(s[j]) = y BY <3>1 DEF b
      <4>2. first = n /\ after = n + y BY <2>4, <3>1
      <4>3. n \in Nat /\ y \in Nat BY <2>3
      <4>4. l = n + y BY <2>8
      <4>. HIDE DEF first, after, l, y
      <4>5. first \in Nat /\ after \in Nat /\ after = first + y /\ after <= l BY <4>2, <4>3, <4>4
      <4>. QED BY <4>1, <4>5 DEF first, after, l
    <3>2. CASE j \in 1..i - 1
      <4>. DEFINE x == start[j + 1]  l == Len(f[i])  y == Len(b)
      <4>1. x \in Nat /\ x <= n /\ l = n + y /\ n \in Nat /\ y \in Nat BY <2>3, <2>5, <2>8, <3>2
      <4>. HIDE DEF x, l, y
      <4>2. x <= l BY <4>1
      <4>. QED BY <2>5, <3>2, <4>2 DEF x, l
    <3>. QED BY <2>7, <3>1, <3>2
  <2>10. ASSUME NEW j \in 1..i, NEW q \in 1..Len(s[j]) PROVE f[i][start[j] + q] = s[j][q]
    <3>1. CASE j = i
      <4>1. q \in Nat /\ q >= 1 /\ n + q \in 1..n + Len(b) /\ ~(n + q <= n) /\ (n + q) - n = q
        BY <2>3, <3>1 DEF b
      <4>. QED BY <2>2, <2>3, <2>4, <3>1, <4>1 DEF b
    <3>2. CASE j \in 1..i - 1
      <4>1. start[j] + q <= n /\ start[j] + q \in 1..n + Len(b)
        <5>1. start[j] \in Nat /\ Len(s[j]) \in Nat /\ start[j] + Len(s[j]) <= n
          BY <1>1, <2>1, <2>5, <3>2
        <5>. QED BY <2>3, <5>1
      <4>. QED BY <2>2, <2>3, <2>6, <3>2, <4>1
    <3>. QED BY <2>7, <3>1, <3>2
  <2>. QED BY <2>8, <2>9, <2>10
<1>. HIDE DEF Good
<1>6. \A i \in 1..N : Good(i)
  <2>. DEFINE S == {i \in 1..N : ~Good(i)}
  <2>. SUFFICES ASSUME S # {} PROVE FALSE OBVIOUS
  <2>1. PICK m \in S : \A k \in S : m <= k
    <3>1. S \in SUBSET Nat BY <1>1
    <3>. QED BY <3>1, LeastOf
  <2>2. m \in 1..N /\ m # 1 BY <1>4, <2>1
  <2>3. m \in 2..N /\ m - 1 \in 1..N /\ ~(m <= m - 1) BY <1>1, <2>2
  <2>4. Good(m - 1) BY <2>1, <2>3
  <2>. QED BY <1>5, <2>1, <2>3, <2>4
<1>7. Good(N) BY <1>1, <1>6
<1>8. N \in 1..N /\ N + 1 \in 1..N + 1 BY <1>1
<1>9. Places(start, s, f[N])
  <2>1. start \in [1..N + 1 -> Nat]
    <3>1. \A i \in 1..N : start[i + 1] \in Nat
      <4>1. \A i \in 1..N : f[i] \in Seq(E) BY <1>6 DEF Good
      <4>. QED BY <1>3, <4>1, LenProperties
    <3>2. \A j \in 1..N + 1 : j = 1 \/ (j - 1 \in 1..N /\ j = (j - 1) + 1) BY <1>1
    <3>3. \A j \in 1..N + 1 : start[j] \in Nat BY <1>3, <3>1, <3>2
    <3>4. start = [j \in 1..N + 1 |-> start[j]] BY DEF start
    <3>. QED BY <3>3, <3>4
  <2>2. start[N + 1] = Len(f[N]) BY <1>3, <1>8
  <2>. QED BY <1>3, <1>7, <2>1, <2>2 DEF Places, Good, N
<1>10. f[N] \in Seq(E) BY <1>7 DEF Good
<1>. QED BY <1>9, <1>10 DEF N

(* The pieces lie behind one another,                                      *)
LEMMA PlacesGrow ==
  ASSUME NEW s, Len(s) \in Nat, NEW F, NEW start, Places(start, s, F),
         \A j \in 1..Len(s) : Len(s[j]) \in Nat,
         NEW i \in 1..Len(s) + 1, NEW j \in i..Len(s) + 1
  PROVE  start[i] <= start[j]
<1>. DEFINE N == Len(s)
<1>1. /\ N \in Nat /\ start \in [1..N + 1 -> Nat] /\ \A k \in 1..N : Len(s[k]) \in Nat
      /\ \A k \in 1..N : start[k + 1] = start[k] + Len(s[k])
      /\ i \in 1..N + 1 /\ j \in i..N + 1
  BY DEF Places
<1>. HIDE DEF N
<1>. DEFINE S == {k \in i..N + 1 : ~(start[i] <= start[k])}
<1>2. S = {}
  <2>. SUFFICES ASSUME S # {} PROVE FALSE OBVIOUS
  <2>1. S \in SUBSET Nat BY <1>1
  <2>2. PICK m \in S : \A k \in S : m <= k BY <2>1, LeastOf
  <2>3. m \in i..N + 1 /\ ~(start[i] <= start[m]) BY <2>2
  <2>4. m # i BY <1>1, <2>3
  <2>5. m - 1 \in i..N + 1 /\ m - 1 \in 1..N /\ ~(m <= m - 1) /\ m = (m - 1) + 1
    BY <1>1, <2>3, <2>4
  <2>6. start[i] <= start[m - 1] BY <2>2, <2>5
  <2>. DEFINE k == m - 1
  <2>7. k \in 1..N /\ start[i] <= start[k] /\ ~(start[i] <= start[k + 1]) /\ k \in 1..N + 1
    BY <1>1, <2>3, <2>5, <2>6
  <2>. HIDE DEF k
  <2>8. start[k + 1] = start[k] + Len(s[k]) /\ Len(s[k]) \in Nat BY <1>1, <2>7
  <2>9. start[i] \in Nat /\ start[k] \in Nat BY <1>1, <2>7
  <2>. QED BY <2>7, <2>8, <2>9
<1>. QED BY <1>1, <1>2

(* and every place is in one of them.                                      *)
InPiece(k, start, s, F) ==
  \E j \in 1..Len(s) : \E q \in 1..Len(s[j]) : k = start[j] + q /\ F[k] = s[j][q]
LEMMA PlacedIn ==
  ASSUME NEW s, Len(s) \in Nat, NEW F, NEW start, Places(start, s, F),
         \A j \in 1..Len(s) : Len(s[j]) \in Nat, NEW k \in 1..Len(F)
  PROVE  InPiece(k, start, s, F)
<1>. DEFINE N == Len(s)
<1>1. /\ N \in Nat /\ start \in [1..N + 1 -> Nat] /\ \A j \in 1..N : Len(s[j]) \in Nat
      /\ \A j \in 1..N : start[j + 1] = start[j] + Len(s[j])
      /\ start[1] = 0 /\ start[N + 1] = Len(F)
  BY DEF Places
<1>. HIDE DEF N
<1>. DEFINE S == {j \in 1..N + 1 : k <= start[j]}
<1>2. N + 1 \in S /\ S \in SUBSET Nat BY <1>1
<1>3. PICK m \in S : \A j \in S : m <= j BY <1>2, LeastOf
<1>4. Len(F) \in Nat /\ k \in Nat /\ k >= 1
  <2>1. start[N + 1] \in Nat BY <1>1
  <2>. QED BY <1>1, <2>1
<1>5. m \in 1..N + 1 /\ k <= start[m] /\ m # 1 BY <1>1, <1>3, <1>4
<1>. DEFINE j == m - 1
<1>6. j \in 1..N /\ j \in 1..N + 1 /\ m = j + 1 /\ ~(m <= j) BY <1>1, <1>5
<1>7. ~(k <= start[j]) BY <1>3, <1>6
<1>. HIDE DEF j
<1>8. start[j] \in Nat /\ k > start[j] /\ k <= start[j] + Len(s[j]) /\ Len(s[j]) \in Nat
  BY <1>1, <1>4, <1>5, <1>6, <1>7
<1>. DEFINE q == k - start[j]
<1>9. q \in 1..Len(s[j]) /\ k = start[j] + q BY <1>4, <1>8
<1>10. F[start[j] + q] = s[j][q] BY <1>6, <1>9 DEF Places, N
<1>. QED BY <1>6, <1>9, <1>10 DEF N, InPiece

LEMMA FlatIs ==
  ASSUME NEW E, NEW s \in Seq(Seq(E)), Len(s) # 0
  PROVE  /\ Parser!FlattenSeq(s) \in Seq(E) /\ \E start : Places(start, s, Parser!FlattenSeq(s))
         /\ Orchestrator!FlattenSeq(s) = Parser!FlattenSeq(s)
<1>. DEFINE f == CHOOSE f : f = [i \in 1..Len(s) |-> IF i = 1 THEN s[i] ELSE f[i - 1] \o s[i]]
<1>1. JoinTo(f, s, Len(s))
  <2>1. \E g : JoinTo(g, s, Len(s)) BY JoinsExist, LenProperties
  <2>. QED BY <2>1, Zenon DEF JoinTo
<1>2. Parser!FlattenSeq(s) = f[Len(s)] BY DEF Parser!FlattenSeq
<1>3. Orchestrator!FlattenSeq(s) = f[Len(s)] BY DEF Orchestrator!FlattenSeq
<1>. HIDE DEF f
<1>. QED BY <1>1, <1>2, <1>3, JoinsAre

(* Pieces of one element, or of two: at[i] is where the first of piece i   *)
(* lies in what is joined of them.                                         *)
Pair(x, y) == <<x>> \o <<y>>
Lone(x) == <<x>> \o <<>>
JoinsPieces(E, at, n, moves, dwells, D, F) ==
  /\ F \in Seq(E) /\ Len(F) # 0
  /\ at \in [1..n -> 1..Len(F)]
  /\ \A i \in 1..n : \A j \in i + 1..n : at[i] < at[j]
  /\ \A i \in 1..n : F[at[i]] = moves[i]
  /\ \A i \in D : at[i] + 1 \in 1..Len(F) /\ F[at[i] + 1] = dwells[i]
  /\ \A k \in 1..Len(F) : \E i \in 1..n : k = at[i] \/ (i \in D /\ k = at[i] + 1)

LEMMA PieceIs ==
  ASSUME NEW E, NEW x \in E, NEW y \in E
  PROVE  /\ Pair(x, y) \in Seq(E) /\ Len(Pair(x, y)) = 2 /\ Pair(x, y)[1] = x /\ Pair(x, y)[2] = y
         /\ Lone(x) \in Seq(E) /\ Len(Lone(x)) = 1 /\ Lone(x)[1] = x
<1>. DEFINE a == <<x>>  b == <<y>>
<1>1. /\ a \in Seq(E) /\ b \in Seq(E) /\ Len(a) = 1 /\ Len(b) = 1 /\ a[1] = x /\ b[1] = y
      /\ 1 \in 1..1 + 1 /\ 2 \in 1..1 + 1
  OBVIOUS
<1>. HIDE DEF a, b
<1>2. a \o b \in Seq(E) /\ Len(a \o b) = 2 /\ (a \o b)[1] = x /\ (a \o b)[2] = y
  BY <1>1, ConcatProperties
<1>3. a \o <<>> = a BY <1>1, ConcatEmptySeq
<1>. QED BY <1>1, <1>2, <1>3 DEF Pair, Lone, a, b

LEMMA PiecesPass ==
  ASSUME NEW E, NEW n \in Nat \ {0}, NEW moves, NEW dwells,
         \A i \in 1..n : moves[i] \in E /\ dwells[i] \in E, NEW D \in SUBSET (1..n),
         NEW s \in Seq(Seq(E)), Len(s) = n,
         \A i \in D : s[i] = Pair(moves[i], dwells[i]),
         \A i \in (1..n) \ D : s[i] = Lone(moves[i])
  PROVE  \E at : JoinsPieces(E, at, n, moves, dwells, D, Parser!FlattenSeq(s))
<1>. DEFINE F == Parser!FlattenSeq(s)
<1>1. ASSUME NEW i \in 1..n
      PROVE  /\ s[i] \in Seq(E) /\ s[i][1] = moves[i] /\ Len(s[i]) \in Nat \ {0}
             /\ i \in D => Len(s[i]) = 2 /\ s[i][2] = dwells[i]
             /\ i \notin D => Len(s[i]) = 1
  <2>. DEFINE x == moves[i]  y == dwells[i]
  <2>1. x \in E /\ y \in E OBVIOUS
  <2>2. (i \in D => s[i] = Pair(x, y)) /\ (i \notin D => s[i] = Lone(x)) OBVIOUS
  <2>. HIDE DEF x, y
  <2>3. /\ Pair(x, y) \in Seq(E) /\ Len(Pair(x, y)) = 2 /\ Pair(x, y)[1] = x
        /\ Pair(x, y)[2] = y /\ Lone(x) \in Seq(E) /\ Len(Lone(x)) = 1 /\ Lone(x)[1] = x
    BY <2>1, PieceIs
  <2>. DEFINE p == s[i]
  <2>4. (i \in D => p = Pair(x, y)) /\ (i \notin D => p = Lone(x)) BY <2>2
  <2>. HIDE DEF p
  <2>5. /\ p \in Seq(E) /\ p[1] = x /\ Len(p) \in Nat \ {0}
        /\ i \in D => Len(p) = 2 /\ p[2] = y
        /\ i \notin D => Len(p) = 1
    <3>. DEFINE a == Pair(x, y)  b == Lone(x)
    <3>1. /\ a \in Seq(E) /\ Len(a) = 2 /\ a[1] = x /\ a[2] = y
          /\ b \in Seq(E) /\ Len(b) = 1 /\ b[1] = x
      BY <2>3
    <3>2. (i \in D => p = a) /\ (i \notin D => p = b) BY <2>4
    <3>. HIDE DEF a, b
    <3>3. p = a \/ p = b BY <3>2
    <3>4. p \in Seq(E) /\ p[1] = x /\ Len(p) \in Nat \ {0} BY <3>1, <3>3
    <3>5. i \in D => Len(p) = 2 /\ p[2] = y BY <3>1, <3>2
    <3>6. i \notin D => Len(p) = 1 BY <3>1, <3>2
    <3>. QED BY <3>4, <3>5, <3>6
  <2>. QED BY <2>5 DEF p, x, y
<1>2. Len(s) = n /\ n # 0 /\ n \in Nat OBVIOUS
<1>3. F \in Seq(E) /\ \E start : Places(start, s, F)
  <2>1. Len(s) # 0 BY <1>2
  <2>. QED BY <1>2, <2>1, FlatIs
<1>4. PICK start : Places(start, s, F) BY <1>3
<1>. HIDE DEF F
<1>5. Len(F) \in Nat /\ Len(s) \in Nat /\ \A j \in 1..Len(s) : Len(s[j]) \in Nat
  BY <1>1, <1>2, <1>3, LenProperties
<1>6. /\ start \in [1..n + 1 -> Nat] /\ start[1] = 0 /\ start[n + 1] = Len(F)
      /\ \A j \in 1..n : start[j + 1] = start[j] + Len(s[j])
      /\ \A j \in 1..n : \A q \in 1..Len(s[j]) : F[start[j] + q] = s[j][q]
  BY <1>2, <1>4 DEF Places
<1>7. \A i \in 1..n + 1 : \A j \in i..n + 1 : start[i] <= start[j]
  BY <1>2, <1>4, <1>5, PlacesGrow
<1>8. ASSUME NEW k \in 1..Len(F) PROVE \E i \in 1..n : \E q \in 1..Len(s[i]) : k = start[i] + q
  <2>1. InPiece(k, start, s, F)
    <3>1. k \in 1..Len(F) OBVIOUS
    <3>. QED BY ONLY <1>4, <1>5, <3>1, PlacedIn
  <2>. QED BY <1>2, <2>1 DEF InPiece
<1>9. \A i \in 1..n : Len(s[i]) \in Nat \ {0} BY <1>1
<1>10. \A j \in 1..n : start[j] + Len(s[j]) <= Len(F)
  <2>. SUFFICES ASSUME NEW j \in 1..n PROVE start[j] + Len(s[j]) <= Len(F) OBVIOUS
  <2>1. j + 1 \in 1..n + 1 /\ n + 1 \in j + 1..n + 1 OBVIOUS
  <2>2. start[j + 1] <= start[n + 1] BY <1>7, <2>1
  <2>. QED BY <1>6, <2>2
<1>11. Len(F) # 0
  <2>1. 1 \in 1..n OBVIOUS
  <2>2. start[1] = 0 /\ Len(s[1]) \in Nat \ {0} BY <1>6, <1>9, <2>1
  <2>3. start[1] + Len(s[1]) <= Len(F) BY <1>10, <2>1
  <2>. QED BY <1>5, <2>2, <2>3
<1>. DEFINE at == [i \in 1..n |-> start[i] + 1]
<1>12. \A i \in 1..n : /\ at[i] = start[i] + 1 /\ start[i] \in Nat /\ at[i] \in 1..Len(F)
                       /\ F[at[i]] = moves[i]
  <2>. SUFFICES ASSUME NEW i \in 1..n
                PROVE /\ at[i] = start[i] + 1 /\ start[i] \in Nat /\ at[i] \in 1..Len(F)
                      /\ F[at[i]] = moves[i]
    OBVIOUS
  <2>1. start[i] \in Nat /\ at[i] = start[i] + 1 BY <1>6
  <2>2. 1 \in 1..Len(s[i]) /\ start[i] + Len(s[i]) <= Len(F) /\ Len(s[i]) \in Nat \ {0}
    BY <1>9, <1>10
  <2>3. F[start[i] + 1] = moves[i] BY <1>1, <1>6, <2>2
  <2>4. start[i] + 1 \in 1..Len(F) BY <1>5, <2>1, <2>2
  <2>. QED BY <2>1, <2>3, <2>4
<1>13. \A i \in D : at[i] + 1 \in 1..Len(F) /\ F[at[i] + 1] = dwells[i]
  <2>. SUFFICES ASSUME NEW i \in D
                PROVE at[i] + 1 \in 1..Len(F) /\ F[at[i] + 1] = dwells[i]
    OBVIOUS
  <2>1. i \in 1..n OBVIOUS
  <2>2. start[i] \in Nat /\ at[i] = start[i] + 1 BY <1>12, <2>1
  <2>3. Len(s[i]) = 2 /\ s[i][2] = dwells[i] /\ start[i] + Len(s[i]) <= Len(F)
    BY <1>1, <1>10, <2>1
  <2>4. F[start[i] + 2] = dwells[i]
    <3>1. 2 \in 1..Len(s[i]) BY <2>3
    <3>. QED BY <1>6, <2>1, <2>3, <3>1
  <2>5. at[i] + 1 = start[i] + 2 /\ start[i] + 2 \in 1..Len(F) BY <1>5, <2>2, <2>3
  <2>. QED BY <2>4, <2>5
<1>. HIDE DEF at
<1>14. \A i \in 1..n : \A j \in i + 1..n : at[i] < at[j]
  <2>. SUFFICES ASSUME NEW i \in 1..n, NEW j \in i + 1..n PROVE at[i] < at[j] OBVIOUS
  <2>1. j \in i + 1..n + 1 /\ i + 1 \in 1..n + 1 /\ j \in 1..n OBVIOUS
  <2>2. start[i + 1] <= start[j] BY <1>7, <2>1
  <2>3. start[i + 1] = start[i] + Len(s[i]) /\ Len(s[i]) \in Nat \ {0} BY <1>6, <1>9
  <2>4. at[i] = start[i] + 1 /\ at[j] = start[j] + 1 /\ start[i] \in Nat /\ start[j] \in Nat
    BY <1>12, <2>1
  <2>. QED BY <2>2, <2>3, <2>4
<1>15. \A k \in 1..Len(F) : \E i \in 1..n : k = at[i] \/ (i \in D /\ k = at[i] + 1)
  <2>. SUFFICES ASSUME NEW k \in 1..Len(F)
                PROVE \E i \in 1..n : k = at[i] \/ (i \in D /\ k = at[i] + 1)
    OBVIOUS
  <2>1. PICK i \in 1..n : \E q \in 1..Len(s[i]) : k = start[i] + q BY <1>8
  <2>2. PICK q \in 1..Len(s[i]) : k = start[i] + q BY <2>1
  <2>3. at[i] = start[i] + 1 /\ start[i] \in Nat BY <1>12
  <2>4. CASE i \in D
    <3>1. Len(s[i]) = 2 BY <1>1, <2>4
    <3>2. q \in 1..2 BY <2>2, <3>1
    <3>. QED BY <2>2, <2>3, <2>4, <3>2
  <2>5. CASE i \notin D
    <3>1. Len(s[i]) = 1 BY <1>1, <2>5
    <3>2. q \in 1..1 BY <2>2, <3>1
    <3>. QED BY <2>2, <2>3, <3>2
  <2>. QED BY <2>4, <2>5
<1>16. at \in [1..n -> 1..Len(F)]
  <2>1. at = [i \in 1..n |-> at[i]] BY DEF at
  <2>. QED BY <1>12, <2>1
<1>17. JoinsPieces(E, at, n, moves, dwells, D, F)
  BY <1>3, <1>11, <1>12, <1>13, <1>14, <1>15, <1>16 DEF JoinsPieces
<1>. QED BY <1>17 DEF F

(* The nodes of a task graph: at[i] is the move to waypoint i, its dwell   *)
(* is behind it, and the Stop comes last.                                  *)
Dwelling(w) == {i \in DOMAIN w : w[i].dwell_time > 0}
PassesAll(w, at, all) ==
  /\ all \in Seq({Parser!NodeId(t, i, w[i]) : t \in {"move", "dwell"}, i \in DOMAIN w}
                   \cup {Parser!Stop})
  /\ Len(all) # 0 /\ all[Len(all)] = Parser!Stop
  /\ at \in [DOMAIN w -> 1..Len(all) - 1]
  /\ \A i \in DOMAIN w : \A j \in i + 1..Len(w) : at[i] < at[j]
  /\ \A i \in DOMAIN w : all[at[i]] = Parser!NodeId("move", i, w[i])
  /\ \A i \in Dwelling(w) :
       at[i] + 1 \in 1..Len(all) - 1 /\ all[at[i] + 1] = Parser!NodeId("dwell", i, w[i])
  /\ \A k \in 1..Len(all) - 1 : \E i \in DOMAIN w :
       k = at[i] \/ (i \in Dwelling(w) /\ k = at[i] + 1)

LEMMA GraphPasses ==
  ASSUME NEW W, NEW w \in Seq(W), Len(w) # 0
  PROVE  /\ \E at : PassesAll(w, at, Parser!task_graph(w).nodes)
         /\ Parser!task_graph(w).edges =
              {[from |-> Parser!task_graph(w).nodes[i], to |-> Parser!task_graph(w).nodes[i + 1]] :
                 i \in 1..Len(Parser!task_graph(w).nodes) - 1}
<1>. DEFINE n == Len(w)
            E == {Parser!NodeId(t, i, w[i]) : t \in {"move", "dwell"}, i \in DOMAIN w}
            Id(t) == [i \in 1..n |-> Parser!NodeId(t, i, w[i])]
            moves == Id("move")
            dwells == Id("dwell")
            D == Dwelling(w)
            s == [i \in DOMAIN w |-> Parser!NodesOf(i, w[i])]
            F == Parser!FlattenSeq(s)
            all == Append(F, Parser!Stop)
<1>1. n \in Nat \ {0} /\ DOMAIN w = 1..n BY LenProperties
<1>2. /\ moves \in [1..n -> E] /\ dwells \in [1..n -> E] /\ D \in SUBSET (1..n)
      /\ \A i \in 1..n : /\ moves[i] = Parser!NodeId("move", i, w[i])
                         /\ dwells[i] = Parser!NodeId("dwell", i, w[i])
  BY <1>1 DEF Dwelling
<1>3. ASSUME NEW i \in 1..n
      PROVE  /\ i \in D => s[i] = Pair(moves[i], dwells[i])
             /\ i \notin D => s[i] = Lone(moves[i])
  <2>1. s[i] = Parser!NodesOf(i, w[i]) BY <1>1
  <2>2. i \in D <=> w[i].dwell_time > 0 BY <1>1 DEF Dwelling
  <2>3. moves[i] = Parser!NodeId("move", i, w[i]) /\ dwells[i] = Parser!NodeId("dwell", i, w[i])
    BY <1>2
  <2>. HIDE DEF s, moves, dwells, D
  <2>4. CASE w[i].dwell_time > 0
    BY <2>1, <2>2, <2>3, <2>4 DEF Parser!NodesOf, Pair
  <2>5. CASE ~(w[i].dwell_time > 0)
    BY <2>1, <2>2, <2>3, <2>5 DEF Parser!NodesOf, Lone
  <2>. QED BY <2>4, <2>5
<1>4. s \in Seq(Seq(E)) /\ Len(s) = n
  <2>1. ASSUME NEW i \in 1..n PROVE s[i] \in Seq(E)
    <3>. DEFINE x == moves[i]  y == dwells[i]
    <3>1. x \in E /\ y \in E BY <1>2
    <3>2. s[i] = Pair(x, y) \/ s[i] = Lone(x) BY <1>3
    <3>. HIDE DEF s, x, y, E
    <3>3. Pair(x, y) \in Seq(E) /\ Lone(x) \in Seq(E) BY <3>1, PieceIs
    <3>. QED BY <3>2, <3>3
  <2>2. s = [i \in 1..n |-> s[i]] BY <1>1
  <2>. HIDE DEF s, E
  <2>3. s \in [1..n -> Seq(E)] BY <2>1, <2>2
  <2>. QED BY <1>1, <2>3
<1>. HIDE DEF E, moves, dwells, D, s, n
<1>5. F \in Seq(E) /\ Len(F) # 0 /\ \E at : JoinsPieces(E, at, n, moves, dwells, D, F)
  <2>1. /\ \A i \in D : s[i] = Pair(moves[i], dwells[i])
        /\ \A i \in (1..n) \ D : s[i] = Lone(moves[i])
    BY <1>2, <1>3
  <2>. HIDE DEF F
  <2>2. /\ n \in Nat \ {0} /\ \A i \in 1..n : moves[i] \in E /\ dwells[i] \in E
        /\ D \in SUBSET (1..n)
    BY <1>1, <1>2
  <2>3. \E at : JoinsPieces(E, at, n, moves, dwells, D, Parser!FlattenSeq(s))
    BY ONLY <1>4, <2>1, <2>2, PiecesPass
  <2>. QED BY <2>3 DEF JoinsPieces, F
<1>6. PICK at : JoinsPieces(E, at, n, moves, dwells, D, F) BY <1>5
<1>. HIDE DEF F
<1>7. /\ Parser!task_graph(w).nodes = all
      /\ Parser!task_graph(w).edges =
           {[from |-> all[i], to |-> all[i + 1]] : i \in 1..Len(all) - 1}
  <2>1. F # <<>> BY <1>5
  <2>. HIDE DEF all
  <2>. QED BY <2>1 DEF Parser!task_graph, s, F, all
<1>8. /\ Len(all) = Len(F) + 1 /\ all[Len(F) + 1] = Parser!Stop
      /\ \A k \in 1..Len(F) : all[k] = F[k]
      /\ all \in Seq(E \cup {Parser!Stop})
  <2>1. F \in Seq(E \cup {Parser!Stop}) BY <1>5, SeqMonotonic
  <2>. QED BY <2>1, AppendProperties
<1>. HIDE DEF all
<1>9. Len(F) \in Nat /\ Len(all) - 1 = Len(F) /\ Len(all) # 0 BY <1>5, <1>8, LenProperties
<1>10. at \in [DOMAIN w -> 1..Len(all) - 1] BY <1>1, <1>6, <1>9 DEF JoinsPieces
<1>11. \A k \in 1..Len(all) - 1 : \E i \in DOMAIN w :
         k = at[i] \/ (i \in Dwelling(w) /\ k = at[i] + 1)
  BY <1>1, <1>6, <1>9 DEF JoinsPieces, D
<1>12. \A i \in DOMAIN w : all[at[i]] = Parser!NodeId("move", i, w[i])
  BY <1>1, <1>2, <1>6, <1>8 DEF JoinsPieces
<1>13. \A i \in Dwelling(w) :
         at[i] + 1 \in 1..Len(all) - 1 /\ all[at[i] + 1] = Parser!NodeId("dwell", i, w[i])
  BY <1>1, <1>2, <1>6, <1>8, <1>9 DEF JoinsPieces, D
<1>14. \A i \in DOMAIN w : \A j \in i + 1..Len(w) : at[i] < at[j]
  BY <1>1, <1>6 DEF JoinsPieces
<1>15. all \in Seq({Parser!NodeId(t, i, w[i]) : t \in {"move", "dwell"}, i \in DOMAIN w}
                     \cup {Parser!Stop})
  BY <1>8 DEF E
<1>16. PassesAll(w, at, all)
  <2>1. all[Len(all)] = Parser!Stop BY <1>8, <1>9
  <2>. QED BY <1>9, <1>10, <1>11, <1>12, <1>13, <1>14, <1>15, <2>1 DEF PassesAll
<1>. QED BY <1>7, <1>16

-----------------------------------------------------------------------------
(* THE ROUTE OF A TEXT.                                                    *)

(* No node of a task graph comes twice.                                    *)
LEMMA NodesDiffer ==
  ASSUME NEW w, NEW at, NEW all, PassesAll(w, at, all),
         NEW j \in 1..Len(all), NEW k \in 1..Len(all), all[j] = all[k]
  PROVE  j = k
<1>. DEFINE N == Len(all)
            Is(m, t, i) == (t = "move" /\ m = at[i]) \/ (t = "dwell" /\ m = at[i] + 1)
<1>1. N \in Nat /\ all[N] = Parser!Stop BY LenProperties DEF PassesAll
<1>2. \A m \in 1..N : m = N \/ m \in 1..N - 1 BY <1>1
<1>3. ASSUME NEW m \in 1..N - 1
      PROVE  \E t \in {"move", "dwell"} : \E i \in DOMAIN w :
               all[m] = Parser!NodeId(t, i, w[i]) /\ Is(m, t, i)
  <2>1. PICK i \in DOMAIN w : m = at[i] \/ (i \in Dwelling(w) /\ m = at[i] + 1) BY DEF PassesAll
  <2>2. CASE m = at[i]
    <3>1. all[m] = Parser!NodeId("move", i, w[i]) BY <2>2 DEF PassesAll
    <3>2. Is(m, "move", i) BY <2>2
    <3>. QED BY <3>1, <3>2
  <2>3. CASE i \in Dwelling(w) /\ m = at[i] + 1
    <3>1. all[m] = Parser!NodeId("dwell", i, w[i]) BY <2>3 DEF PassesAll
    <3>2. Is(m, "dwell", i) BY <2>3
    <3>. QED BY <3>1, <3>2
  <2>. QED BY <2>1, <2>2, <2>3
<1>4. ASSUME NEW t, NEW i, NEW v PROVE Parser!NodeId(t, i, v) # Parser!Stop
  BY DEF Parser!NodeId, Parser!Stop
<1>5. ASSUME NEW t, NEW i, NEW v, NEW u, NEW h, NEW x,
             Parser!NodeId(t, i, v) = Parser!NodeId(u, h, x)
      PROVE  t = u /\ i = h
  <2>1. \A a, b, c : Parser!NodeId(a, b, c)[1] = a /\ Parser!NodeId(a, b, c)[2] = b
    BY DEF Parser!NodeId
  <2>. QED BY <1>5, <2>1
<1>. HIDE DEF N
<1>6. CASE j = N /\ k = N BY <1>6
<1>7. CASE j = N /\ k \in 1..N - 1 BY <1>1, <1>3, <1>4, <1>7
<1>8. CASE j \in 1..N - 1 /\ k = N BY <1>1, <1>3, <1>4, <1>8
<1>9. CASE j \in 1..N - 1 /\ k \in 1..N - 1
  <2>1. PICK t \in {"move", "dwell"}, i \in DOMAIN w :
          all[j] = Parser!NodeId(t, i, w[i]) /\ Is(j, t, i)
    BY <1>3, <1>9
  <2>2. PICK u \in {"move", "dwell"}, h \in DOMAIN w :
          all[k] = Parser!NodeId(u, h, w[h]) /\ Is(k, u, h)
    BY <1>3, <1>9
  <2>3. Parser!NodeId(t, i, w[i]) = Parser!NodeId(u, h, w[h]) BY <2>1, <2>2
  <2>4. t = u /\ i = h
    <3>. HIDE DEF Is
    <3>. QED BY <1>5, <2>3
  <2>. QED BY <2>1, <2>2, <2>4
<1>. QED BY <1>2, <1>6, <1>7, <1>8, <1>9 DEF N

(* Walking a chain of distinct nodes is going through them in order.       *)
LEMMA WalkIs ==
  ASSUME NEW X, NEW all \in Seq(X), Len(all) # 0, NEW g, g.nodes = all,
         g.edges = {[from |-> all[i], to |-> all[i + 1]] : i \in 1..Len(all) - 1},
         \A j, k \in 1..Len(all) : all[j] = all[k] => j = k
  PROVE  Parser!WalkFrom(Len(all), g) = all
<1>. DEFINE N == Len(all)
            Walks(f) == f = [i \in 1..N |-> IF i = 1 THEN all[1] ELSE Parser!Follower(f[i - 1], g)]
<1>1. N \in Nat \ {0} /\ all = [i \in 1..N |-> all[i]] BY LenProperties
<1>. HIDE DEF N
<1>2. ASSUME NEW i \in 2..N PROVE Parser!Follower(all[i - 1], g) = all[i]
  <2>. DEFINE Follows(u) == u \in Parser!ToSet(all) /\ [from |-> all[i - 1], to |-> u] \in g.edges
  <2>1. i \in 1..N /\ i - 1 \in 1..N - 1 /\ i - 1 \in 1..N /\ i = (i - 1) + 1 BY <1>1
  <2>2. Follows(all[i])
    <3>1. [from |-> all[i - 1], to |-> all[(i - 1) + 1]] \in g.edges BY <2>1 DEF N
    <3>2. all[i] \in Parser!ToSet(all) BY <2>1 DEF Parser!ToSet, N
    <3>. QED BY <2>1, <3>1, <3>2
  <2>3. ASSUME NEW u, Follows(u) PROVE u = all[i]
    <3>1. PICK k \in 1..N - 1 :
            [from |-> all[i - 1], to |-> u] = [from |-> all[k], to |-> all[k + 1]]
      BY <2>3 DEF N
    <3>2. all[i - 1] = all[k] /\ u = all[k + 1] BY <3>1
    <3>3. k \in 1..N BY <1>1
    <3>4. k = i - 1 BY <2>1, <3>2, <3>3 DEF N
    <3>. QED BY <2>1, <3>2, <3>4
  <2>4. Parser!Follower(all[i - 1], g) = CHOOSE u \in Parser!ToSet(all) :
          [from |-> all[i - 1], to |-> u] \in g.edges
    BY DEF Parser!Follower
  <2>. QED BY <2>2, <2>3, <2>4
<1>3. Walks(all)
  <2>1. \A i \in 1..N : i # 1 => i \in 2..N BY <1>1
  <2>2. \A i \in 1..N :
          all[i] = IF i = 1 THEN all[1] ELSE Parser!Follower(all[i - 1], g)
    BY <1>2, <2>1
  <2>. QED BY <1>1, <2>2
<1>. DEFINE walk == CHOOSE f : Walks(f)
<1>4. Walks(walk)
  <2>. HIDE DEF Walks
  <2>. QED BY <1>3
<1>5. Parser!WalkFrom(N, g) = walk BY DEF Parser!WalkFrom
<1>. HIDE DEF walk
<1>6. \A i \in 1..N : walk[i] = all[i]
  <2>. DEFINE S == {i \in 1..N : walk[i] # all[i]}
  <2>. SUFFICES ASSUME S # {} PROVE FALSE OBVIOUS
  <2>1. S \in SUBSET Nat BY <1>1
  <2>2. PICK m \in S : \A k \in S : m <= k BY <2>1, LeastOf
  <2>3. walk[m] = IF m = 1 THEN all[1] ELSE Parser!Follower(walk[m - 1], g)
    BY <1>4, <2>2
  <2>4. m # 1 /\ m \in 1..N BY <2>2, <2>3
  <2>5. m \in 2..N /\ m - 1 \in 1..N /\ ~(m <= m - 1) BY <1>1, <2>4
  <2>6. walk[m - 1] = all[m - 1] BY <2>2, <2>5
  <2>. QED BY <1>2, <2>2, <2>3, <2>4, <2>5, <2>6
<1>7. walk = [i \in 1..N |-> walk[i]] BY <1>4
<1>. QED BY <1>1, <1>5, <1>6, <1>7 DEF N

LEMMA SameCount == \A S : Parser!Cardinality(S) = Cardinality(S)
BY DEF Parser!Cardinality, Cardinality

LEMMA DistinctCount ==
  ASSUME NEW X, NEW s \in Seq(X), \A j, k \in 1..Len(s) : s[j] = s[k] => j = k
  PROVE  Cardinality(Parser!ToSet(s)) = Len(s)
<1>1. Len(s) \in Nat /\ DOMAIN s = 1..Len(s) BY LenProperties
<1>2. IsFiniteSet(1..Len(s)) /\ Cardinality(1..Len(s)) = Len(s) BY <1>1, FS_Interval
<1>3. Parser!ToSet(s) = {s[i] : i \in 1..Len(s)} BY <1>1 DEF Parser!ToSet
<1>4. s \in Bijection(1..Len(s), Parser!ToSet(s))
  <2>1. s \in [1..Len(s) -> Parser!ToSet(s)] BY <1>1, <1>3
  <2>. QED BY <1>3, <2>1 DEF Bijection, Injection, Surjection, IsInjective
<1>. QED BY <1>2, <1>4, FS_Bijection DEF ExistsBijection

(* The walk along a task graph passes the waypoints.                       *)
LEMMA WalkPasses ==
  ASSUME NEW W, NEW w \in Seq(W), Len(w) # 0, NEW g, g = Parser!task_graph(w)
  PROVE  /\ Parser!WalkFrom(Len(g.nodes), g) = g.nodes
         /\ Cardinality(Parser!ToSet(g.nodes)) = Len(g.nodes)
         /\ \E at : PassesAll(w, at, g.nodes)
<1>1. PICK at : PassesAll(w, at, g.nodes) BY GraphPasses
<1>. DEFINE all == g.nodes
            E == {Parser!NodeId(t, i, w[i]) : t \in {"move", "dwell"}, i \in DOMAIN w}
                   \cup {Parser!Stop}
<1>2. all \in Seq(E) /\ Len(all) # 0 BY <1>1 DEF PassesAll
<1>3. g.edges = {[from |-> all[i], to |-> all[i + 1]] : i \in 1..Len(all) - 1}
  <2>. DEFINE h == Parser!task_graph(w)
  <2>1. h.edges = {[from |-> h.nodes[i], to |-> h.nodes[i + 1]] : i \in 1..Len(h.nodes) - 1}
    BY GraphPasses
  <2>2. h = g OBVIOUS
  <2>. HIDE DEF h
  <2>. QED BY <2>1, <2>2
<1>4. \A j, k \in 1..Len(all) : all[j] = all[k] => j = k BY <1>1, NodesDiffer
<1>. HIDE DEF E
<1>5. Parser!WalkFrom(Len(g.nodes), g) = g.nodes BY <1>2, <1>3, <1>4, WalkIs
<1>6. Cardinality(Parser!ToSet(g.nodes)) = Len(g.nodes) BY <1>2, <1>4, DistinctCount
<1>. QED BY <1>1, <1>5, <1>6

LEMMA RoutePassed ==
  ASSUME NEW W, draft.waypoints \in Seq(W), graph = Parser!task_graph(draft.waypoints)
  PROVE  Parser!GraphIsTheRoute
<1>. SUFFICES ASSUME parser_pc = "done", Parser!accepted(draft) PROVE Parser!GraphIsTheRoute
  BY DEF Parser!GraphIsTheRoute
<1>. DEFINE w == draft.waypoints
            N == Len(graph.nodes)
            walk == Parser!WalkFrom(N, graph)
            dwelling == {i \in DOMAIN w : w[i].dwell_time > 0}
<1>1. Len(w) # 0 /\ Len(w) \in Nat /\ DOMAIN w = 1..Len(w) /\ w \in Seq(W)
  <2>1. w # <<>> BY DEF Parser!accepted
  <2>. QED BY <2>1, LenProperties, EmptySeq
<1>2. /\ walk = graph.nodes /\ Cardinality(Parser!ToSet(graph.nodes)) = N
      /\ \E at : PassesAll(w, at, walk)
  BY <1>1, WalkPasses
<1>3. PICK at : PassesAll(w, at, walk) BY <1>2
<1>. HIDE DEF walk, w
<1>4. N \in Nat /\ N # 0 /\ DOMAIN walk = 1..N /\ walk[N] = Parser!Stop /\ N = Len(walk)
  BY <1>2, <1>3, LenProperties DEF PassesAll
<1>5. dwelling = Dwelling(w) BY DEF Dwelling
<1>. HIDE DEF N, dwelling
<1>6. at \in [DOMAIN w -> DOMAIN walk]
  <2>1. at \in [DOMAIN w -> 1..N - 1] BY <1>3, <1>4 DEF PassesAll
  <2>2. 1..N - 1 \subseteq DOMAIN walk BY <1>4
  <2>. QED BY <2>1, <2>2
<1>7. /\ \A i \in DOMAIN w : \A j \in i + 1..Len(w) : at[i] < at[j]
      /\ \A i \in DOMAIN w : walk[at[i]] = Parser!NodeId("move", i, w[i])
      /\ \A i \in dwelling : /\ walk[at[i] + 1] = Parser!NodeId("dwell", i, w[i])
                             /\ at[i] + 1 \in DOMAIN walk
  <2>1. 1..N - 1 \subseteq DOMAIN walk BY <1>4
  <2>. QED BY <1>3, <1>4, <1>5, <2>1 DEF PassesAll
<1>8. \A k \in DOMAIN walk :
        k = N \/ \E i \in DOMAIN w : k = at[i] \/ (i \in dwelling /\ k = at[i] + 1)
  <2>1. \A k \in DOMAIN walk : k = N \/ k \in 1..N - 1 BY <1>4
  <2>. QED BY <1>3, <1>4, <1>5, <2>1 DEF PassesAll
<1>9. Parser!Stop[1] = "stop_terminal" BY DEF Parser!Stop
<1>10. \A t, i, v : Parser!NodeId(t, i, v)[1] = t BY DEF Parser!NodeId
<1>11. dwelling \subseteq DOMAIN w BY DEF dwelling
<1>12. Parser!Nodes(walk, "move") = {at[i] : i \in DOMAIN w}
  BY <1>4, <1>6, <1>7, <1>8, <1>9, <1>10 DEF Parser!Nodes
<1>13. Parser!Nodes(walk, "dwell") = {at[i] + 1 : i \in dwelling}
  BY <1>4, <1>7, <1>8, <1>9, <1>10, <1>11 DEF Parser!Nodes
<1>14. \E a \in [DOMAIN w -> DOMAIN walk] :
         /\ \A i \in DOMAIN w : \A j \in i + 1..Len(w) : a[i] < a[j]
         /\ \A i \in DOMAIN w : walk[a[i]] = Parser!NodeId("move", i, w[i])
         /\ \A i \in dwelling : walk[a[i] + 1] = Parser!NodeId("dwell", i, w[i])
         /\ Parser!Nodes(walk, "move") = {a[i] : i \in DOMAIN w}
         /\ Parser!Nodes(walk, "dwell") = {a[i] + 1 : i \in dwelling}
  <2>. WITNESS at \in [DOMAIN w -> DOMAIN walk]
  <2>. QED BY <1>7, <1>12, <1>13
<1>15. Parser!ToSet(walk) = Parser!ToSet(graph.nodes) BY <1>2
<1>16. Parser!Cardinality(Parser!ToSet(graph.nodes)) = N BY <1>2, SameCount
<1>. QED BY <1>2, <1>4, <1>14, <1>15, <1>16, ZenonT(40)
  DEF Parser!GraphIsTheRoute, walk, N, w, dwelling

(* Mentions within a text of n words, of waypoints whose ids are ordered.  *)
Within(mentions, n) ==
  \A m \in mentions : /\ m.start \in 1..n /\ m.end \in m.start..n
                      /\ Parser!Rank(m.waypoint) \in Nat

(* The first of them is one that no other is before.                       *)
LEMMA FirstMentionIs ==
  ASSUME NEW C, NEW n \in Nat, Within(C, n), C # {}
  PROVE  Parser!First(C) \in C /\ \A k \in C : Parser!First(C).start <= k.start
<1>1. \A m \in C : m.start \in Nat /\ m.end \in Nat /\ m.end <= n /\ Parser!Rank(m.waypoint) \in Nat
  BY DEF Within
<1>2. PICK s \in {m.start : m \in C} : \A x \in {m.start : m \in C} : s <= x
  <2>1. {m.start : m \in C} \in SUBSET Nat BY <1>1
  <2>. QED BY <2>1, LeastOf
<1>. DEFINE D == {m \in C : m.start = s}
<1>3. PICK e \in {n - m.end : m \in D} : \A x \in {n - m.end : m \in D} : e <= x
  <2>1. \A m \in D : n - m.end \in Nat BY <1>1
  <2>2. {n - m.end : m \in D} \in SUBSET Nat BY <2>1
  <2>3. D # {} BY <1>2
  <2>. HIDE DEF D
  <2>4. {n - m.end : m \in D} # {} BY <2>3
  <2>. QED BY <2>2, <2>4, LeastOf
<1>. DEFINE F == {m \in D : n - m.end = e}
<1>4. PICK r \in {Parser!Rank(m.waypoint) : m \in F} :
        \A x \in {Parser!Rank(m.waypoint) : m \in F} : r <= x
  <2>1. {Parser!Rank(m.waypoint) : m \in F} \in SUBSET Nat BY <1>1
  <2>2. F # {} BY <1>3
  <2>. HIDE DEF F
  <2>3. {Parser!Rank(m.waypoint) : m \in F} # {} BY <2>2
  <2>. QED BY <2>1, <2>3, LeastOf
<1>5. PICK f \in F : r = Parser!Rank(f.waypoint) BY <1>4
<1>6. f \in C /\ f.start = s /\ n - f.end = e BY <1>5
<1>7. ASSUME NEW k \in C PROVE ~Parser!Before(k, f)
  <2>. DEFINE a == k.start  b == k.end  c == Parser!Rank(k.waypoint)
              x == f.start  y == f.end  z == Parser!Rank(f.waypoint)
  <2>1. a \in Nat /\ b \in Nat /\ c \in Nat /\ x \in Nat /\ y \in Nat /\ z \in Nat
    BY <1>1, <1>6
  <2>2. x <= a BY <1>2, <1>6
  <2>3. a = x => n - y <= n - b
    <3>1. a = x => k \in D BY <1>6
    <3>. HIDE DEF D
    <3>2. k \in D => n - b \in {n - m.end : m \in D} BY DEF b
    <3>. QED BY <1>3, <1>6, <3>1, <3>2
  <2>4. a = x /\ b = y => z <= c
    <3>1. a = x /\ b = y => k \in F BY <1>6
    <3>. HIDE DEF F
    <3>2. k \in F => c \in {Parser!Rank(m.waypoint) : m \in F} BY DEF c
    <3>. QED BY <1>4, <1>5, <3>1, <3>2
  <2>5. Parser!Before(k, f) <=> (a < x \/ (a = x /\ b > y) \/ (a = x /\ b = y /\ c < z))
    BY DEF Parser!Before
  <2>. HIDE DEF a, b, c, x, y, z
  <2>. QED BY <2>1, <2>2, <2>3, <2>4, <2>5
<1>. DEFINE g == Parser!First(C)
<1>8. g \in C /\ \A k \in C : ~Parser!Before(k, g) BY <1>6, <1>7 DEF Parser!First
<1>. HIDE DEF g
<1>9. ASSUME NEW k \in C PROVE g.start <= k.start
  <2>1. g.start \in Nat /\ k.start \in Nat BY <1>1, <1>8
  <2>2. ~(k.start < g.start) BY <1>8 DEF Parser!Before
  <2>. QED BY <2>1, <2>2
<1>. QED BY <1>8, <1>9 DEF g

(* The mentions that are left behind the first i that are taken.           *)
RestsTo(f, all, n) == f = [i \in 0..n |-> IF i = 0 THEN all ELSE Parser!Behind(f[i - 1])]

LEMMA RestsExist == ASSUME NEW all, NEW n \in Nat PROVE \E f : RestsTo(f, all, n)
<1>. DEFINE S == {k \in Nat : ~\E f : RestsTo(f, all, k)}
<1>. SUFFICES ASSUME S # {} PROVE FALSE OBVIOUS
<1>1. PICK m \in S : \A k \in S : m <= k BY LeastOf
<1>2. m # 0
  <2>1. RestsTo([i \in 0..0 |-> all], all, 0) BY DEF RestsTo
  <2>. QED BY <2>1
<1>3. m \in Nat /\ m - 1 \in Nat /\ m - 1 \notin S BY <1>1, <1>2
<1>4. PICK f : RestsTo(f, all, m - 1) BY <1>3
<1>. DEFINE g == [k \in 0..m |-> IF k = m THEN Parser!Behind(f[k - 1]) ELSE f[k]]
<1>5. ASSUME NEW k \in 0..m PROVE g[k] = IF k = 0 THEN all ELSE Parser!Behind(g[k - 1])
  <2>0. k # 0 => k - 1 \in 0..m /\ k - 1 # m BY <1>3
  <2>1. k # 0 => g[k - 1] = f[k - 1] BY <2>0
  <2>2. CASE k = m BY <1>2, <2>1, <2>2
  <2>3. CASE k # m
    <3>1. k \in 0..m - 1 BY <1>3, <2>3
    <3>2. f[k] = IF k = 0 THEN all ELSE Parser!Behind(f[k - 1]) BY <1>4, <3>1 DEF RestsTo
    <3>. QED BY <2>1, <2>3, <3>2
  <2>. QED BY <2>2, <2>3
<1>6. RestsTo(g, all, m)
  <2>1. g = [k \in 0..m |-> g[k]] OBVIOUS
  <2>. HIDE DEF g
  <2>. QED BY <1>5, <2>1 DEF RestsTo
<1>. QED BY <1>1, <1>6

LEMMA RestsAre ==
  ASSUME NEW all, NEW n \in Nat, Within(all, n), NEW rest, rest = Parser!Rests(all, n)
  PROVE  /\ rest[0] = all /\ rest[n] = {}
         /\ \A i \in 0..n : rest[i] \subseteq all
         /\ \A i \in 1..n : rest[i] = Parser!Behind(rest[i - 1])
<1>. DEFINE f == CHOOSE f : f = [i \in 0..n |-> IF i = 0 THEN all ELSE Parser!Behind(f[i - 1])]
<1>1. RestsTo(f, all, n)
  <2>1. \E g : RestsTo(g, all, n) BY RestsExist
  <2>. QED BY <2>1 DEF RestsTo
<1>2. rest = f BY DEF Parser!Rests
<1>. HIDE DEF f
<1>3. rest[0] = all /\ \A i \in 1..n : rest[i] = Parser!Behind(rest[i - 1])
  <2>1. \A i \in 0..n : rest[i] = IF i = 0 THEN all ELSE Parser!Behind(rest[i - 1])
    BY <1>1, <1>2 DEF RestsTo
  <2>2. 0 \in 0..n /\ \A i \in 1..n : i \in 0..n /\ i # 0 OBVIOUS
  <2>. QED BY <2>1, <2>2
<1>. DEFINE Good(i) == rest[i] \subseteq all /\ \A m \in rest[i] : m.start > i
<1>4. Good(0)
  <2>1. \A m \in all : m.start > 0 BY DEF Within
  <2>. QED BY <1>3, <2>1
<1>5. ASSUME NEW i \in 1..n, Good(i - 1) PROVE Good(i)
  <2>. DEFINE R == rest[i - 1]  g == Parser!First(R)
  <2>1. rest[i] = {m \in R : ~Parser!Overlap(m, g)} BY <1>3 DEF Parser!Behind
  <2>2. R \subseteq all BY <1>5
  <2>3. ASSUME NEW m \in rest[i] PROVE m.start > i
    <3>1. m \in R /\ ~Parser!Overlap(m, g) BY <2>1, <2>3
    <3>2. Within(R, n) BY <2>2 DEF Within
    <3>3. g \in R /\ g.start <= m.start
      <4>. HIDE DEF R
      <4>. QED BY <3>1, <3>2, FirstMentionIs
    <3>4. g.start > i - 1 BY <1>5, <3>3
    <3>5. /\ g.start \in 1..n /\ g.end \in g.start..n /\ m.start \in 1..n /\ m.end \in m.start..n
      BY <3>1, <3>2, <3>3 DEF Within
    <3>6. ~(m.start <= g.end /\ g.start <= m.end) BY <3>1 DEF Parser!Overlap
    <3>. DEFINE a == g.start  b == g.end  c == m.start  d == m.end
    <3>7. /\ a \in Nat /\ b \in Nat /\ c \in Nat /\ d \in Nat /\ i \in Nat
          /\ a > i - 1 /\ a <= c /\ a <= b /\ c <= d /\ ~(c <= b /\ a <= d)
      BY <3>3, <3>4, <3>5, <3>6
    <3>. HIDE DEF a, b, c, d
    <3>8. c > i BY <3>7
    <3>. QED BY <3>8 DEF c
  <2>4. rest[i] \subseteq all BY <2>1, <2>2
  <2>. QED BY <2>3, <2>4
<1>. HIDE DEF Good
<1>6. \A i \in 0..n : Good(i)
  <2>. DEFINE S == {i \in 0..n : ~Good(i)}
  <2>. SUFFICES ASSUME S # {} PROVE FALSE OBVIOUS
  <2>1. S \in SUBSET Nat OBVIOUS
  <2>2. PICK m \in S : \A k \in S : m <= k BY <2>1, LeastOf
  <2>3. m \in 1..n /\ m - 1 \in 0..n /\ ~(m <= m - 1)
    <3>1. m # 0 BY <1>4, <2>2
    <3>. QED BY <2>2, <3>1
  <2>4. Good(m - 1) BY <2>2, <2>3
  <2>. QED BY <1>5, <2>2, <2>3, <2>4
<1>7. rest[n] = {}
  <2>1. Good(n) BY <1>6
  <2>2. \A m \in rest[n] : m.start \in 1..n /\ m.start > n BY <2>1 DEF Good, Within
  <2>. QED BY <2>2
<1>8. \A i \in 0..n : rest[i] \subseteq all BY <1>6 DEF Good
<1>. QED BY <1>3, <1>7, <1>8

(* What is taken is in the order of the text, and overlaps what is not.    *)
Taken(mentions, all) ==
  /\ mentions \in Seq(all)
  /\ \A i \in 1..Len(mentions) : \A j \in i + 1..Len(mentions) :
       mentions[i].end < mentions[j].start
  /\ \A c \in all : \E i \in 1..Len(mentions) : Parser!Overlap(c, mentions[i])

LEMMA MentionsAre ==
  ASSUME NEW text, Len(text) \in Nat, NEW W, Within(Parser!Candidates(text, W), Len(text))
  PROVE  Taken(Parser!Mentions(text, W), Parser!Candidates(text, W))
<1>. DEFINE n == Len(text)
            all == Parser!Candidates(text, W)
            rest == Parser!Rests(all, n)
            E == {i \in 0..n : rest[i] = {}}
            K == Parser!Min(E)
            s == Parser!Mentions(text, W)
<1>1. n \in Nat /\ Within(all, n) OBVIOUS
<1>. HIDE DEF n, all
<1>2. /\ rest[0] = all /\ rest[n] = {} /\ \A i \in 0..n : rest[i] \subseteq all
      /\ \A i \in 1..n : rest[i] = Parser!Behind(rest[i - 1])
  BY <1>1, RestsAre
<1>3. s = [i \in 1..K |-> Parser!First(rest[i - 1])] BY DEF Parser!Mentions, n, all
<1>. HIDE DEF rest, s
<1>4. K \in E /\ \A i \in E : K <= i
  <2>1. n \in E BY <1>1, <1>2
  <2>2. E \in SUBSET Nat BY <1>1
  <2>. HIDE DEF E
  <2>3. \E k \in E : \A i \in E : k <= i BY <2>1, <2>2, LeastOf
  <2>. QED BY <2>3 DEF Parser!Min
<1>. HIDE DEF K
<1>5. K \in 0..n /\ rest[K] = {} /\ \A i \in 0..K - 1 : rest[i] # {}
  <2>1. K \in 0..n /\ rest[K] = {} BY <1>4
  <2>2. ASSUME NEW i \in 0..K - 1 PROVE rest[i] # {}
    <3>1. i \in 0..n /\ ~(K <= i) BY <1>1, <2>1
    <3>. QED BY <1>4, <3>1
  <2>. QED BY <2>1, <2>2
<1>. HIDE DEF E
<1>6. \A i \in 1..K : s[i] \in rest[i - 1] /\ \A c \in rest[i - 1] : s[i].start <= c.start
  <2>. SUFFICES ASSUME NEW i \in 1..K
                PROVE s[i] \in rest[i - 1] /\ \A c \in rest[i - 1] : s[i].start <= c.start
    OBVIOUS
  <2>1. i - 1 \in 0..K - 1 /\ i - 1 \in 0..n BY <1>1, <1>5
  <2>. DEFINE R == rest[i - 1]
  <2>2. R # {} /\ R \subseteq all BY <1>2, <1>5, <2>1
  <2>3. s[i] = Parser!First(R) BY <1>3
  <2>. HIDE DEF R
  <2>4. Within(R, n) BY <1>1, <2>2 DEF Within
  <2>5. Parser!First(R) \in R /\ \A k \in R : Parser!First(R).start <= k.start
    BY <1>1, <2>2, <2>4, FirstMentionIs
  <2>. QED BY <2>3, <2>5 DEF R
<1>7. \A i \in 1..K : rest[i] = {c \in rest[i - 1] : ~Parser!Overlap(c, s[i])}
  <2>1. \A i \in 1..K : i \in 1..n BY <1>1, <1>5
  <2>. QED BY <1>2, <1>3, <2>1 DEF Parser!Behind
<1>8. s \in Seq(all) /\ Len(s) = K
  <2>1. \A i \in 1..K : i - 1 \in 0..n BY <1>1, <1>5
  <2>2. \A i \in 1..K : s[i] \in all BY <1>2, <1>6, <2>1
  <2>3. s \in [1..K -> all] BY <1>3, <2>2
  <2>4. K \in Nat BY <1>5
  <2>. QED BY <2>3, <2>4
<1>9. ASSUME NEW i \in 1..K, NEW j \in i..K PROVE rest[j] \subseteq rest[i]
  <2>. DEFINE S == {k \in i..K : ~(rest[k] \subseteq rest[i])}
  <2>1. S = {}
    <3>. SUFFICES ASSUME S # {} PROVE FALSE OBVIOUS
    <3>1. S \in SUBSET Nat BY <1>5
    <3>2. PICK m \in S : \A k \in S : m <= k BY <3>1, LeastOf
    <3>3. m # i BY <3>2
    <3>4. m \in 1..K /\ m - 1 \in i..K /\ ~(m <= m - 1) BY <1>5, <3>2, <3>3
    <3>5. rest[m - 1] \subseteq rest[i] BY <3>2, <3>4
    <3>6. rest[m] \subseteq rest[m - 1] BY <1>7, <3>4
    <3>. QED BY <3>2, <3>5, <3>6
  <2>. QED BY <2>1
<1>10. ASSUME NEW i \in 1..K, NEW j \in i + 1..K PROVE s[i].end < s[j].start
  <2>1. j - 1 \in i..K /\ j \in 1..K BY <1>5
  <2>2. s[j] \in rest[i]
    <3>1. s[j] \in rest[j - 1] BY <1>6, <2>1
    <3>. QED BY <1>9, <2>1, <3>1
  <2>3. s[j] \in rest[i - 1] /\ ~Parser!Overlap(s[j], s[i]) BY <1>7, <2>2
  <2>4. s[i].start <= s[j].start BY <1>6, <2>3
  <2>5. s[i] \in all /\ s[j] \in all BY <1>8, <2>1
  <2>. DEFINE a == s[i].start  b == s[i].end  c == s[j].start  d == s[j].end
  <2>6. a \in Nat /\ b \in Nat /\ c \in Nat /\ d \in Nat /\ a <= b /\ c <= d
    BY <1>1, <2>5 DEF Within
  <2>7. a <= c /\ ~(c <= b /\ a <= d) BY <2>3, <2>4 DEF Parser!Overlap
  <2>. HIDE DEF a, b, c, d
  <2>8. b < c BY <2>6, <2>7
  <2>. QED BY <2>8 DEF b, c
<1>11. ASSUME NEW c \in all PROVE \E i \in 1..K : Parser!Overlap(c, s[i])
  <2>. DEFINE S == {i \in 0..K : c \notin rest[i]}
  <2>1. K \in S /\ S \in SUBSET Nat BY <1>5
  <2>2. PICK m \in S : \A k \in S : m <= k BY <2>1, LeastOf
  <2>3. m # 0 BY <1>2, <2>2
  <2>4. m \in 1..K /\ m - 1 \in 0..K /\ ~(m <= m - 1) BY <1>5, <2>2, <2>3
  <2>5. c \in rest[m - 1] /\ c \notin rest[m] BY <2>2, <2>4
  <2>. QED BY <1>7, <2>4, <2>5
<1>. QED BY <1>8, <1>10, <1>11 DEF Taken, s, all

(* The waypoints of a catalog have an id that is ordered, and their        *)
(* aliases are made of words.                                              *)
Word ==
  STRING \cup {"A", "B", "xunjian", "dian", "space", "pingtai", "qi", "jidi", "huidao", "fanhui",
               "huijia", "daiming", "qu", "dao", "qianwang"}
Phrase == Seq(Word) \ {<<>>}
OrderedIds == Parser!ToSet(WaypointOrder)
CatalogWaypoint == [waypoint_id : OrderedIds, dwell : Nat, aliases : SUBSET Phrase]
IsCatalog(c) ==
  /\ c = [waypoints |-> c.waypoints, avoid_zones |-> c.avoid_zones]
  /\ c.waypoints \subseteq CatalogWaypoint

LEMMA PhrasesJoin ==
  \A u, v \in Seq(Word) : u \in Phrase \/ v \in Phrase => u \o v \in Phrase
<1>. SUFFICES ASSUME NEW u \in Seq(Word), NEW v \in Seq(Word), u # <<>> \/ v # <<>>
              PROVE  u \o v \in Seq(Word) /\ u \o v # <<>>
  BY DEF Phrase
<1>1. u \o v \in Seq(Word) /\ Len(u \o v) = Len(u) + Len(v) BY ConcatProperties
<1>2. Len(u) # 0 \/ Len(v) # 0 BY EmptySeq
<1>3. Len(u) \in Nat /\ Len(v) \in Nat BY LenProperties
<1>4. Len(u \o v) # 0 BY <1>1, <1>2, <1>3
<1>. QED BY <1>1, <1>4

LEMMA ShortSeqs ==
  ASSUME NEW E, NEW x \in E, NEW y \in E
  PROVE  <<x>> \in Seq(E) \ {<<>>} /\ <<x, y>> \in Seq(E) \ {<<>>}
<1>1. <<x>> \in Seq(E) /\ Len(<<x>>) # 0 /\ <<x, y>> \in Seq(E) /\ Len(<<x, y>>) # 0 OBVIOUS
<1>. QED BY <1>1, EmptySeq

LEMMA WordsJoin ==
  /\ \A x \in Word : <<x>> \in Phrase
  /\ \A x, y \in Word : <<x, y>> \in Phrase
BY ShortSeqs DEF Phrase

LEMMA DefaultsFit ==
  ASSUME TextsFit PROVE Parser!DefaultWaypoints \subseteq CatalogWaypoint
<1>1. Parser!PointA \in OrderedIds /\ Parser!PointB \in OrderedIds /\ Parser!Platform \in OrderedIds
  BY DEF OrderedIds, TextsFit
<1>2. /\ Parser!PointA \in Phrase /\ Parser!PointB \in Phrase
      /\ <<"xunjian", "dian">> \in Phrase /\ <<"xunjian">> \in Phrase /\ <<"dian">> \in Phrase
      /\ <<"xunjian", "space">> \in Phrase
  BY WordsJoin DEF Word, Parser!PointA, Parser!PointB
<1>3. /\ <<"pingtai">> \in Phrase /\ <<"qi", "dian">> \in Phrase /\ <<"jidi">> \in Phrase
      /\ <<"huidao", "pingtai">> \in Phrase /\ <<"fanhui", "pingtai">> \in Phrase
      /\ <<"huijia">> \in Phrase /\ <<"daiming", "qu">> \in Phrase
  BY WordsJoin DEF Word
<1>4. Phrase \subseteq Seq(Word) BY DEF Phrase
<1>. HIDE DEF Phrase
<1>5. ASSUME NEW id \in Phrase
      PROVE  {id, <<"xunjian", "dian">> \o id, <<"xunjian">> \o id, <<"dian">> \o id,
              <<"xunjian", "space">> \o id, id \o <<"dian">>} \in SUBSET Phrase
  BY <1>2, <1>4, PhrasesJoin
<1>6. {<<"pingtai">>, <<"qi", "dian">>, <<"jidi">>, <<"huidao", "pingtai">>,
       <<"fanhui", "pingtai">>, <<"huijia">>, <<"daiming", "qu">>} \in SUBSET Phrase
  BY <1>3
<1>7. ASSUME NEW id \in {Parser!PointA, Parser!PointB}
      PROVE  [waypoint_id |-> id, dwell |-> 0,
              aliases |-> {id, <<"xunjian", "dian">> \o id, <<"xunjian">> \o id, <<"dian">> \o id,
                           <<"xunjian", "space">> \o id, id \o <<"dian">>}] \in CatalogWaypoint
  <2>1. id \in Phrase /\ id \in OrderedIds BY <1>1, <1>2
  <2>. QED BY <1>5, <2>1 DEF CatalogWaypoint
<1>8. [waypoint_id |-> Parser!Platform, dwell |-> 3,
       aliases |-> {<<"pingtai">>, <<"qi", "dian">>, <<"jidi">>, <<"huidao", "pingtai">>,
                    <<"fanhui", "pingtai">>, <<"huijia">>, <<"daiming", "qu">>}] \in CatalogWaypoint
  BY <1>1, <1>6 DEF CatalogWaypoint
<1>. QED BY <1>7, <1>8 DEF Parser!DefaultWaypoints

LEMMA WithoutFits ==
  ASSUME NEW p \in Phrase, NEW id \in Phrase PROVE Parser!Without(p, id) \subseteq Phrase
<1>. SUFFICES ASSUME Parser!IsStrictPrefix(p, id)
              PROVE  SubSeq(id, Len(p) + 1, Len(id)) \in Phrase
  BY DEF Parser!Without
<1>1. /\ p \in Seq(Word) /\ id \in Seq(Word) /\ p # id /\ Len(p) <= Len(id)
      /\ SubSeq(p, 1, Len(p)) = SubSeq(id, 1, Len(p)) /\ Len(p) \in Nat /\ Len(id) \in Nat
  BY LenProperties DEF Phrase, Parser!IsStrictPrefix, Parser!IsPrefix
<1>2. Len(p) # Len(id)
  <2>1. SubSeq(p, 1, Len(p)) = p /\ SubSeq(id, 1, Len(id)) = id BY <1>1, SubSeqFull
  <2>. QED BY <1>1, <2>1
<1>3. Len(p) + 1 \in 1..Len(id) + 1 /\ Len(p) + 1 <= Len(id) BY <1>1, <1>2
<1>4. SubSeq(id, Len(p) + 1, Len(id)) \in Seq(Word)
      /\ Len(SubSeq(id, Len(p) + 1, Len(id))) = Len(id) - (Len(p) + 1) + 1
  BY <1>1, <1>3, SubSeqProperties
<1>5. Len(SubSeq(id, Len(p) + 1, Len(id))) # 0 BY <1>1, <1>3, <1>4
<1>. DEFINE t == SubSeq(id, Len(p) + 1, Len(id))
<1>6. t \in Seq(Word) /\ Len(t) # 0 BY <1>4, <1>5
<1>. HIDE DEF t
<1>7. t \in Phrase BY <1>6, EmptySeq DEF Phrase
<1>. QED BY <1>7 DEF t

LEMMA AliasesFit ==
  ASSUME TextsFit, NEW id \in Phrase PROVE Parser!CheckpointAliases(id) \subseteq Phrase
<1>1. <<"xunjian", "dian">> \in Phrase /\ <<"xunjian">> \in Phrase /\ <<"dian">> \in Phrase
      /\ <<"dao">> \in Phrase /\ <<"qianwang">> \in Phrase
  BY WordsJoin DEF Word
<1>2. Phrase \subseteq Seq(Word) BY DEF Phrase
<1>3. \A u, v \in Phrase : u \o v \in Phrase BY <1>2, PhrasesJoin
<1>4. Parser!Without(<<"xunjian", "dian">>, id) \subseteq Phrase
      /\ Parser!Without(<<"dian">>, id) \subseteq Phrase
  BY <1>1, WithoutFits
<1>5. Parser!GenericAliases(id) \subseteq Phrase
  <2>. DEFINE visit == <<"xunjian", "dian">>
              by == Parser!Without(<<"dian">>, id)
              bare == {id} \cup Parser!Without(visit, id) \cup by
              A == {visit \o v : v \in {id} \cup by}
              B == {<<"dao">> \o id, <<"qianwang">> \o id}
              C == UNION {{v, <<"xunjian">> \o v, <<"dian">> \o v, v \o <<"dian">>} : v \in bare}
  <2>1. bare \subseteq Phrase /\ {id} \cup by \subseteq Phrase BY <1>1, <1>4
  <2>2. Parser!GenericAliases(id) = A \cup B \cup C BY DEF Parser!GenericAliases
  <2>. HIDE DEF Phrase, by, bare
  <2>3. A \subseteq Phrase BY <1>1, <1>3, <2>1
  <2>4. B \subseteq Phrase BY <1>1, <1>3
  <2>5. C \subseteq Phrase BY <1>1, <1>3, <2>1
  <2>. HIDE DEF A, B, C
  <2>. QED BY <2>2, <2>3, <2>4, <2>5
<1>6. \A w \in Parser!DefaultWaypoints : w.aliases \subseteq Phrase
  BY DefaultsFit DEF CatalogWaypoint
<1>. QED BY <1>5, <1>6 DEF Parser!CheckpointAliases

LEMMA CheckpointFits ==
  ASSUME TextsFit, NEW W \in SUBSET CatalogWaypoint, NEW id \in Phrase,
         Parser!checkpoint_waypoint_id(id) \in OrderedIds
  PROVE  Parser!WithCheckpoint(W, id) \subseteq CatalogWaypoint
<1>. DEFINE new == [waypoint_id |-> Parser!checkpoint_waypoint_id(id), dwell |-> 0,
                    aliases |-> Parser!CheckpointAliases(id)]
            same == {w \in W : w.waypoint_id = Parser!checkpoint_waypoint_id(id)}
<1>1. new \in CatalogWaypoint BY AliasesFit DEF CatalogWaypoint
<1>2. same \subseteq CatalogWaypoint OBVIOUS
<1>3. Parser!WithCheckpoint(W, id) = Parser!Widened(W, same, new) BY DEF Parser!WithCheckpoint
<1>. HIDE DEF new, same
<1>4. ASSUME NEW e \in CatalogWaypoint
      PROVE  [e EXCEPT !.aliases = @ \cup new.aliases] \in CatalogWaypoint
  BY <1>1 DEF CatalogWaypoint
<1>. QED BY <1>1, <1>2, <1>3, <1>4 DEF Parser!Widened

CatalogsTo(f, row, n) ==
  f = [i \in 0..n |->
         IF i = 0 THEN [waypoints |-> Parser!DefaultWaypoints,
                        avoid_zones |-> Parser!DefaultAvoidZones]
         ELSE Parser!WithAsset(f[i - 1], row[i])]

LEMMA CatalogsExist == ASSUME NEW row, NEW n \in Nat PROVE \E f : CatalogsTo(f, row, n)
<1>. DEFINE S == {k \in Nat : ~\E f : CatalogsTo(f, row, k)}
            first == [waypoints |-> Parser!DefaultWaypoints,
                      avoid_zones |-> Parser!DefaultAvoidZones]
<1>. SUFFICES ASSUME S # {} PROVE FALSE OBVIOUS
<1>1. PICK m \in S : \A k \in S : m <= k BY LeastOf
<1>2. m # 0
  <2>1. CatalogsTo([i \in 0..0 |-> first], row, 0) BY DEF CatalogsTo
  <2>. QED BY <2>1
<1>3. m \in Nat /\ m - 1 \in Nat /\ m - 1 \notin S BY <1>1, <1>2
<1>4. PICK f : CatalogsTo(f, row, m - 1) BY <1>3
<1>. DEFINE g == [k \in 0..m |-> IF k = m THEN Parser!WithAsset(f[k - 1], row[k]) ELSE f[k]]
<1>. HIDE DEF first
<1>5. ASSUME NEW k \in 0..m
      PROVE  g[k] = IF k = 0 THEN first ELSE Parser!WithAsset(g[k - 1], row[k])
  <2>1. k # 0 => k - 1 \in 0..m /\ k - 1 # m BY <1>3
  <2>2. k # 0 => g[k - 1] = f[k - 1] BY <2>1
  <2>3. CASE k = m BY <1>2, <2>2, <2>3
  <2>4. CASE k # m
    <3>1. k \in 0..m - 1 BY <1>3, <2>4
    <3>2. f[k] = IF k = 0 THEN first ELSE Parser!WithAsset(f[k - 1], row[k])
      BY <1>4, <3>1 DEF CatalogsTo, first
    <3>. QED BY <2>2, <2>4, <3>2
  <2>. QED BY <2>3, <2>4
<1>6. CatalogsTo(g, row, m)
  <2>1. g = [k \in 0..m |-> g[k]] OBVIOUS
  <2>. HIDE DEF g
  <2>. QED BY <1>5, <2>1 DEF CatalogsTo, first
<1>. QED BY <1>1, <1>6

LEMMA CatalogFits ==
  ASSUME TextsFit, NEW row \in SceneAssets PROVE IsCatalog(Parser!build_parse_catalog(row))
<1>. DEFINE n == Len(row)
            first == [waypoints |-> Parser!DefaultWaypoints,
                      avoid_zones |-> Parser!DefaultAvoidZones]
            f == CHOOSE f : f = [i \in 0..n |-> IF i = 0 THEN first
                                                ELSE Parser!WithAsset(f[i - 1], row[i])]
<1>1. /\ n \in Nat
      /\ \A i \in 1..n : /\ row[i].asset_id \in Phrase
                         /\ row[i].asset_type = "checkpoint" =>
                              Parser!checkpoint_waypoint_id(row[i].asset_id) \in OrderedIds
  <2>1. row \in Seq([asset_type : STRING, asset_id : Seq(STRING) \ {<<>>}]) BY DEF TextsFit
  <2>2. /\ n \in Nat
        /\ \A i \in 1..n : row[i] \in [asset_type : STRING, asset_id : Seq(STRING) \ {<<>>}]
    BY <2>1, LenProperties, ElementOfSeq
  <2>3. \A u \in Seq(STRING) : u \in Seq(Word)
    <3>1. STRING \subseteq Word BY DEF Word
    <3>. QED BY <3>1, SeqMonotonic
  <2>4. \A i \in 1..n : row[i].asset_id \in Phrase BY <2>2, <2>3 DEF Phrase
  <2>. QED BY <2>2, <2>4 DEF OrderedIds, TextsFit
<1>. HIDE DEF n
<1>2. CatalogsTo(f, row, n)
  <2>1. \E g : CatalogsTo(g, row, n) BY <1>1, CatalogsExist
  <2>. QED BY <2>1 DEF CatalogsTo
<1>3. Parser!build_parse_catalog(row) = f[n]
  BY DEF Parser!build_parse_catalog, Parser!Catalogs, n
<1>. HIDE DEF f
<1>4. \A i \in 0..n : f[i] = IF i = 0 THEN first ELSE Parser!WithAsset(f[i - 1], row[i])
  BY <1>2 DEF CatalogsTo
<1>5. IsCatalog(f[0])
  <2>1. f[0] = first BY <1>1, <1>4
  <2>. QED BY <2>1, DefaultsFit DEF IsCatalog
<1>. HIDE DEF first
<1>6. ASSUME NEW i \in 1..n, IsCatalog(f[i - 1]) PROVE IsCatalog(f[i])
  <2>. DEFINE c == f[i - 1]  a == row[i]
  <2>1. i # 0 /\ i \in 0..n BY <1>1
  <2>2. f[i] = Parser!WithAsset(c, a) BY <1>4, <2>1
  <2>3. IsCatalog(c) BY <1>6
  <2>4. a.asset_id \in Phrase
        /\ (a.asset_type = "checkpoint" => Parser!checkpoint_waypoint_id(a.asset_id) \in OrderedIds)
    BY <1>1
  <2>. HIDE DEF c, a
  <2>5. CASE a.asset_type = "checkpoint"
    <3>. DEFINE d == [c EXCEPT !.waypoints = Parser!WithCheckpoint(@, a.asset_id)]
    <3>1. Parser!WithAsset(c, a) = d BY <2>5 DEF Parser!WithAsset
    <3>2. Parser!WithCheckpoint(c.waypoints, a.asset_id) \subseteq CatalogWaypoint
      BY <2>3, <2>4, <2>5, CheckpointFits DEF IsCatalog
    <3>3. d = [waypoints |-> Parser!WithCheckpoint(c.waypoints, a.asset_id),
               avoid_zones |-> c.avoid_zones]
      BY <2>3 DEF IsCatalog
    <3>. HIDE DEF d
    <3>. QED BY <2>2, <3>1, <3>2, <3>3 DEF IsCatalog
  <2>6. CASE a.asset_type = "no_go_zone"
    <3>. DEFINE d == [c EXCEPT !.avoid_zones = Parser!WithZone(@, a.asset_id)]
    <3>1. Parser!WithAsset(c, a) = d BY <2>6 DEF Parser!WithAsset
    <3>3. d = [waypoints |-> c.waypoints,
               avoid_zones |-> Parser!WithZone(c.avoid_zones, a.asset_id)]
      BY <2>3 DEF IsCatalog
    <3>. HIDE DEF d
    <3>. QED BY <2>2, <2>3, <3>1, <3>3 DEF IsCatalog
  <2>7. CASE a.asset_type \notin {"checkpoint", "no_go_zone"}
    <3>1. Parser!WithAsset(c, a) = c BY <2>7 DEF Parser!WithAsset
    <3>. QED BY <2>2, <2>3, <3>1
  <2>. QED BY <2>5, <2>6, <2>7
<1>7. \A i \in 0..n : IsCatalog(f[i])
  <2>. DEFINE S == {i \in 0..n : ~IsCatalog(f[i])}
  <2>. SUFFICES ASSUME S # {} PROVE FALSE OBVIOUS
  <2>1. S \in SUBSET Nat OBVIOUS
  <2>2. PICK m \in S : \A k \in S : m <= k BY <2>1, LeastOf
  <2>3. m # 0 BY <1>5, <2>2
  <2>4. m \in 1..n /\ m - 1 \in 0..n /\ ~(m <= m - 1) BY <1>1, <2>2, <2>3
  <2>5. IsCatalog(f[m - 1]) BY <2>2, <2>4
  <2>. QED BY <1>6, <2>2, <2>4, <2>5
<1>. QED BY <1>1, <1>3, <1>7

(* So its mentions in a text are within the text.                          *)
LEMMA CandidatesFit ==
  ASSUME TextsFit, NEW text \in Seq(STRING), NEW W \in SUBSET CatalogWaypoint
  PROVE  Within(Parser!Candidates(text, W), Len(text))
<1>. SUFFICES ASSUME NEW w \in W, NEW a \in w.aliases, NEW i \in Parser!Found(a, text)
              PROVE  /\ i \in 1..Len(text) /\ i + Len(a) - 1 \in i..Len(text)
                     /\ Parser!Rank(w) \in Nat
  <2>1. \A m \in Parser!Candidates(text, W) : \E w \in W : \E a \in w.aliases :
          \E i \in Parser!Found(a, text) :
            m = [start |-> i, end |-> i + Len(a) - 1, waypoint |-> w]
    BY DEF Parser!Candidates
  <2>. QED BY <2>1 DEF Within
<1>1. w \in CatalogWaypoint /\ a \in Phrase /\ w.waypoint_id \in OrderedIds
  BY DEF CatalogWaypoint
<1>2. Len(a) \in Nat /\ Len(a) # 0 /\ Len(text) \in Nat
  BY <1>1, LenProperties, EmptySeq DEF Phrase
<1>3. i \in 1..Len(text) - Len(a) + 1 BY DEF Parser!Found, Parser!Starts
<1>4. Parser!Rank(w) \in DOMAIN WaypointOrder
  <2>1. \E k \in DOMAIN WaypointOrder : WaypointOrder[k] = w.waypoint_id
    BY <1>1 DEF OrderedIds, Parser!ToSet
  <2>. QED BY <2>1 DEF Parser!Rank
<1>5. DOMAIN WaypointOrder = 1..Len(WaypointOrder) BY LenProperties DEF TextsFit
<1>. QED BY <1>2, <1>3, <1>4, <1>5

(* What the waypoints of a text have to do with its mentions.              *)
LEMMA DraftsKeep ==
  ASSUME NEW text, NEW mentions, NEW X, mentions \in Seq(X)
  PROVE  LET w == Parser!ParsedWaypoints(text, mentions) IN
         /\ \E W : w \in Seq(W)
         /\ Len(w) = Len(mentions)
         /\ [i \in DOMAIN w |-> w[i].waypoint_id]
              = [i \in DOMAIN mentions |-> mentions[i].waypoint.waypoint_id]
<1>. DEFINE w == Parser!ParsedWaypoints(text, mentions)
            D == DOMAIN mentions
<1>1. Len(mentions) \in Nat /\ D = 1..Len(mentions) BY LenProperties
<1>2. /\ w = [i \in D |-> w[i]]
      /\ \A i \in D : w[i].waypoint_id = mentions[i].waypoint.waypoint_id
  BY DEF Parser!ParsedWaypoints
<1>. HIDE DEF w, D
<1>3. w \in [1..Len(mentions) -> {w[i] : i \in D}] BY <1>1, <1>2
<1>4. w \in Seq({w[i] : i \in D}) /\ Len(w) = Len(mentions) BY <1>1, <1>3
<1>5. DOMAIN w = D BY <1>2
<1>6. [i \in DOMAIN w |-> w[i].waypoint_id] = [i \in D |-> mentions[i].waypoint.waypoint_id]
  BY <1>2, <1>5
<1>. QED BY <1>4, <1>6 DEF w, D

LEMMA LesserOf ==
  ASSUME NEW a \in Int, NEW b \in Int
  PROVE  Parser!Min({a, b}) = IF a <= b THEN a ELSE b
<1>1. \E x \in {a, b} : \A y \in {a, b} : x <= y OBVIOUS
<1>. DEFINE m == Parser!Min({a, b})
<1>2. m \in {a, b} /\ \A y \in {a, b} : m <= y BY <1>1 DEF Parser!Min
<1>. HIDE DEF m
<1>. QED BY <1>2 DEF m

LEMMA RatedAbove ==
  ASSUME NEW text, NEW zones, NEW W, NEW w \in Seq(W)
  PROVE  w # <<>> <=> Parser!Confidence(text, w, zones) >= 72
<1>1. CASE w = <<>>
  <2>1. Parser!Confidence(text, w, zones) = 20 BY <1>1 DEF Parser!Confidence
  <2>. QED BY <1>1, <2>1
<1>2. CASE w # <<>>
  <2>. DEFINE four(b) == IF b THEN 4 ELSE 0
              x == four(\E i \in DOMAIN text : text[i] \in Parser!DwellCues)
              y == four(zones # {})
              z == four(Parser!ContainsAny(text, Parser!ReturnHomeCues \cup Parser!ReplanCues
                                                   \cup Parser!StopCues))
              l == Parser!Min({Len(w), 3})
              r == 64 + 8 * l + x + y + z
  <2>1. Parser!Confidence(text, w, zones) = Parser!Min({98, r}) BY <1>2 DEF Parser!Confidence
  <2>2. x \in {0, 4} /\ y \in {0, 4} /\ z \in {0, 4} OBVIOUS
  <2>3. l \in 1..3
    <3>. DEFINE n == Len(w)
    <3>1. n \in Nat /\ n # 0 BY <1>2, LenProperties, EmptySeq
    <3>. HIDE DEF n
    <3>2. Parser!Min({n, 3}) = IF n <= 3 THEN n ELSE 3 BY <3>1, LesserOf
    <3>3. l = IF n <= 3 THEN n ELSE 3 BY <3>2 DEF n
    <3>. HIDE DEF l
    <3>. QED BY <3>1, <3>3
  <2>. HIDE DEF x, y, z, l
  <2>4. r \in Int /\ r >= 72 BY <2>2, <2>3
  <2>. HIDE DEF r
  <2>5. Parser!Min({98, r}) = IF 98 <= r THEN 98 ELSE r BY <2>4, LesserOf
  <2>. QED BY <1>2, <2>1, <2>4, <2>5
<1>. QED BY <1>1, <1>2

(* The parser's state, step by step.                                       *)
DraftOf(text, row) ==
  IF Parser!Empty(text) \/ Parser!direct_action_rejection(text) THEN Parser!Rejected
  ELSE Parser!Parsed(text, Parser!build_parse_catalog(row))
ParserKeeps ==
  /\ source_text \in Text /\ assets \in SceneAssets
  /\ parser_pc \in {"parse", "preview", "done"}
  /\ parser_pc # "parse" => draft = DraftOf(source_text, assets)
  /\ parser_pc = "done" => graph = Parser!task_graph(draft.waypoints)

LEMMA MentionsFit ==
  ASSUME TextsFit, ParserKeeps
  PROVE  Taken(Parser!Mentions(source_text, Parser!Waypoints),
               Parser!Candidates(source_text, Parser!Waypoints))
<1>1. source_text \in Seq(STRING) /\ Len(source_text) \in Nat
  BY LenProperties DEF ParserKeeps, TextsFit
<1>2. Parser!Waypoints \in SUBSET CatalogWaypoint
  BY CatalogFits DEF ParserKeeps, Parser!Waypoints, IsCatalog
<1>3. Within(Parser!Candidates(source_text, Parser!Waypoints), Len(source_text))
  BY <1>1, <1>2, CandidatesFit
<1>. QED BY <1>1, <1>3, MentionsAre

LEMMA DraftWaypoints ==
  ASSUME TextsFit, ParserKeeps, parser_pc # "parse" PROVE \E W : draft.waypoints \in Seq(W)
<1>. DEFINE mentions == Parser!Mentions(source_text, Parser!Waypoints)
<1>1. CASE Parser!Empty(source_text) \/ Parser!direct_action_rejection(source_text)
  <2>1. draft.waypoints = <<>> BY <1>1 DEF ParserKeeps, DraftOf, Parser!Rejected
  <2>2. <<>> \in Seq({}) OBVIOUS
  <2>. QED BY <2>1, <2>2
<1>2. CASE ~(Parser!Empty(source_text) \/ Parser!direct_action_rejection(source_text))
  <2>1. draft.waypoints = Parser!ParsedWaypoints(source_text, mentions)
    BY <1>2 DEF ParserKeeps, DraftOf, Parser!Parsed, Parser!Waypoints
  <2>2. mentions \in Seq(Parser!Candidates(source_text, Parser!Waypoints))
    BY MentionsFit DEF Taken
  <2>. HIDE DEF mentions
  <2>. QED BY <2>1, <2>2, DraftsKeep
<1>. QED BY <1>1, <1>2

LEMMA MentionsKept == ASSUME TextsFit, ParserKeeps PROVE Parser!KeepsEveryMention
<1>. SUFFICES ASSUME parser_pc # "parse" PROVE Parser!KeepsEveryMention
  BY DEF Parser!KeepsEveryMention
<1>. DEFINE mentions == Parser!Mentions(source_text, Parser!Waypoints)
            all == Parser!Candidates(source_text, Parser!Waypoints)
            guarded == Parser!ContainsAny(SelectSeq(source_text, LAMBDA w : w \notin Parser!Blank),
                                          Parser!DirectActionGuards)
<1>1. guarded <=> Parser!direct_action_rejection(source_text)
  BY DEF Parser!direct_action_rejection, Parser!Compact
<1>2. Taken(mentions, all) BY MentionsFit
<1>3. draft = DraftOf(source_text, assets) BY DEF ParserKeeps
<1>4. CASE Parser!Empty(source_text) \/ Parser!direct_action_rejection(source_text)
  <2>1. draft.waypoints = <<>> /\ draft.confidence = 0
    BY <1>3, <1>4 DEF DraftOf, Parser!Rejected
  <2>2. ~Parser!accepted(draft) /\ ~(draft.confidence >= 72) BY <2>1 DEF Parser!accepted
  <2>. HIDE DEF mentions, all, guarded
  <2>. QED BY <1>1, <1>4, <2>2 DEF Parser!KeepsEveryMention, mentions, all, guarded
<1>5. CASE ~(Parser!Empty(source_text) \/ Parser!direct_action_rejection(source_text))
  <2>. DEFINE w == Parser!ParsedWaypoints(source_text, mentions)
              zones == Parser!AvoidZoneIds(source_text,
                                           Parser!build_parse_catalog(assets).avoid_zones)
  <2>1. /\ draft.waypoints = w /\ draft.rejected = FALSE
        /\ draft.confidence = Parser!Confidence(source_text, w, zones)
    BY <1>3, <1>5 DEF DraftOf, Parser!Parsed, Parser!Waypoints
  <2>2. mentions \in Seq(all) BY <1>2 DEF Taken
  <2>. HIDE DEF mentions, all
  <2>3. [i \in DOMAIN w |-> w[i].waypoint_id]
          = [i \in DOMAIN mentions |-> mentions[i].waypoint.waypoint_id]
    BY <2>2, DraftsKeep
  <2>4. \E W : w \in Seq(W) BY <2>2, DraftsKeep
  <2>. HIDE DEF w, zones
  <2>5. Parser!accepted(draft) <=> draft.confidence >= 72
    <3>1. w # <<>> <=> Parser!Confidence(source_text, w, zones) >= 72 BY <2>4, RatedAbove
    <3>. QED BY <2>1, <3>1 DEF Parser!accepted
  <2>6. /\ \A i \in DOMAIN mentions : \A j \in i + 1..Len(mentions) :
             mentions[i].end < mentions[j].start
        /\ \A c \in all : \E m \in Parser!ToSet(mentions) : Parser!Overlap(c, m)
    <3>1. DOMAIN mentions = 1..Len(mentions) BY <2>2, LenProperties
    <3>. QED BY <1>2, <3>1 DEF Taken, Parser!ToSet
  <2>7. [i \in DOMAIN draft.waypoints |-> draft.waypoints[i].waypoint_id]
          = [i \in DOMAIN mentions |-> mentions[i].waypoint.waypoint_id]
    BY <2>1, <2>3
  <2>. HIDE DEF guarded
  <2>. QED BY <1>1, <1>5, <2>5, <2>6, <2>7
       DEF Parser!KeepsEveryMention, mentions, all, guarded
<1>. QED BY <1>4, <1>5

(* Numerals of more than one digit, one of them the ten at i.              *)
LEMMA TenAt ==
  ASSUME NEW s, NEW i \in Int, {k \in DOMAIN s : s[k] = 10} = {i}
  PROVE  /\ {k \in DOMAIN s : s[k] = 10} # {}
         /\ Parser!Min({k \in DOMAIN s : s[k] = 10}) = i
<1>1. \E z \in {i} : \A y \in {i} : z <= y OBVIOUS
<1>2. Parser!Min({i}) \in {i} BY <1>1 DEF Parser!Min
<1>. QED BY <1>2

LEMMA NumeralsRead == Parser!NumeralsAreRead
<1>. SUFFICES ASSUME NEW n \in 1..99
              PROVE  Parser!parse_chinese_number(Parser!Tens(n) \o Parser!Ones(n)) = n
  BY DEF Parser!NumeralsAreRead
<1>. DEFINE a == n \div 10  b == n % 10  p == Parser!Tens(n)  q == Parser!Ones(n)  s == p \o q
            Right == Parser!parse_chinese_number(s) = n
<1>1. a \in 0..9 /\ b \in 0..9 /\ n = 10 * a + b /\ (a = 0 => b # 0) OBVIOUS
<1>2. /\ a = 0 => p = <<>>
      /\ a = 1 => p = <<10>>
      /\ a > 1 => p = <<a, 10>>
      /\ b = 0 => q = <<>>
      /\ b # 0 => q = <<b>>
  BY DEF Parser!Tens, Parser!Ones
<1>. HIDE DEF a, b, p, q
<1>0. \A x \in Int : \A y \in Int :
        /\ <<>> \in Seq(Int) /\ Len(<<>>) = 0
        /\ <<x>> \in Seq(Int) /\ Len(<<x>>) = 1 /\ <<x>>[1] = x
        /\ <<x, y>> \in Seq(Int) /\ Len(<<x, y>>) = 2 /\ <<x, y>>[1] = x /\ <<x, y>>[2] = y
  OBVIOUS
<1>3. /\ p \in Seq(Int)
      /\ a = 0 => Len(p) = 0
      /\ a = 1 => Len(p) = 1 /\ p[1] = 10
      /\ a > 1 => Len(p) = 2 /\ p[1] = a /\ p[2] = 10
  <2>1. a \in Int /\ 10 \in Int /\ (a = 0 \/ a = 1 \/ a > 1) BY <1>1
  <2>2. a > 1 => a # 0 /\ a # 1 BY <1>1
  <2>3. CASE a = 0 BY <1>0, <1>2, <2>1, <2>2, <2>3
  <2>4. CASE a = 1
    <3>1. p = <<10>> BY <1>2, <2>4
    <3>2. <<10>> \in Seq(Int) /\ Len(<<10>>) = 1 /\ <<10>>[1] = 10 BY <1>0, <2>1
    <3>. QED BY <2>4, <3>1, <3>2
  <2>5. CASE a > 1
    <3>1. p = <<a, 10>> BY <1>2, <2>5
    <3>2. <<a, 10>> \in Seq(Int) /\ Len(<<a, 10>>) = 2 BY <1>0, <2>1
    <3>. QED BY <2>2, <2>5, <3>1, <3>2
  <2>. QED BY <2>1, <2>3, <2>4, <2>5
<1>4. /\ q \in Seq(Int)
      /\ b = 0 => Len(q) = 0
      /\ b # 0 => Len(q) = 1 /\ q[1] = b
  <2>1. b \in Int BY <1>1
  <2>. QED BY <1>0, <1>2, <2>1
<1>. DEFINE l == Len(p)  m == Len(q)
<1>5. /\ s \in Seq(Int) /\ Len(s) = l + m /\ l \in Nat /\ m \in Nat
      /\ \A k \in 1..l + m : s[k] = IF k <= l THEN p[k] ELSE q[k - l]
  BY <1>3, <1>4, ConcatProperties, LenProperties
<1>6. DOMAIN s = 1..l + m BY <1>5, LenProperties
<1>. HIDE DEF s
<1>. SUFFICES Right BY DEF s, p, q
<1>7. CASE a = 0
  <2>1. l = 0 /\ m = 1 BY <1>1, <1>3, <1>4, <1>7
  <2>. HIDE DEF l, m
  <2>2. 1 \in 1..l + m /\ ~(1 <= l) /\ 1 - l = 1 BY <2>1
  <2>3. Len(s) = 1 /\ s[1] = b BY <1>1, <1>4, <1>5, <1>7, <2>1, <2>2
  <2>4. b = n BY <1>1, <1>7
  <2>. QED BY <2>3, <2>4 DEF Parser!parse_chinese_number
<1>8. CASE a = 1 /\ b = 0
  <2>1. l = 1 /\ m = 0 BY <1>3, <1>4, <1>8
  <2>. HIDE DEF l, m
  <2>2. 1 \in 1..l + m /\ 1 <= l BY <2>1
  <2>3. Len(s) = 1 /\ s[1] = 10 BY <1>3, <1>5, <1>8, <2>1, <2>2
  <2>4. n = 10 BY <1>1, <1>8
  <2>. QED BY <2>3, <2>4 DEF Parser!parse_chinese_number
<1>9. CASE a = 1 /\ b # 0
  <2>1. l = 1 /\ m = 1 BY <1>3, <1>4, <1>9
  <2>. HIDE DEF l, m
  <2>2. 1 \in 1..l + m /\ 1 <= l /\ 2 \in 1..l + m /\ ~(2 <= l) /\ 2 - l = 1 BY <2>1
  <2>3. Len(s) = 2 /\ s[1] = 10 /\ s[2] = b BY <1>3, <1>4, <1>5, <1>9, <2>1, <2>2
  <2>4. {k \in DOMAIN s : s[k] = 10} = {1} BY <1>1, <1>6, <2>1, <2>3
  <2>5. Parser!parse_chinese_number(s) = IF 1 * 10 + b > 0 THEN 1 * 10 + b ELSE 10
    <3>1. /\ {k \in DOMAIN s : s[k] = 10} # {}
          /\ Parser!Min({k \in DOMAIN s : s[k] = 10}) = 1
      BY <2>4, TenAt
    <3>. QED BY <2>3, <3>1 DEF Parser!parse_chinese_number
  <2>. QED BY <1>1, <1>9, <2>5
<1>10. CASE a > 1 /\ b = 0
  <2>1. l = 2 /\ m = 0 BY <1>1, <1>3, <1>4, <1>10
  <2>. HIDE DEF l, m
  <2>2. 1 \in 1..l + m /\ 1 <= l /\ 2 \in 1..l + m /\ 2 <= l BY <2>1
  <2>3. Len(s) = 2 /\ s[1] = a /\ s[2] = 10 BY <1>3, <1>5, <1>10, <2>1, <2>2
  <2>4. {k \in DOMAIN s : s[k] = 10} = {2} BY <1>1, <1>6, <2>1, <2>3
  <2>5. Parser!parse_chinese_number(s) = IF a * 10 + 0 > 0 THEN a * 10 + 0 ELSE 10
    <3>1. /\ {k \in DOMAIN s : s[k] = 10} # {}
          /\ Parser!Min({k \in DOMAIN s : s[k] = 10}) = 2
      BY <2>4, TenAt
    <3>. QED BY <2>3, <3>1 DEF Parser!parse_chinese_number
  <2>. QED BY <1>1, <1>10, <2>5
<1>11. CASE a > 1 /\ b # 0
  <2>1. l = 2 /\ m = 1 BY <1>1, <1>3, <1>4, <1>11
  <2>. HIDE DEF l, m
  <2>2. /\ 1 \in 1..l + m /\ 1 <= l /\ 2 \in 1..l + m /\ 2 <= l
        /\ 3 \in 1..l + m /\ ~(3 <= l) /\ 3 - l = 1
    BY <2>1
  <2>3. Len(s) = 3 /\ s[1] = a /\ s[2] = 10 /\ s[3] = b
    BY <1>3, <1>4, <1>5, <1>11, <2>1, <2>2
  <2>4. {k \in DOMAIN s : s[k] = 10} = {2} BY <1>1, <1>6, <2>1, <2>3
  <2>5. Parser!parse_chinese_number(s) = IF a * 10 + b > 0 THEN a * 10 + b ELSE 10
    <3>1. /\ {k \in DOMAIN s : s[k] = 10} # {}
          /\ Parser!Min({k \in DOMAIN s : s[k] = 10}) = 2
      BY <2>4, TenAt
    <3>. QED BY <2>3, <3>1 DEF Parser!parse_chinese_number
  <2>. QED BY <1>1, <1>11, <2>5
<1>. QED BY <1>1, <1>7, <1>8, <1>9, <1>10, <1>11

LEMMA RoutesKeep == ASSUME TextsFit, ParserKeeps PROVE Parser!TextBecomesRoute
<1>1. Parser!GraphIsTheRoute
  <2>1. CASE parser_pc = "done"
    <3>1. \E W : draft.waypoints \in Seq(W) BY <2>1, DraftWaypoints
    <3>2. graph = Parser!task_graph(draft.waypoints) BY <2>1 DEF ParserKeeps
    <3>. QED BY <3>1, <3>2, RoutePassed
  <2>. QED BY <2>1 DEF Parser!GraphIsTheRoute
<1>. QED BY <1>1, MentionsKept, NumeralsRead DEF Parser!TextBecomesRoute

(* So it is from the start, and every step of the parser keeps it.         *)
LEMMA ParserStarts == Parser!Init => ParserKeeps BY DEF Parser!Init, ParserKeeps

LEMMA ParserStep == ParserKeeps /\ [Parser!Next]_(Parser!vars) => ParserKeeps'
<1>. SUFFICES ASSUME ParserKeeps, [Parser!Next]_(Parser!vars) PROVE ParserKeeps' OBVIOUS
<1>1. CASE Parser!parse
  <2>1. /\ source_text' = source_text /\ assets' = assets /\ parser_pc' = "preview"
        /\ draft' = DraftOf(source_text, assets)
    BY <1>1 DEF Parser!parse, DraftOf
  <2>2. draft' = DraftOf(source_text', assets') BY <2>1
  <2>. QED BY <2>1, <2>2 DEF ParserKeeps
<1>2. CASE Parser!preview
  <2>1. /\ source_text' = source_text /\ assets' = assets /\ parser_pc' = "done"
        /\ draft' = draft /\ graph' = Parser!task_graph(draft.waypoints)
        /\ parser_pc # "parse"
    BY <1>2 DEF Parser!preview
  <2>2. draft' = DraftOf(source_text', assets') BY <2>1 DEF ParserKeeps
  <2>. QED BY <2>1, <2>2 DEF ParserKeeps
<1>3. CASE UNCHANGED Parser!vars
  <2>1. /\ source_text' = source_text /\ assets' = assets /\ parser_pc' = parser_pc
        /\ draft' = draft /\ graph' = graph
    BY <1>3 DEF Parser!vars
  <2>2. parser_pc # "parse" => draft' = DraftOf(source_text', assets') BY <2>1 DEF ParserKeeps
  <2>. QED BY <2>1, <2>2 DEF ParserKeeps
<1>. QED BY <1>1, <1>2, <1>3 DEF Parser!Next

LEMMA TextsKeep == ASSUME TextsFit PROVE Parser!Spec => []Parser!TextBecomesRoute
<1>1. ParserKeeps => Parser!TextBecomesRoute BY RoutesKeep
<1>. QED BY <1>1, ParserStarts, ParserStep, PTL DEF Parser!Spec

-----------------------------------------------------------------------------
(* THE GRAPHS OF THE C++ PLANNER.                                          *)

(* The policy of a node is the placeholder or one that may be executed.    *)
Fits(c, w) ==
  Orchestrator!Executable(c) /\ c.task_tag = "move" /\ Orchestrator!TerrainMatches(c, w)
LEMMA SelectedIs ==
  ASSUME NEW C, NEW cs \in Seq(C), NEW w
  PROVE  \/ Orchestrator!Selected(w, cs) = Orchestrator!Placeholder
         \/ \E c \in Orchestrator!ToSet(cs) :
              c.id = Orchestrator!Selected(w, cs) /\ Orchestrator!Executable(c)
<1>. DEFINE S == {i \in DOMAIN cs : Fits(cs[i], w)}
<1>1. Orchestrator!Selected(w, cs) =
        IF S = {} THEN Orchestrator!Placeholder ELSE cs[Orchestrator!Min(S)].id
  BY DEF Orchestrator!Selected, Fits
<1>2. CASE S = {} BY <1>1, <1>2
<1>3. CASE S # {}
  <2>1. S \in SUBSET Nat
    <3>1. DOMAIN cs \subseteq Nat BY LenProperties
    <3>. QED BY <3>1
  <2>2. \E m \in S : \A n \in S : m <= n BY <1>3, <2>1, LeastOf
  <2>. DEFINE m == Orchestrator!Min(S)
  <2>3. m \in S BY <2>2 DEF Orchestrator!Min
  <2>4. Orchestrator!Selected(w, cs) = cs[m].id BY <1>1, <1>3
  <2>. HIDE DEF m
  <2>5. m \in DOMAIN cs /\ Orchestrator!Executable(cs[m]) BY <2>3 DEF Fits
  <2>6. cs[m] \in Orchestrator!ToSet(cs) BY <2>5 DEF Orchestrator!ToSet
  <2>. QED BY <2>4, <2>5, <2>6
<1>. QED BY <1>2, <1>3

(* What a graph of the C++ planner owes its submission.                    *)
MoveNodes(g) == {k \in DOMAIN g : g[k].type = "MoveTo"}
PassesStops(w, g) ==
  \E at \in [DOMAIN w -> MoveNodes(g)] :
    /\ MoveNodes(g) = {at[i] : i \in DOMAIN w}
    /\ \A i \in DOMAIN w : /\ g[at[i]].target = w[i].id
                          /\ \A j \in i + 1..Len(w) : at[i] < at[j]
RunsExecutable(cs, g) ==
  \A i \in DOMAIN g : g[i].policy \in {"none", Orchestrator!Placeholder}
    \/ \E c \in Orchestrator!ToSet(cs) : /\ c.id = g[i].policy
                                        /\ c.stage \in {"Released", "Baseline"} /\ ~c.risk_flag

LEMMA NodeIs ==
  ASSUME NEW type, NEW target, NEW chosen
  PROVE  /\ Orchestrator!GraphNode(type, target, chosen).type = type
         /\ Orchestrator!GraphNode(type, target, chosen).target = target
         /\ Orchestrator!GraphNode(type, target, chosen).policy = chosen
BY DEF Orchestrator!GraphNode

LEMMA PlannedPasses ==
  ASSUME SubmissionsFit, NEW q \in Submission
  PROVE  /\ PassesStops(q.script.waypoints, Orchestrator!Planned(q))
         /\ RunsExecutable(q.candidates, Orchestrator!Planned(q))
<1>. DEFINE w == q.script.waypoints
            cs == q.candidates
            n == Len(w)
            moves == [i \in 1..n |->
                        Orchestrator!GraphNode("MoveTo", w[i].id, Orchestrator!Selected(w[i], cs))]
            dwells == [i \in 1..n |->
                         Orchestrator!GraphNode("Dwell", w[i].id, Orchestrator!Selected(w[i], cs))]
            E == {moves[i] : i \in 1..n} \cup {dwells[i] : i \in 1..n}
            D == {i \in 1..n : w[i].dwells}
            s == [i \in DOMAIN w |-> Orchestrator!NodesOf(w[i], cs)]
            end == Orchestrator!GraphNode("Stop", "none", "none")
            F == Orchestrator!FlattenSeq(s)
            g == F \o <<end>>
<1>1. Orchestrator!Planned(q) = g BY DEF Orchestrator!Planned
<1>2. n \in Nat /\ DOMAIN w = 1..n BY LenProperties DEF SubmissionsFit
<1>3. \A i \in 1..n :
        /\ moves[i].type = "MoveTo" /\ moves[i].target = w[i].id
        /\ moves[i].policy = Orchestrator!Selected(w[i], cs)
        /\ dwells[i].type = "Dwell" /\ dwells[i].policy = Orchestrator!Selected(w[i], cs)
  BY NodeIs
<1>4. end.type = "Stop" /\ end.policy = "none" BY NodeIs
<1>5. \A i \in 1..n : moves[i] \in E /\ dwells[i] \in E OBVIOUS
<1>6. ASSUME NEW i \in 1..n
      PROVE  /\ i \in D => s[i] = Pair(moves[i], dwells[i])
             /\ i \notin D => s[i] = Lone(moves[i])
  <2>1. s[i] = Orchestrator!NodesOf(w[i], cs) BY <1>2
  <2>2. i \in D <=> w[i].dwells OBVIOUS
  <2>3. /\ moves[i] =
             Orchestrator!GraphNode("MoveTo", w[i].id, Orchestrator!Selected(w[i], cs))
        /\ dwells[i] =
             Orchestrator!GraphNode("Dwell", w[i].id, Orchestrator!Selected(w[i], cs))
    OBVIOUS
  <2>. HIDE DEF s, moves, dwells, D, w, cs
  <2>4. CASE w[i].dwells
    BY <2>1, <2>2, <2>3, <2>4 DEF Orchestrator!NodesOf, Pair
  <2>5. CASE ~w[i].dwells
    BY <2>1, <2>2, <2>3, <2>5 DEF Orchestrator!NodesOf, Lone
  <2>. QED BY <2>4, <2>5
<1>7. D \in SUBSET (1..n) OBVIOUS
<1>8. \A k \in 1..n : Orchestrator!Selected(w[k], cs) = Orchestrator!Placeholder
         \/ \E c \in Orchestrator!ToSet(cs) : /\ c.id = Orchestrator!Selected(w[k], cs)
                                             /\ c.stage \in {"Released", "Baseline"}
                                             /\ ~c.risk_flag
  BY SelectedIs DEF Orchestrator!Executable, SubmissionsFit
<1>9. s = [i \in 1..n |-> s[i]] BY <1>2
<1>. HIDE DEF E, moves, dwells, D, s, end, cs, w, n
<1>10. s \in Seq(Seq(E)) /\ Len(s) = n
  <2>1. ASSUME NEW i \in 1..n PROVE s[i] \in Seq(E)
    <3>. DEFINE x == moves[i]  y == dwells[i]
    <3>1. x \in E /\ y \in E BY <1>5
    <3>2. s[i] = Pair(x, y) \/ s[i] = Lone(x) BY <1>6
    <3>. HIDE DEF x, y
    <3>3. Pair(x, y) \in Seq(E) /\ Lone(x) \in Seq(E) BY <3>1, PieceIs
    <3>. QED BY <3>2, <3>3
  <2>2. s \in [1..n -> Seq(E)] BY <1>9, <2>1
  <2>. QED BY <1>2, <2>2
<1>11. /\ F \in Seq(E) /\ Len(F) \in Nat
       /\ n # 0 => \E at : JoinsPieces(E, at, n, moves, dwells, D, F)
       /\ n = 0 => Len(F) = 0
  <2>1. CASE n # 0
    <3>1. /\ \A i \in D : s[i] = Pair(moves[i], dwells[i])
          /\ \A i \in (1..n) \ D : s[i] = Lone(moves[i])
      BY <1>6, <1>7
    <3>2. n \in Nat \ {0} BY <1>2, <2>1
    <3>3. \E at : JoinsPieces(E, at, n, moves, dwells, D, Parser!FlattenSeq(s))
      BY ONLY <1>5, <1>7, <1>10, <3>1, <3>2, PiecesPass
    <3>4. Orchestrator!FlattenSeq(s) = Parser!FlattenSeq(s)
      <4>1. Len(s) # 0 BY <1>10, <2>1
      <4>. QED BY <1>10, <4>1, FlatIs
    <3>5. \E at : JoinsPieces(E, at, n, moves, dwells, D, F) BY <3>3, <3>4
    <3>. HIDE DEF F
    <3>6. F \in Seq(E) /\ Len(F) \in Nat BY <3>5, LenProperties DEF JoinsPieces
    <3>. QED BY <2>1, <3>5, <3>6
  <2>2. CASE n = 0
    <3>1. s = <<>> BY <1>10, <2>2, EmptySeq
    <3>2. Orchestrator!FlattenSeq(s) = <<>> BY <3>1 DEF Orchestrator!FlattenSeq
    <3>. QED BY <2>2, <3>2
  <2>. QED BY <2>1, <2>2
<1>. HIDE DEF F
<1>12. /\ Len(g) = Len(F) + 1 /\ DOMAIN g = 1..Len(F) + 1 /\ g[Len(F) + 1] = end
       /\ \A k \in 1..Len(F) : g[k] = F[k]
  <2>. DEFINE X == E \cup {end}  a == <<end>>
  <2>1. F \in Seq(X) BY <1>11, SeqMonotonic
  <2>2. a \in Seq(X) /\ Len(a) = 1 /\ a[1] = end OBVIOUS
  <2>. HIDE DEF X, a
  <2>3. /\ F \o a \in Seq(X) /\ Len(F \o a) = Len(F) + 1
        /\ \A k \in 1..Len(F) + 1 : (F \o a)[k] = IF k <= Len(F) THEN F[k] ELSE a[k - Len(F)]
    <3>1. /\ F \o a \in Seq(X) /\ Len(F \o a) = Len(F) + Len(a)
          /\ \A k \in 1..Len(F) + Len(a) :
               (F \o a)[k] = IF k <= Len(F) THEN F[k] ELSE a[k - Len(F)]
      BY <2>1, <2>2, ConcatProperties
    <3>2. Len(F) + Len(a) = Len(F) + 1 BY <2>2
    <3>. QED BY <3>1, <3>2
  <2>4. Len(F) + 1 \in 1..Len(F) + 1 /\ (Len(F) + 1) - Len(F) = 1 /\ ~(Len(F) + 1 <= Len(F))
    BY <1>11
  <2>5. (F \o a)[Len(F) + 1] = end BY <2>2, <2>3, <2>4
  <2>6. \A k \in 1..Len(F) : k \in 1..Len(F) + 1 /\ k <= Len(F) BY <1>11
  <2>7. DOMAIN (F \o a) = 1..Len(F) + 1 BY <2>3, LenProperties
  <2>. QED BY <2>3, <2>5, <2>6, <2>7 DEF a
<1>. HIDE DEF g
<1>13. CASE n = 0
  <2>1. \A k \in DOMAIN g : g[k] = end BY <1>11, <1>12, <1>13
  <2>2. MoveNodes(g) = {} BY <1>4, <2>1 DEF MoveNodes
  <2>3. DOMAIN w = {} BY <1>2, <1>13
  <2>4. PassesStops(w, g)
    <3>. DEFINE at == [i \in DOMAIN w |-> 0]
    <3>1. at \in [DOMAIN w -> MoveNodes(g)] BY <2>3
    <3>2. MoveNodes(g) = {at[i] : i \in DOMAIN w} BY <2>2, <2>3
    <3>. HIDE DEF at
    <3>. QED BY <2>3, <3>1, <3>2 DEF PassesStops
  <2>5. RunsExecutable(cs, g) BY <1>4, <2>1 DEF RunsExecutable
  <2>. QED BY <1>1, <2>4, <2>5 DEF w, cs
<1>14. CASE n # 0
  <2>1. PICK at : JoinsPieces(E, at, n, moves, dwells, D, F) BY <1>11, <1>14
  <2>2. /\ at \in [1..n -> 1..Len(F)]
        /\ \A i \in 1..n : \A j \in i + 1..n : at[i] < at[j]
        /\ \A i \in 1..n : F[at[i]] = moves[i]
        /\ \A i \in D : at[i] + 1 \in 1..Len(F) /\ F[at[i] + 1] = dwells[i]
        /\ \A k \in 1..Len(F) : \E i \in 1..n : k = at[i] \/ (i \in D /\ k = at[i] + 1)
    BY <2>1 DEF JoinsPieces
  <2>3. \A i \in 1..n : at[i] \in DOMAIN g /\ g[at[i]] = moves[i] BY <1>11, <1>12, <2>2
  <2>4. ASSUME NEW k \in DOMAIN g
        PROVE  \/ k = Len(F) + 1 /\ g[k] = end
               \/ \E i \in 1..n : k = at[i] /\ g[k] = moves[i]
               \/ \E i \in 1..n : g[k] = dwells[i]
    <3>1. CASE k \in 1..Len(F)
      <4>1. PICK i \in 1..n : k = at[i] \/ (i \in D /\ k = at[i] + 1) BY <2>2, <3>1
      <4>2. g[k] = F[k] BY <1>12, <3>1
      <4>. QED BY <2>2, <4>1, <4>2
    <3>2. k \in 1..Len(F) \/ k = Len(F) + 1 BY <1>11, <1>12
    <3>. QED BY <1>12, <3>1, <3>2
  <2>5. MoveNodes(g) = {at[i] : i \in 1..n}
    <3>1. \A i \in 1..n : at[i] \in MoveNodes(g) BY <1>3, <2>3 DEF MoveNodes
    <3>2. ASSUME NEW k \in MoveNodes(g) PROVE \E i \in 1..n : k = at[i]
      <4>1. k \in DOMAIN g /\ g[k].type = "MoveTo" BY DEF MoveNodes
      <4>2. \A i \in 1..n : g[k] # dwells[i] BY <1>3, <4>1
      <4>. QED BY <1>4, <2>4, <4>1, <4>2
    <3>. QED BY <3>1, <3>2
  <2>6. PassesStops(w, g)
    <3>1. \A i \in 1..n : g[at[i]].target = w[i].id BY <1>3, <2>3
    <3>2. at \in [DOMAIN w -> MoveNodes(g)]
      <4>1. at = [i \in 1..n |-> at[i]] BY <2>2
      <4>. QED BY <1>2, <2>5, <4>1
    <3>3. \A i \in DOMAIN w : g[at[i]].target = w[i].id
                              /\ \A j \in i + 1..Len(w) : at[i] < at[j]
      BY <1>2, <2>2, <3>1 DEF n
    <3>. QED BY <1>2, <2>5, <3>2, <3>3 DEF PassesStops
  <2>7. RunsExecutable(cs, g)
    <3>. SUFFICES ASSUME NEW k \in DOMAIN g
                  PROVE  g[k].policy \in {"none", Orchestrator!Placeholder}
                    \/ \E c \in Orchestrator!ToSet(cs) :
                         /\ c.id = g[k].policy
                         /\ c.stage \in {"Released", "Baseline"} /\ ~c.risk_flag
      BY DEF RunsExecutable
    <3>1. g[k] = end \/ \E i \in 1..n : g[k] = moves[i] \/ g[k] = dwells[i] BY <2>4
    <3>2. CASE g[k] = end BY <1>4, <3>2
    <3>3. ASSUME NEW i \in 1..n, g[k] = moves[i] \/ g[k] = dwells[i]
          PROVE  g[k].policy = Orchestrator!Selected(w[i], cs)
      BY <1>3, <3>3
    <3>4. ASSUME NEW i \in 1..n, g[k].policy = Orchestrator!Selected(w[i], cs)
          PROVE  g[k].policy = Orchestrator!Placeholder
                   \/ \E c \in Orchestrator!ToSet(cs) :
                        /\ c.id = g[k].policy
                        /\ c.stage \in {"Released", "Baseline"} /\ ~c.risk_flag
      BY <1>8, <3>4
    <3>. QED BY <3>1, <3>2, <3>3, <3>4
  <2>. QED BY <1>1, <2>6, <2>7 DEF w, cs
<1>. QED BY <1>13, <1>14

(* Inductive: a graph is the one planned for the submission that opened    *)
(* the session, and that one was understood.                               *)
GraphKept ==
  /\ DOMAIN sessions = Task
  /\ \A t \in Task :
       /\ {"state", "events", "graph", "submission"} \subseteq DOMAIN sessions[t]
       /\ \/ sessions[t].graph = <<>>
          \/ \E q \in Submission : /\ Orchestrator!Understood(q) /\ sessions[t].submission = q
                                  /\ sessions[t].graph = Orchestrator!Planned(q)

(* A session that is moved keeps both.                                     *)
LEMMA MovedKeeps ==
  ASSUME GraphKept, NEW t \in Task, NEW type, NEW to, Orchestrator!Moved(t, type, to)
  PROVE  GraphKept'
<1>. DEFINE s == sessions[t]
            e == Append(s.events, Orchestrator!Event(type, s.state, to))
            q == [s EXCEPT !.state = to, !.events = e]
<1>1. sessions' = [sessions EXCEPT ![t] = q]
  <2>1. sessions' =
          [sessions EXCEPT ![t] =
             [s EXCEPT !.state = to,
                       !.events = Append(@, Orchestrator!Event(type, s.state, to))]]
    BY DEF Orchestrator!Moved
  <2>. QED BY <2>1, Zenon
<1>2. {"state", "events", "graph", "submission"} \subseteq DOMAIN s BY DEF GraphKept
<1>3. q.graph = s.graph /\ q.submission = s.submission /\ DOMAIN q = DOMAIN s
  <2>. HIDE DEF s, e
  <2>. QED BY <1>2
<1>. HIDE DEF q
<1>4. /\ DOMAIN sessions' = Task /\ sessions'[t] = q
      /\ \A u \in Task \ {t} : sessions'[u] = sessions[u]
  BY <1>1 DEF GraphKept
<1>5. ASSUME NEW u \in Task
      PROVE  /\ sessions'[u].graph = sessions[u].graph
             /\ sessions'[u].submission = sessions[u].submission
             /\ DOMAIN sessions'[u] = DOMAIN sessions[u]
  BY <1>3, <1>4
<1>. HIDE DEF s
<1>. QED BY <1>4, <1>5 DEF GraphKept

LEMMA GraphStep == GraphKept /\ [Orchestrator!Next]_sessions => GraphKept'
<1>. SUFFICES ASSUME GraphKept, [Orchestrator!Next]_sessions PROVE GraphKept' OBVIOUS
<1>1. CASE UNCHANGED sessions BY <1>1 DEF GraphKept
<1>2. ASSUME NEW t \in Task, NEW q \in Submission, Orchestrator!Submit(t, q) PROVE GraphKept'
  <2>. DEFINE o == Orchestrator!Opened(q)
  <2>1. /\ {"state", "events", "graph", "submission"} \subseteq DOMAIN o
        /\ \/ o.graph = <<>>
           \/ /\ Orchestrator!Understood(q) /\ o.submission = q
              /\ o.graph = Orchestrator!Planned(q)
    BY DEF Orchestrator!Opened
  <2>. HIDE DEF o
  <2>2. DOMAIN sessions' = Task /\ sessions'[t] = o
        /\ \A u \in Task \ {t} : sessions'[u] = sessions[u]
    BY <1>2 DEF Orchestrator!Submit, Orchestrator!OpenedAfresh, GraphKept, o
  <2>3. ASSUME NEW u \in Task
        PROVE  /\ {"state", "events", "graph", "submission"} \subseteq DOMAIN sessions'[u]
               /\ \/ sessions'[u].graph = <<>>
                  \/ \E p \in Submission : /\ Orchestrator!Understood(p)
                                          /\ sessions'[u].submission = p
                                          /\ sessions'[u].graph = Orchestrator!Planned(p)
    <3>1. CASE u = t BY <2>1, <2>2, <3>1
    <3>2. CASE u # t
      <4>1. sessions'[u] = sessions[u] BY <2>2, <3>2
      <4>. QED BY <4>1 DEF GraphKept
    <3>. QED BY <3>1, <3>2
  <2>. QED BY <2>2, <2>3 DEF GraphKept
<1>3. ASSUME NEW t \in Task,
             Orchestrator!Confirm(t) \/ Orchestrator!Handoff(t) \/ Orchestrator!Cancel(t)
      PROVE  GraphKept'
  BY <1>3, MovedKeeps DEF Orchestrator!Confirm, Orchestrator!Handoff, Orchestrator!Cancel
<1>. QED BY <1>1, <1>2, <1>3 DEF Orchestrator!Next

(* The graph of a session is sound.                                        *)
LEMMA GraphsAreSound ==
  ASSUME SubmissionsFit PROVE Orchestrator!Spec => []Orchestrator!GraphIsSound
<1>1. Orchestrator!Init => GraphKept
  BY DEF Orchestrator!Init, GraphKept, Orchestrator!NoSession
<1>2. GraphKept => Orchestrator!GraphIsSound
  <2>. SUFFICES ASSUME GraphKept, NEW t \in Task, sessions[t].graph # <<>>
                PROVE  LET s == sessions[t]
                           by == s.submission
                           w == by.script.waypoints
                           moves == {k \in DOMAIN s.graph : s.graph[k].type = "MoveTo"}
                       IN
                       /\ \E at \in [DOMAIN w -> moves] :
                            /\ moves = {at[i] : i \in DOMAIN w}
                            /\ \A i \in DOMAIN w :
                                 /\ s.graph[at[i]].target = w[i].id
                                 /\ \A j \in i + 1..Len(w) : at[i] < at[j]
                       /\ Orchestrator!Named(by.scene) =>
                            /\ \A k \in moves : s.graph[k].target \in by.scene.checkpoints
                            /\ Orchestrator!ToSet(by.script.avoid) \subseteq by.scene.zones
                       /\ \A i \in DOMAIN s.graph :
                            s.graph[i].policy \in {"none", Orchestrator!Placeholder}
                            \/ \E c \in Orchestrator!ToSet(by.candidates) :
                                 /\ c.id = s.graph[i].policy
                                 /\ c.stage \in {"Released", "Baseline"} /\ ~c.risk_flag
    BY DEF Orchestrator!GraphIsSound
  <2>1. PICK q \in Submission : /\ Orchestrator!Understood(q) /\ sessions[t].submission = q
                                /\ sessions[t].graph = Orchestrator!Planned(q)
    BY DEF GraphKept
  <2>. DEFINE g == Orchestrator!Planned(q)  w == q.script.waypoints
  <2>2. PassesStops(w, g) /\ RunsExecutable(q.candidates, g) BY PlannedPasses
  <2>3. Orchestrator!Named(q.scene) =>
          /\ \A v \in Orchestrator!ToSet(w) : v.id \in q.scene.checkpoints
          /\ Orchestrator!ToSet(q.script.avoid) \subseteq q.scene.zones
    BY <2>1 DEF Orchestrator!Understood, Orchestrator!Accepted, Orchestrator!SceneConflicts,
                Orchestrator!ZoneConflicts
  <2>. HIDE DEF g, w
  <2>4. Orchestrator!Named(q.scene) =>
          \A k \in MoveNodes(g) : g[k].target \in q.scene.checkpoints
    <3>. SUFFICES ASSUME Orchestrator!Named(q.scene), NEW k \in MoveNodes(g)
                  PROVE  g[k].target \in q.scene.checkpoints
      OBVIOUS
    <3>1. PICK i \in DOMAIN w : g[k].target = w[i].id BY <2>2 DEF PassesStops
    <3>2. w[i] \in Orchestrator!ToSet(w) BY DEF Orchestrator!ToSet
    <3>. QED BY <2>3, <3>1, <3>2
  <2>. QED BY <2>1, <2>2, <2>3, <2>4 DEF g, w, PassesStops, RunsExecutable, MoveNodes
<1>. QED BY <1>1, <1>2, GraphStep, PTL DEF Orchestrator!Spec
=============================================================================
