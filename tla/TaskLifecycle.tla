----------------------------- MODULE TaskLifecycle -----------------------------
(***************************************************************************)
(* Tasks in the Python API: submission, confirmation, handoff and          *)
(* cancellation as requests in threads of their own, alone or as the       *)
(* one-click run that goes through the first three.  Reading a task,       *)
(* saving it and appending its event are separate repository calls, so     *)
(* each is a step; the process may be killed between any two of them, and  *)
(* the tables stay.  (The permission, reason and scene checks that end a   *)
(* request before its first read are left out; ControlRun has the run      *)
(* itself.)                                                                *)
(***************************************************************************)
EXTENDS Integers, Sequences

CONSTANTS Task,       \* task ids, each made by one submission
          Request,    \* request threads
          Goal,       \* what the clients ask for
          MaxCrashes  \* bound on the crashes

VARIABLES task,     \* the state saved for each id
          events,   \* the task events of each id in the order of their rows
          control,  \* the status saved for each task's run
          request,
          worker,   \* background handoffs of each task
          was,      \* history: the states ever saved for a task
          runs,     \* history: handoffs executed for a task
          shared,   \* history: tasks that two requests were on at once
          cut,      \* history: tasks whose request or worker a crash ended
          crashes

vars == <<task, events, control, request, worker, was, runs, shared, cut, crashes>>
tables == <<task, events, control>>
past == <<was, runs, shared, cut, crashes>>

TaskState == {"preview_ready", "rejected", "confirmed", "handed_off", "cancelled"}
TaskEvent == {"submitted", "preview_generated", "rejected", "confirmed", "handed_off", "cancelled"}
Run == {"run", "run_async"}
AnyGoal == Run \cup {"submit", "confirm", "handoff", "cancel"}

Idle == [pc |-> "idle", goal |-> "none", task |-> "none", saves |-> "none", todo |-> <<>>]

Init ==
  /\ task = [t \in Task |-> "none"] /\ events = [t \in Task |-> <<>>]
  /\ control = [t \in Task |-> "none"] /\ worker = [t \in Task |-> 0]
  /\ request = [r \in Request |-> Idle]
  /\ was = [t \in Task |-> {}] /\ runs = [t \in Task |-> 0]
  /\ shared = {} /\ cut = {} /\ crashes = 0

-----------------------------------------------------------------------------
At(r, pc) == request[r].pc = pc
On(r) == request[r].task
Done(r) == request' = [request EXCEPT ![r] = Idle]
GoTo(r, pc) == request' = [request EXCEPT ![r].pc = pc]

(* save_task, with the events that are appended after it.                  *)
Saves(r, t, state, appended) ==
  /\ task' = [task EXCEPT ![t] = state] /\ was' = [was EXCEPT ![t] = @ \cup {state}]
  /\ request' = [request EXCEPT ![r] = [@ EXCEPT !.pc = "append", !.task = t, !.saves = state,
                                                 !.todo = appended]]
  /\ UNCHANGED <<events, control, worker, runs, shared, cut, crashes>>

(* A request about a task that exists.                                     *)
Asks(r) ==
  /\ At(r, "idle")
  /\ \E t \in Task, g \in Goal \cap {"confirm", "handoff", "cancel"} :
       /\ task[t] # "none"
       /\ request' = [request EXCEPT ![r] = [Idle EXCEPT !.pc = g, !.goal = g, !.task = t]]
       /\ shared' = IF \E q \in Request : On(q) = t THEN shared \cup {t} ELSE shared
  /\ UNCHANGED <<tables, worker, was, runs, cut, crashes>>

(* submit_task: what cannot be parsed is saved as well, as rejected.       *)
Submits(r) ==
  /\ At(r, "idle")
  /\ \E t \in Task, g \in Goal \cap (Run \cup {"submit"}) :
       /\ task[t] = "none"
       /\ \E accepted \in BOOLEAN :
            LET state == IF accepted THEN "preview_ready" ELSE "rejected"
            IN /\ task' = [task EXCEPT ![t] = state] /\ was' = [was EXCEPT ![t] = {state}]
               /\ request' = [request EXCEPT ![r] =
                    [pc |-> "append", goal |-> g, task |-> t, saves |-> state,
                     todo |-> <<"submitted",
                                IF accepted THEN "preview_generated" ELSE "rejected">>]]
  /\ UNCHANGED <<events, control, worker, runs, shared, cut, crashes>>

(* Where a request goes on after what it saved is recorded: a one-click    *)
(* run confirms what was accepted and hands off what it confirmed.         *)
Following(goal, saved) ==
  CASE saved = "handed_off" -> IF goal = "run_async" THEN "accept" ELSE "execute"
    [] goal \in Run /\ saved = "preview_ready" -> "confirm"
    [] goal \in Run /\ saved = "confirmed" -> "handoff"
    [] OTHER -> "idle"

Appends(r) ==
  /\ At(r, "append")
  /\ LET q == request[r]
         next == IF Len(q.todo) > 1 THEN "append" ELSE Following(q.goal, q.saves)
     IN /\ events' = [events EXCEPT ![q.task] = Append(@, Head(q.todo))]
        /\ IF next = "idle" THEN Done(r)
           ELSE request' = [request EXCEPT ![r] = [q EXCEPT !.pc = next, !.todo = Tail(q.todo)]]
  /\ UNCHANGED <<task, control, worker, past>>

(* A step that reads the task, and answers with a conflict if its state is *)
(* not among these.                                                        *)
Reads(r, pc, states, then) ==
  /\ At(r, pc)
  /\ IF task[On(r)] \in states THEN GoTo(r, then) ELSE Done(r)
  /\ UNCHANGED <<tables, worker, past>>

(* confirm_task                                                            *)
ConfirmReads(r) == Reads(r, "confirm", {"preview_ready"}, "save_confirm")
ConfirmSaves(r) == At(r, "save_confirm") /\ Saves(r, On(r), "confirmed", <<"confirmed">>)

(* A task that was handed off may be handed off again. *)
HandoffReadsAny(r) == Reads(r, "handoff", {"confirmed", "handed_off"}, "save_handoff")

(* handoff_task and _accept_task_handoff_async                             *)
HandoffReads(r) == Reads(r, "handoff", {"confirmed"}, "save_handoff")
HandoffSaves(r) == At(r, "save_handoff") /\ Saves(r, On(r), "handed_off", <<"handed_off">>)

(* cancel_task: a rejected task may be cancelled, too.                     *)
CancelReads(r) ==
  Reads(r, "cancel", {"preview_ready", "rejected", "confirmed"}, "save_cancel")

(* A cancellation has no event of its own. *)
CancelSavesNoEvent(r) ==
  /\ At(r, "save_cancel") /\ Done(r)
  /\ task' = [task EXCEPT ![On(r)] = "cancelled"]
  /\ was' = [was EXCEPT ![On(r)] = @ \cup {"cancelled"}]
  /\ UNCHANGED <<events, control, worker, runs, shared, cut, crashes>>

CancelSaves(r) == At(r, "save_cancel") /\ Saves(r, On(r), "cancelled", <<"cancelled">>)

-----------------------------------------------------------------------------
(* An asynchronous run is accepted, and its worker started.                *)
Accepts(r) ==
  /\ At(r, "accept") /\ Done(r)
  /\ control' = [control EXCEPT ![On(r)] = "running"]
  /\ worker' = [worker EXCEPT ![On(r)] = @ + 1]
  /\ UNCHANGED <<task, events, past>>

(* An exception ends the worker. *)
WorkerEndsOrRaises(t) ==
  /\ worker[t] > 0 /\ worker' = [worker EXCEPT ![t] = @ - 1]
  /\ runs' = [runs EXCEPT ![t] = @ + 1]
  /\ \/ control' = [control EXCEPT ![t] = "result"]
     \/ UNCHANGED control
  /\ UNCHANGED <<task, events, request, was, shared, cut, crashes>>

(* _run_background_handoff: an exception is a result as well.              *)
WorkerEnds(t) ==
  /\ worker[t] > 0 /\ worker' = [worker EXCEPT ![t] = @ - 1]
  /\ runs' = [runs EXCEPT ![t] = @ + 1]
  /\ control' = [control EXCEPT ![t] = "result"]
  /\ UNCHANGED <<task, events, request, was, shared, cut, crashes>>

(* In a synchronous handoff an exception ends the request.                 *)
Executes(r) ==
  /\ At(r, "execute") /\ Done(r)
  /\ runs' = [runs EXCEPT ![On(r)] = @ + 1]
  /\ \/ control' = [control EXCEPT ![On(r)] = "result"]
     \/ UNCHANGED control
  /\ UNCHANGED <<task, events, worker, was, shared, cut, crashes>>

(* The process is killed and started again; nothing is taken up again.     *)
Crash ==
  /\ crashes < MaxCrashes /\ crashes' = crashes + 1
  /\ cut' = cut \cup {t \in Task : worker[t] > 0 \/ \E r \in Request : On(r) = t}
  /\ request' = [r \in Request |-> Idle] /\ worker' = [t \in Task |-> 0]
  /\ UNCHANGED <<tables, was, runs, shared>>

RequestStep(r) ==
  \/ Appends(r) \/ ConfirmReads(r) \/ ConfirmSaves(r) \/ HandoffReads(r) \/ HandoffSaves(r)
  \/ CancelReads(r) \/ CancelSaves(r) \/ Accepts(r) \/ Executes(r)

Next ==
  \/ \E r \in Request : Asks(r) \/ Submits(r) \/ RequestStep(r)
  \/ \E t \in Task : WorkerEnds(t)
  \/ Crash

(* A request that has begun goes on, and so does a worker: neither waits   *)
(* for another thread.                                                     *)
Fairness == /\ \A r \in Request : WF_vars(RequestStep(r))
            /\ \A t \in Task : WF_vars(WorkerEnds(t))

Spec == Init /\ [][Next]_vars /\ Fairness

-----------------------------------------------------------------------------
(* PROPERTIES *)

(* Every variable has its type.                                            *)
TypeOK ==
  /\ task \in [Task -> TaskState \cup {"none"}] /\ events \in [Task -> Seq(TaskEvent)]
  /\ control \in [Task -> {"none", "running", "result"}] /\ worker \in [Task -> Nat]
  /\ request \in [Request ->
       [pc : {"idle", "append", "confirm", "save_confirm", "handoff", "save_handoff", "cancel",
              "save_cancel", "accept", "execute"},
        goal : AnyGoal \cup {"none"}, task : Task \cup {"none"},
        saves : TaskState \cup {"none"}, todo : Seq(TaskEvent)]]
  /\ was \in [Task -> SUBSET TaskState] /\ runs \in [Task -> Nat]
  /\ shared \subseteq Task /\ cut \subseteq Task /\ crashes \in Nat

Started(t) == runs[t] > 0 \/ worker[t] > 0 \/ \E r \in Request : On(r) = t /\ At(r, "execute")

(* However requests overlap and wherever a crash falls, what runs was      *)
(* accepted by the parser, confirmed and handed off.  And a task on which  *)
(* requests come one at a time is executed at most once, and never after   *)
(* or before it was cancelled.                                             *)
LoneTaskRunsOnce ==
  \A t \in Task :
    /\ Started(t) \/ control[t] # "none" =>
         {"preview_ready", "confirmed", "handed_off"} \subseteq was[t]
    /\ t \notin shared =>
         /\ runs[t] + worker[t] <= 1
         /\ "cancelled" \in was[t] => ~Started(t) /\ "handed_off" \notin was[t]

EventOf(s) == IF s = "preview_ready" THEN "preview_generated" ELSE s

(* The events of a task tell every state it was in, and after requests     *)
(* that came one at a time the last one tells its state, unless a crash    *)
(* cut a request off.                                                      *)
EventsTellStates ==
  \A t \in Task \ cut : (\A r \in Request : On(r) # t) /\ task[t] # "none" =>
    /\ {events[t][k] : k \in DOMAIN events[t]} = {EventOf(s) : s \in was[t]} \cup {"submitted"}
    /\ t \notin shared => events[t][Len(events[t])] = EventOf(task[t])

(* An accepted run is given its result, unless a crash cuts it off: then   *)
(* its status says running for ever.                                       *)
AcceptedRunEnds == \A t \in Task : (control[t] = "running") ~> (control[t] = "result" \/ t \in cut)
=============================================================================
