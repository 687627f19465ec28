---------------------------- MODULE TaskExecutor ----------------------------
(***************************************************************************)
(* TaskExecutor: one run of a task graph, a control step at a time.  A     *)
(* step reads the adapter, asks the policy runtime for a proposal, passes  *)
(* it through the safety shield and, unless it is rejected, to the         *)
(* adapter; then it moves the run along the graph.                         *)
(*                                                                         *)
(* The robot, its sensors, the adapter's failures and the operator's flags *)
(* are the environment: a step takes any member of Reading.                *)
(***************************************************************************)
EXTENDS Integers, FiniteSets, SafetyShield, LocalPlanner

CONSTANTS Node,        \* the node ids that have a node in task_graph.nodes
          Id,          \* every id an edge may name; ids outside Node dangle
          NoNode,      \* the empty node id
          Entry,       \* entry_node_id
          NodeType,    \* the type of each node
          Succ,        \* the first edge out of each node, NoNode without one
          HasTarget,   \* the nodes whose target_waypoint_id is a known waypoint
          Dwell,       \* dwell time of that waypoint
          Reading,     \* what a step may meet
          MaxNow       \* bound on time

ReadingType ==
  [state_ok : BOOLEAN, observe_ok : BOOLEAN, policy_ok : BOOLEAN, step_ok : BOOLEAN,
   stability : StabilityState, risk : RiskBand, reached : BOOLEAN, over_limit : BOOLEAN,
   observed : BOOLEAN, obstacle : ObstacleBand, in_zone : BOOLEAN,
   require_observation : BOOLEAN, emergency_stop : BOOLEAN,
   manual_override : BOOLEAN, override : OverrideCommandType]

ASSUME GraphAssumption ==
  /\ IsFiniteSet(Node) /\ Node \subseteq Id /\ NoNode \notin Id
  /\ Entry \in Node                       \* start() refuses any other graph
  /\ NodeType \in [Node -> TaskNodeType]
  /\ Succ \in [Node -> Id \cup {NoNode}]
  /\ HasTarget \subseteq Node
  /\ Dwell \in [Node -> Nat]
ASSUME EnvironmentAssumption == Reading # {} /\ Reading \subseteq ReadingType /\ MaxNow \in Nat

VARIABLES run_state, current_node_id, node_state, started_at, finished_at,
          completed_node_count,
          result,       \* what the last step returned
          last_reading, \* what the last step met
          commanded,    \* the last action the adapter carried out
          now           \* the timestamp of the last request

vars == <<run_state, current_node_id, node_state, started_at, finished_at,
          completed_node_count, result, last_reading, commanded, now>>
progress == <<current_node_id, node_state, started_at, finished_at, completed_node_count>>

ControlRunState == {"Created", "Running", "Paused", "Succeeded", "Failed"}
TaskNodeExecutionState == {"Pending", "Running", "Succeeded", "Failed"}
StepResult == [ok : BOOLEAN, invoked : BOOLEAN, stepped : BOOLEAN, evaluation : SafetyEvaluation]

NoEvaluation == Terminal("Rejected", "Stop", "None")
Returned(ok) == [ok |-> ok, invoked |-> FALSE, stepped |-> FALSE, evaluation |-> NoEvaluation]

Init ==
  /\ run_state = "Created" /\ current_node_id = NoNode
  /\ node_state = [n \in Node |-> "Pending"]
  /\ started_at = [n \in Node |-> 0] /\ finished_at = [n \in Node |-> 0]
  /\ completed_node_count = 0
  /\ result = Returned(TRUE) /\ last_reading = (CHOOSE r \in Reading : TRUE)
  /\ commanded = "Stop" /\ now = 0

-----------------------------------------------------------------------------
(* The node snapshots of the previous run survive. *)
StartKeepsNodes(t) ==
  /\ run_state' = "Running" /\ current_node_id' = Entry
  /\ result' = Returned(TRUE) /\ now' = t
  /\ UNCHANGED <<node_state, started_at, finished_at, completed_node_count,
                 last_reading, commanded>>

(* start(): a fresh snapshot at the entry node, whatever the run was doing. *)
Start(t) ==
  /\ run_state' = "Running" /\ current_node_id' = Entry
  /\ node_state' = [n \in Node |-> "Pending"]
  /\ started_at' = [n \in Node |-> 0] /\ finished_at' = [n \in Node |-> 0]
  /\ completed_node_count' = 0
  /\ result' = Returned(TRUE)
  /\ now' = t
  /\ UNCHANGED <<last_reading, commanded>>

(* A failed observe() is replaced by a packet of missing quality. *)
View(r) == IF r.observe_ok THEN r
                           ELSE [r EXCEPT !.observed = FALSE, !.obstacle = "none"]

Planned(n, r) == Infer(NodeType[n], View(r))

(* The shield's verdict on the plan; over_limit speeds are clipped.        *)
Judged(n, r) == Evaluate(Planned(n, r), View(r))

should_pause_for_safety(e) == e.decision \in {"EmergencyStop", "SafeStand"}
                              \/ e.event \in {"ManualOverride", "EmergencyStop"}

dwell_duration(n) == IF n \in HasTarget THEN Dwell[n] ELSE 0

NeedsTarget(n) == NodeType[n] \in MovingType /\ n \notin HasTarget

(* target_reached alone: the plan of a Stop node sets it too. *)
ArrivesAnywhere(n, r) == Planned(n, r).target_reached

Arrives(n, r) == NodeType[n] \in MovingType /\ Planned(n, r).target_reached

-----------------------------------------------------------------------------
(* Node bookkeeping. mark_running_if_needed comes before everything else   *)
(* in a step, so the other two act on the marked node.                     *)
StartedAt(n, t) == IF node_state[n] = "Pending" THEN t ELSE started_at[n]

MarkRunning(n, t) ==
  /\ node_state' = [node_state EXCEPT ![n] = IF @ = "Pending" THEN "Running" ELSE @]
  /\ started_at' = [started_at EXCEPT ![n] = StartedAt(n, t)]
  /\ UNCHANGED <<finished_at, completed_node_count>>

(* A node that fails is taken off the count. *)
FinishUncounts(n, state, t) ==
  /\ node_state' = [node_state EXCEPT ![n] = state]
  /\ started_at' = [started_at EXCEPT ![n] = StartedAt(n, t)]
  /\ finished_at' = [finished_at EXCEPT ![n] = t]
  /\ completed_node_count' = completed_node_count + (IF state = "Succeeded" THEN 1 ELSE -1)

FinishNode(n, state, t) ==
  /\ node_state' = [node_state EXCEPT ![n] = state]
  /\ started_at' = [started_at EXCEPT ![n] = StartedAt(n, t)]
  /\ finished_at' = [finished_at EXCEPT ![n] = t]
  /\ completed_node_count' =
       completed_node_count + (IF node_state[n] # "Succeeded" /\ state = "Succeeded" THEN 1 ELSE 0)

(* advance_after_success: along the first edge, or the end of the run. *)
Advance(n) ==
  IF Succ[n] = NoNode
    THEN run_state' = "Succeeded" /\ current_node_id' = NoNode
    ELSE run_state' = run_state /\ current_node_id' = Succ[n]

StopRun(state) == run_state' = state /\ UNCHANGED current_node_id

-----------------------------------------------------------------------------
(* step_once(), by the way it leaves.  Each ends with what it returns.     *)
Return(ok) == result' = Returned(ok) /\ UNCHANGED commanded

(* A pause that is picked up by the next step. *)
ReadyAfterPause(n) == run_state \in {"Running", "Paused"} /\ n = current_node_id /\ n \in Node

Ready(n) == run_state = "Running" /\ n = current_node_id /\ n \in Node

StepHalted ==
  /\ run_state # "Running"
  /\ UNCHANGED <<run_state, progress>> /\ Return(TRUE)

StepMissingNode ==
  /\ run_state = "Running" /\ current_node_id \notin Node
  /\ StopRun("Failed") /\ Return(FALSE)
  /\ UNCHANGED <<node_state, started_at, finished_at, completed_node_count>>

StepNoState(n, r, t) ==
  /\ Ready(n) /\ ~r.state_ok
  /\ MarkRunning(n, t) /\ StopRun("Failed") /\ Return(FALSE)

(* A moving node without a waypoint, or a policy runtime that fails. *)
StepNoPlan(n, r, t) ==
  /\ Ready(n) /\ r.state_ok /\ (NeedsTarget(n) \/ ~r.policy_ok)
  /\ FinishNode(n, "Failed", t) /\ StopRun("Failed") /\ Return(FALSE)

HasPlan(n, r) == Ready(n) /\ r.state_ok /\ ~NeedsTarget(n) /\ r.policy_ok

(* The run moves on without closing the node it leaves. *)
StepArrivesOpen(n, r, t) ==
  /\ HasPlan(n, r) /\ Arrives(n, r)
  /\ MarkRunning(n, t) /\ Advance(n) /\ Return(TRUE)

(* On arrival the node succeeds and the step ends: neither the shield nor  *)
(* the adapter is called.                                                  *)
StepArrives(n, r, t) ==
  /\ HasPlan(n, r) /\ Arrives(n, r)
  /\ FinishNode(n, "Succeeded", t) /\ Advance(n) /\ Return(TRUE)

Controls(n, r) == HasPlan(n, r) /\ ~Arrives(n, r)

Rejects(e) == e.decision = "Rejected"

StepAdapterFails(n, r, t) ==
  /\ Controls(n, r) /\ ~Rejects(Judged(n, r)) /\ ~r.step_ok
  /\ FinishNode(n, "Failed", t) /\ StopRun("Failed") /\ Return(FALSE)

(* The control loop ran: its evaluation is returned, and the adapter has   *)
(* carried the action out unless it was rejected.                          *)
Controlled(n, r) ==
  LET e == Judged(n, r) IN
  /\ Controls(n, r) /\ (Rejects(e) \/ r.step_ok)
  /\ result' = [ok |-> TRUE, invoked |-> TRUE, stepped |-> ~Rejects(e), evaluation |-> e]
  /\ commanded' = IF Rejects(e) THEN commanded ELSE e.action

StepRejected(n, r, t) ==
  /\ Controlled(n, r) /\ Rejects(Judged(n, r))
  /\ StopRun(IF should_pause_for_safety(Judged(n, r)) THEN "Paused" ELSE "Failed")
  /\ MarkRunning(n, t)

StepPaused(n, r, t) ==
  /\ Controlled(n, r) /\ ~Rejects(Judged(n, r)) /\ should_pause_for_safety(Judged(n, r))
  /\ StopRun("Paused") /\ MarkRunning(n, t)

(* The dwell is counted from the start of the run, not of the node. *)
CompletesByRunClock(n, t) ==
  \/ NodeType[n] = "Dwell" /\ t >= dwell_duration(n)
  \/ NodeType[n] = "Stop"

(* A Dwell node ends when its time is up, a Stop node with its first step. *)
Completes(n, t) ==
  \/ NodeType[n] = "Dwell" /\ t - StartedAt(n, t) >= dwell_duration(n)
  \/ NodeType[n] = "Stop"

Undisturbed(n, r) ==
  Controlled(n, r) /\ ~Rejects(Judged(n, r)) /\ ~should_pause_for_safety(Judged(n, r))

StepCompletes(n, r, t) ==
  /\ Undisturbed(n, r) /\ Completes(n, t)
  /\ FinishNode(n, "Succeeded", t) /\ Advance(n)

StepContinues(n, r, t) ==
  /\ Undisturbed(n, r) /\ ~Completes(n, t)
  /\ MarkRunning(n, t) /\ UNCHANGED <<run_state, current_node_id>>

StepOnce(r, t) ==
  /\ last_reading' = r /\ now' = t
  /\ \/ StepHalted
     \/ StepMissingNode
     \/ \E n \in Node : \/ StepNoState(n, r, t)
                        \/ StepNoPlan(n, r, t)
                        \/ StepArrives(n, r, t)
                        \/ StepAdapterFails(n, r, t)
                        \/ StepRejected(n, r, t)
                        \/ StepPaused(n, r, t)
                        \/ StepCompletes(n, r, t)
                        \/ StepContinues(n, r, t)

Next == \E t \in now..MaxNow : Start(t) \/ \E r \in Reading : StepOnce(r, t)

Spec == Init /\ [][Next]_vars

-----------------------------------------------------------------------------
(* PROPERTIES *)

(* Every variable has its type. *)
TypeOK ==
  /\ run_state \in ControlRunState /\ current_node_id \in Id \cup {NoNode}
  /\ node_state \in [Node -> TaskNodeExecutionState]
  /\ started_at \in [Node -> Nat] /\ finished_at \in [Node -> Nat]
  /\ completed_node_count \in Nat
  /\ result \in StepResult /\ last_reading \in ReadingType
  /\ commanded \in ActionType /\ now \in 0..MaxNow

Succeeded(n) == node_state[n] = "Succeeded"

(* The nodes that succeeded form an unbroken stretch of the route from the *)
(* entry to where the run stands: none is skipped, and a run that reports  *)
(* Succeeded has completed every node of it.                               *)
RouteIsWhole ==
  /\ \A n \in Node : Succeeded(n) =>
       \/ Succ[n] \in {NoNode, current_node_id}
       \/ Succ[n] \in Node /\ Succeeded(Succ[n])
  /\ \A n \in Node : n = current_node_id \/ node_state[n] # "Pending" =>
       n = Entry \/ \E p \in Node : Succ[p] = n /\ node_state[p] # "Pending"
  /\ run_state # "Created" => current_node_id = Entry \/ Succeeded(Entry)

(* A node that is running or failed is where the run stands, and a failed  *)
(* node has ended the run: nothing is left in flight behind it.            *)
OnlyCurrentInFlight ==
  \A n \in Node : /\ node_state[n] \in {"Running", "Failed"} => n = current_node_id
                  /\ node_state[n] = "Failed" => run_state = "Failed"

(* On a graph without cycles the books agree with the route: the count is  *)
(* the number of nodes that succeeded, times do not go back from a node to *)
(* the next, and no dwell is cut short.                                    *)
BooksAgree ==
  /\ completed_node_count = Cardinality({n \in Node : Succeeded(n)})
  /\ \A n \in Node : Succeeded(n) =>
       /\ started_at[n] <= finished_at[n]
       /\ NodeType[n] = "Dwell" => finished_at[n] - started_at[n] >= dwell_duration(n)
       /\ \A m \in Node : m = Succ[n] /\ node_state[m] # "Pending"
                             => finished_at[n] <= started_at[m]

EmergencyAsked(r) == r.emergency_stop \/ r.override = "EmergencyStop"
StopAsked(r) == EmergencyAsked(r) \/ r.manual_override
                \/ r.override \in {"ManualControl", "SafeStand"}

(* The robot is never given a velocity against what the same step knew: an *)
(* operator's stop, an unsteady or risky body, a missing observation that  *)
(* is required, an obstacle within the hard distance, a forbidden zone.    *)
NoMotionAgainstStop ==
  result.stepped /\ result.evaluation.action = "BodyVelocity" =>
    LET r == last_reading IN
    /\ ~StopAsked(r)
    /\ r.stability \in {"Stable", "Unknown"} /\ r.risk = "low"
    /\ r.require_observation => r.observe_ok /\ r.observed
    /\ r.observe_ok => r.obstacle # "hard"
    /\ ~r.in_zone

AtTargetSteady(n, r) == NodeType[n] \in MovingType /\ r.reached /\ r.risk = "low"
                        /\ r.stability \in {"Stable", "Unknown"}

(* What a step may do while an operator's stop is asked.  If its control   *)
(* loop runs, it pauses the run and completes no node, and an emergency    *)
(* stop, whatever else is asked at the same time, reaches the robot as     *)
(* Stop.  If it does not, no command is sent, and a running run goes on    *)
(* only by a restart or by arriving: of the nodes it completes the current *)
(* one at most, a moving one whose target the robot is at, steady.         *)
OperatorStopHolds ==
  [][StopAsked(last_reading') /\ LimitsValid =>
       /\ result'.invoked =>
            /\ run_state' = "Paused" /\ UNCHANGED {n \in Node : Succeeded(n)}
            /\ EmergencyAsked(last_reading') => result'.stepped /\ commanded' = "Stop"
       /\ ~result'.invoked =>
            /\ UNCHANGED commanded
            /\ \A n \in Node : ~Succeeded(n) /\ Succeeded(n)' =>
                 n = current_node_id /\ AtTargetSteady(n, last_reading')
            /\ run_state = "Running" /\ run_state' # "Failed" =>
                 \/ \A n \in Node : node_state'[n] = "Pending"
                 \/ \E n \in Node : /\ n = current_node_id /\ node_state'[n] = "Succeeded"
                                    /\ AtTargetSteady(n, last_reading')]_vars

(* A run whose last node is not a moving one succeeds with the robot       *)
(* stopped: its last command was not a velocity.                           *)
EndsStill == \A n \in Node : Succ[n] = NoNode => NodeType[n] \notin MovingType
SucceededRunIsStill == EndsStill /\ run_state = "Succeeded" => commanded # "BodyVelocity"

(* A moving node is completed only by a robot that is at the target,       *)
(* steady and at low risk: recovery comes before arrival.                  *)
ArrivesSteady ==
  [][\A n \in Node :
       NodeType[n] \in MovingType /\ ~Succeeded(n) /\ node_state'[n] = "Succeeded" =>
         /\ last_reading'.reached /\ last_reading'.risk = "low"
         /\ last_reading'.stability \in {"Stable", "Unknown"}]_vars

(* The run seen from outside: it walks the route, completes only the node  *)
(* it stands on, and once halted moves only by a new start.                *)
Route == INSTANCE TaskRoute WITH run <- run_state, at <- current_node_id,
                                 done <- {n \in Node : Succeeded(n)}
WalksItsRoute == Route!Spec

(* ADR-0020 lists the collision distance among the hard constraints, after *)
(* which the shield answers Rejected, Replan or SafeStand: no velocity is  *)
(* given while the robot touches an obstacle it has observed.              *)
NoMotionIntoContact ==
  result.stepped /\ result.evaluation.action = "BodyVelocity" =>
    ~(last_reading.observe_ok /\ last_reading.obstacle = "contact")
=============================================================================
