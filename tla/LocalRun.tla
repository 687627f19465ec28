------------------------------- MODULE LocalRun -------------------------------
(***************************************************************************)
(* run_local_task: a request becomes a task graph, TaskExecutor walks it   *)
(* against the kinematic adapter for as many control steps as the budget   *)
(* allows, and the run leaves its summary and evidence files.  Everything  *)
(* here is determined by the request but for files that cannot be opened.  *)
(*                                                                         *)
(* The robot moves along a line.  Lengths are in units of 10 micrometres,  *)
(* speeds in units of a control step, times in control steps, all for a    *)
(* control step of 0.04 s (the profile headless_fast).                     *)
(***************************************************************************)
EXTENDS Integers, FiniteSets, Sequences, Functions

CONSTANTS Path,    \* the planned route: [target_id, at, dwell, is_task_target]
          Request, \* [valid, plan_only, terrain_pack, zone, max_steps, auto_extend, cap, evidence]
          MaxNow   \* bound on the control steps of a run

VARIABLES request, pc,
          adapter, position, timestamp,  \* KinematicLocalSimulationAdapter
          run_state, current_node_id, node_state, started_at, finished_at,
          completed_node_count, result, last_reading, commanded, now,  \* TaskExecutor
          summary,
          frames,   \* how many telemetry frames, and the last one's position and state
          files     \* the evidence files written, in their order

executor_vars == <<run_state, current_node_id, node_state, started_at, finished_at,
                   completed_node_count, result, last_reading, commanded, now>>
adapter_vars == <<adapter, position, timestamp>>
vars == <<request, pc, adapter_vars, executor_vars, summary, frames, files>>

-----------------------------------------------------------------------------
(* make_task_graph: a move for each entry of the path, a dwell behind the  *)
(* task targets that have one, a stop at the end.                          *)
Entries == DOMAIN Path
HasDwell(i) == Path[i].is_task_target /\ Path[i].dwell > 0
StopNode == <<"stop", 0>>
Nowhere == <<"none", 0>>
Node == {<<"move", i>> : i \in Entries} \cup {<<"dwell", i>> : i \in {j \in Entries : HasDwell(j)}}
          \cup {StopNode}

NodeType ==
  [n \in Node |-> CASE n[1] = "dwell" -> "Dwell"
                    [] n[1] = "stop" -> "Stop"
                    [] n = <<"move", 1>> /\ Path[1].is_task_target
                         /\ Path[1].target_id = "platform" -> "ReturnHome"
                    [] OTHER -> "MoveTo"]

MoveAfter(i) == IF i = Len(Path) THEN StopNode ELSE <<"move", i + 1>>
Succ ==
  [n \in Node |-> IF n = StopNode THEN Nowhere
                  ELSE IF n[1] = "move" /\ HasDwell(n[2]) THEN <<"dwell", n[2]>>
                  ELSE MoveAfter(n[2])]

(* find_waypoint and find_target: the first entry of that name, so a place *)
(* that is visited again is dwelt at for as long as the first time.        *)
FirstOf(i) == CHOOSE j \in Entries : /\ Path[j].target_id = Path[i].target_id
                                     /\ \A k \in 1..j - 1 : Path[k].target_id # Path[i].target_id
Target(n) == Path[FirstOf(n[2])]

Nominal == [state_ok |-> TRUE, observe_ok |-> TRUE, policy_ok |-> TRUE, step_ok |-> TRUE,
            stability |-> "Stable", risk |-> "low", reached |-> FALSE, over_limit |-> FALSE,
            observed |-> TRUE, obstacle |-> "none", in_zone |-> FALSE,
            require_observation |-> TRUE, emergency_stop |-> FALSE,
            manual_override |-> FALSE, override |-> "Pause"]

Executor == INSTANCE TaskExecutor WITH
  Id <- Node, NoNode <- Nowhere, Entry <- <<"move", 1>>,
  HasTarget <- Node \ {StopNode}, Dwell <- [n \in Node |-> IF n = StopNode THEN 0 ELSE Target(n).dwell],
  Reading <- {[Nominal EXCEPT !.reached = f[1], !.in_zone = f[2]] : f \in BOOLEAN \X BOOLEAN},
  LimitsValid <- TRUE, AllowJointCommands <- FALSE

-----------------------------------------------------------------------------
(* The step budget.                                                        *)
Larger(a, b) == IF a > b THEN a ELSE b
Smaller(a, b) == IF a < b THEN a ELSE b
Distance(a, b) == IF a < b THEN b - a ELSE a - b
SumOver(f(_)) == SumFunction([i \in DOMAIN Path |-> f(i)])

ConservativeSpeed == 640
RouteLength ==
  LET leg(i) == Distance(IF i = 1 THEN 0 ELSE Path[i - 1].at, Path[i].at) IN SumOver(leg)
DwellSteps == LET dwell(i) == IF HasDwell(i) THEN Path[i].dwell ELSE 0 IN SumOver(dwell)
TransitSteps == (RouteLength + ConservativeSpeed - 1) \div ConservativeSpeed

(* The dwells are left to the stabilisation steps. *)
EstimateWithoutDwell == Larger(1, TransitSteps + 16 * Len(Path))

estimate_required_step_count == Larger(1, TransitSteps + DwellSteps + 16 * Len(Path))

(* The extension is cut at the cap even below what was asked for. *)
LimitCutBelow ==
  IF ~request.auto_extend THEN request.max_steps
  ELSE Smaller(Larger(request.max_steps, estimate_required_step_count), request.cap)

effective_step_limit ==
  IF ~request.auto_extend THEN request.max_steps
  ELSE Smaller(Larger(request.max_steps, estimate_required_step_count),
               Larger(request.max_steps, request.cap))

-----------------------------------------------------------------------------
(* The adapter and what the executor reads from it.                        *)
terrain_class ==
  IF request.terrain_pack # "mixed" THEN request.terrain_pack
  ELSE IF position < 75000 THEN "flat"
  ELSE IF position < 150000 THEN "gravel"
  ELSE IF position < 225000 THEN "slope" ELSE "low_friction"

terrain_speed_limit == [flat |-> 2200, slope |-> 1400, gravel |-> 1200, stairs |-> 880,
                        low_friction |-> 720, unknown |-> 1000]
terrain_progress_scale == [flat |-> 100, slope |-> 78, gravel |-> 86, stairs |-> 62,
                           low_friction |-> 55, unknown |-> 70]

Tolerance == 15000
SlowDownRadius == 75000

(* The path tracker slows down near its target, to a fifth at the least.   *)
command_speed(d) ==
  (terrain_speed_limit[terrain_class]
     * Larger(SlowDownRadius \div 5, Smaller(d, SlowDownRadius))) \div SlowDownRadius

gait_progress_scale(speed) ==
  IF speed < 140 THEN 0
  ELSE IF terrain_class \in {"stairs", "low_friction"} \/ speed < 480 THEN 72
  ELSE IF terrain_class = "flat" THEN 100 ELSE 86

Advance(d) ==
  LET speed == command_speed(d)
  IN (speed * terrain_progress_scale[terrain_class] * gait_progress_scale(speed)) \div 10000

InZone == request.zone[1] <= position /\ position <= request.zone[2]
TargetDistance == Distance(position, Target(current_node_id).at)
Met ==
  [Nominal EXCEPT !.in_zone = InZone,
                  !.reached = current_node_id # StopNode /\ TargetDistance <= Tolerance]

(* step: only a velocity moves the robot; every action takes a step's time. *)
AdapterSteps ==
  /\ timestamp' = IF result'.stepped THEN timestamp + 1 ELSE timestamp
  /\ position' =
       IF ~(result'.stepped /\ commanded' = "BodyVelocity") THEN position
       ELSE IF position < Target(current_node_id).at THEN position + Advance(TargetDistance)
       ELSE position - Advance(TargetDistance)
  /\ UNCHANGED adapter

-----------------------------------------------------------------------------
(* fill_summary_from_snapshot and fill_route_from_snapshot, of the state   *)
(* after a step or a start.                                                *)
TaskTargets == {i \in Entries : Path[i].is_task_target}
ReachedTargets ==
  {i \in Entries : node_state'[<<"move", i>>] = "Succeeded" /\ Path[FirstOf(i)].is_task_target}

Summarized(executed, stepped, recorded) ==
  [state |-> run_state', sim_time |-> timestamp', base_position |-> position',
   executed_step_count |-> executed, adapter_step_count |-> stepped, safety_events |-> recorded,
   reached_target_count |-> Cardinality(ReachedTargets),
   route_completed |-> Cardinality(ReachedTargets) >= Cardinality(TaskTargets)
                         /\ run_state' = "Succeeded"]

Frame(n, s) == [count |-> n, base_position |-> s.base_position, state |-> s.state]
NoSummary == [state |-> "none", sim_time |-> 0, base_position |-> 0, executed_step_count |-> 0,
              adapter_step_count |-> 0, safety_events |-> 0, reached_target_count |-> 0,
              route_completed |-> FALSE]

Init ==
  /\ request \in Request /\ pc = "begin"
  /\ adapter = "Created" /\ position = 0 /\ timestamp = 0
  /\ Executor!Init /\ now = 0
  /\ summary = NoSummary /\ frames = Frame(0, NoSummary) /\ files = <<>>

(* An empty run id, a step limit below one, an unknown profile, a route    *)
(* that cannot be planned.                                                 *)
Refuses ==
  /\ pc = "begin" /\ ~request.valid /\ pc' = "failure"
  /\ UNCHANGED <<request, adapter_vars, executor_vars, summary, frames, files>>

(* plan_local_task: nothing is executed.                                   *)
Plans ==
  /\ pc = "begin" /\ request.valid /\ request.plan_only
  /\ summary' = [NoSummary EXCEPT !.state = "planned"] /\ pc' = "success"
  /\ UNCHANGED <<request, adapter_vars, executor_vars, frames, files>>

(* prepare_local_adapter, start() and the first telemetry frame.           *)
Begins ==
  /\ pc = "begin" /\ request.valid /\ ~request.plan_only
  /\ adapter' = "Running" /\ position' = 0 /\ timestamp' = 0
  /\ Executor!Start(0)
  /\ summary' = Summarized(0, 0, 0) /\ frames' = Frame(1, summary') /\ pc' = "steps"
  /\ UNCHANGED <<request, files>>

(* run_control_steps                                                       *)
Looping == pc = "steps" /\ now < effective_step_limit /\ run_state = "Running"
Steps ==
  /\ Looping
  /\ Executor!StepOnce(Met, now + 1) /\ AdapterSteps
  /\ summary' = Summarized(summary.executed_step_count + (IF result'.invoked THEN 1 ELSE 0),
                           summary.adapter_step_count + (IF result'.stepped THEN 1 ELSE 0),
                           summary.safety_events
                             + (IF result'.evaluation.event # "None" THEN 1 ELSE 0))
  /\ frames' = Frame(frames.count + 1, summary')
  /\ UNCHANGED <<request, pc, files>>

(* pin_completed_summary_to_final_target: the position that a completed    *)
(* run reports, in its last frame too, is the one of its last task target. *)
Final == CHOOSE i \in TaskTargets : \A j \in TaskTargets : j <= i
PinnedToFinal ==
  IF summary.route_completed THEN [summary EXCEPT !.base_position = Path[Final].at] ELSE summary

(* The loop is over: the summary is pinned and the adapter closed before   *)
(* any evidence is written.                                                *)
Concludes ==
  /\ pc = "steps" /\ ~Looping
  /\ summary' = PinnedToFinal
  /\ frames' = [frames EXCEPT !.base_position = summary'.base_position]
  /\ adapter' = "Stopped"
  /\ pc' = IF request.evidence THEN "evidence" ELSE "success"
  /\ UNCHANGED <<request, position, timestamp, executor_vars, files>>

(* write_replay_evidence: five files one after the other; the bundle names *)
(* the other four.  One that cannot be opened ends the run in a failure,   *)
(* and those before it stay.                                               *)
EvidenceFiles == <<"segment", "manifest", "telemetry", "audit", "bundle">>
Writes ==
  /\ pc = "evidence"
  /\ \/ /\ files' = Append(files, EvidenceFiles[Len(files) + 1])
        /\ pc' = IF Len(files') = Len(EvidenceFiles) THEN "success" ELSE pc
     \/ pc' = "failure" /\ UNCHANGED files
  /\ UNCHANGED <<request, adapter_vars, executor_vars, summary, frames>>

Next == Refuses \/ Plans \/ Begins \/ Steps \/ Concludes \/ Writes

Spec == Init /\ [][Next]_vars

-----------------------------------------------------------------------------
(* PROPERTIES *)

(* Every variable has its type.                                            *)
TypeOK ==
  /\ pc \in {"begin", "steps", "evidence", "success", "failure"}
  /\ adapter \in {"Created", "Running", "Stopped"} /\ position \in Int /\ timestamp \in Nat
  /\ Executor!TypeOK /\ summary.safety_events \in Nat /\ files \in Seq(Range(EvidenceFiles))

Answered == pc = "success" /\ ~request.plan_only
ClearWay == request.zone = <<1, 0>>

(* What the run answers is what happened: it is completed exactly if the   *)
(* executor succeeded, and then all task targets are counted and the robot *)
(* is where the summary says, within the tolerance; a run still running    *)
(* has used up its budget, which is not less than what was asked for; each *)
(* step has its frame; no control step failed, and the adapter is closed.  *)
SummaryTells ==
  /\ result.ok
  /\ Answered =>
       /\ summary.route_completed <=> run_state = "Succeeded"
       /\ summary.route_completed =>
            /\ summary.reached_target_count = Cardinality(TaskTargets)
            /\ Distance(summary.base_position, position) <= Tolerance
       /\ ~summary.route_completed => /\ summary.state = "Running" /\ now >= request.max_steps
                                      /\ now = effective_step_limit
       /\ frames = Frame(now + 1, summary)
       /\ adapter = "Stopped"

(* A robot that dwells, and one that has nowhere left to go, stands within *)
(* the tolerance of the place the graph says it is at; on a clear way no   *)
(* safety event is raised, and in a zone the robot stops within a step.    *)
StandsAtItsTarget ==
  /\ current_node_id[1] = "dwell" => TargetDistance <= Tolerance
  /\ run_state = "Succeeded" => Distance(position, Path[Len(Path)].at) <= Tolerance
  /\ ClearWay => summary.safety_events = 0
  /\ ~ClearWay => position <= request.zone[1] + terrain_speed_limit["flat"]

(* On flat ground, or where slow ground is a short part of the way, the    *)
(* budget of an extended run suffices, unless it is cut at the cap.        *)
Extended == request.auto_extend /\ effective_step_limit >= estimate_required_step_count
Completes(terrains) ==
  Answered /\ Extended /\ ClearWay /\ request.terrain_pack \in terrains => summary.route_completed
FlatRunCompletes == Completes({"flat", "mixed"})

(* The bundle stands for a complete set of files.                          *)
BundleNamesFiles == "bundle" \in Range(files) => Len(files) = Len(EvidenceFiles)

(* The comment at the estimate calls it intentionally conservative because *)
(* of ground that is not flat, and the documentation of the extension says *)
(* that it makes sure the whole route is run: a run that was given it      *)
(* completes its route on any ground.                                      *)
BudgetSuffices == Completes(DOMAIN terrain_speed_limit \cup {"mixed"})
=============================================================================
