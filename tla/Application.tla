------------------------------ MODULE Application ------------------------------
(***************************************************************************)
(* The parts of the application that share no state, side by side, for any *)
(* tasks, scenes, jobs, records, policies, routes and requests: in a       *)
(* behaviour one part moves.  The requests to the facade (ApiRequests) are *)
(* extended and the parts behind it instantiated, some with the theorems   *)
(* about them; variables and constants of the same name have a prefix.     *)
(***************************************************************************)
EXTENDS ApiRequests, Sequences

CONSTANTS
  Task, TaskGoal,                                          \* TaskLifecycle, TaskOrchestrator
  Version, Seeded,                                         \* SceneCatalog
  Job, MaxIterations,                                      \* TrainingJobs
  Caller, RecordKey, Value, Name, Artifact, Unique,
  MaxAppends,                                              \* Repository
  Policy, Evaluation, Decision, MaxApprovals,              \* PolicyGovernance
  RunMission, RunRequest, RunSpeed, MaxRunSteps,           \* SimulationRun
  SceneProfile, Profile, MaxBackendSteps,                  \* SimulationBackend
  Submission,                                              \* TaskOrchestrator
  Window, WindowPath, WindowSteps, Threshold, MaxCommands, \* PresentationWindow
  LocalPath, LocalRequest, MaxLocalSteps,                  \* LocalRun
  Text, SceneAssets, WaypointOrder, Digits, Numerals,
  MaxGap                                                   \* TaskParser

ASSUME ApplicationAssumption ==
  /\ MaxApprovals \in Nat /\ MaxIterations \in Nat
  /\ WindowPath \subseteq Seq(Int) /\ WindowSteps \subseteq Nat /\ Threshold \in Nat

VARIABLE part \* the part that moves

-----------------------------------------------------------------------------
VARIABLES task, events, control, task_request, worker, was, runs, task_shared, cut, task_crashes
task_vars == <<task, events, control, task_request, worker, was, runs, task_shared, cut,
               task_crashes>>

(* The tasks of the two services, and beside them what becomes of texts    *)
(* (Tasks!Parser) and of submissions (Tasks!Orchestrator).                 *)
VARIABLES source_text, assets, parser_pc, draft, graph, sessions
parser_vars == <<source_text, assets, parser_pc, draft, graph>>
Tasks == INSTANCE TaskLifecycle_proofs WITH
  Goal <- TaskGoal, request <- task_request, shared <- task_shared, crashes <- task_crashes

(* The scene catalog over the SQLite repository and over the one in memory. *)
VARIABLES scene, scene_request, overlapped, scene_crashes
scene_vars == <<scene, scene_request, overlapped, scene_crashes>>
IndexedScenes == INSTANCE SceneCatalog_proofs WITH
  Unique <- TRUE, request <- scene_request, crashes <- scene_crashes
Scenes == INSTANCE SceneCatalog_proofs WITH
  Unique <- FALSE, request <- scene_request, crashes <- scene_crashes

VARIABLES job, registered, job_request, finished, job_shared, job_crashes
training_vars == <<job, registered, job_request, finished, job_shared, job_crashes>>
Training == INSTANCE TrainingJobs WITH
  request <- job_request, shared <- job_shared, crashes <- job_crashes

VARIABLES table, entries, artifact, work, holder, call, store, temporary, store_crashes
storage_vars == <<table, entries, artifact, work, holder, call, store, temporary, store_crashes>>
Storage == INSTANCE Repository_proofs WITH Key <- RecordKey, crashes <- store_crashes

(* One request at a time, in the repository without index.                 *)
VARIABLES policy, gate_passed, report, approvals, policy_request, made, evaluated
governance_vars == <<policy, gate_passed, report, approvals, policy_request, made, evaluated>>
LoneRequest == {CHOOSE r \in Request : TRUE}
Governance == INSTANCE PolicyGovernance_proofs WITH
  Unique <- FALSE, Request <- LoneRequest, request <- policy_request

VARIABLES run_mission, run_request, run_pc, adapter, route_index, dwell_remaining,
          reached_targets, dwelled_targets, route_completed, distance, near, executed_steps,
          held, met
simulation_vars == <<run_mission, run_request, run_pc, adapter, route_index, dwell_remaining,
                     reached_targets, dwelled_targets, route_completed, distance, near,
                     executed_steps, held, met>>
Simulation == INSTANCE SimulationRun WITH
  Mission <- RunMission, Request <- RunRequest, Speed <- RunSpeed, MaxSteps <- MaxRunSteps,
  mission <- run_mission, request <- run_request, pc <- run_pc

VARIABLES backend, command_dir, state, profile, backend_scene, model, viewer, position,
          velocity, commands, last_output, ok, begun, walked
backend_vars == <<backend, command_dir, state, profile, backend_scene, model, viewer, position,
                  velocity, commands, last_output, ok, begun, walked>>
Backends == INSTANCE SimulationBackend WITH
  MaxSteps <- MaxBackendSteps, scene <- backend_scene

VARIABLES window, pending, sent, frame, listed, active_targets, active_target_index,
          active_remaining_steps, active_forward, window_position, last, passed
window_vars == <<window, pending, sent, frame, listed, active_targets, active_target_index,
                 active_remaining_steps, active_forward, window_position, last, passed>>
Windows == INSTANCE PresentationWindow WITH
  Path <- WindowPath, StepCount <- WindowSteps, position <- window_position

VARIABLES local_request, local_pc, local_adapter, local_position, timestamp, run_state,
          current_node_id, node_state, started_at, finished_at, completed_node_count, result,
          last_reading, commanded, now, summary, frames, files
local_vars == <<local_request, local_pc, local_adapter, local_position, timestamp, run_state,
                current_node_id, node_state, started_at, finished_at, completed_node_count,
                result, last_reading, commanded, now, summary, frames, files>>
Local == INSTANCE LocalRun WITH
  Path <- LocalPath, Request <- LocalRequest, MaxNow <- MaxLocalSteps,
  request <- local_request, pc <- local_pc, adapter <- local_adapter, position <- local_position

(* Scenes and planned routes are so that they can be measured: obstacles   *)
(* have a shape, a place and an extent, and a scene is not the absence of  *)
(* one.                                                                    *)
ASSUME ScenesMeasure ==
  /\ Backends!None \notin SceneProfile
  /\ \A s \in SceneProfile : s.obstacles \in Seq(Backends!Obstacle)

(* The targets of a mission are numbered along its route: b[i] of them lie *)
(* before waypoint i.                                                      *)
Numbering(m) ==
  {b \in [1..Len(m.route) + 1 -> 0..Len(m.dwell)] :
     /\ b[1] = 0 /\ b[Len(m.route) + 1] = Len(m.dwell)
     /\ \A i \in 1..Len(m.route) :
          IF m.route[i].is_mission_target
          THEN m.route[i].target = b[i] + 1 /\ b[i + 1] = b[i] + 1 /\ b[i] < Len(m.dwell)
          ELSE b[i + 1] = b[i]}

(* Routes have legs, a dwell for every target and such a numbering: they   *)
(* are so that plan_task_route returns, unless two targets in a row lie at *)
(* one place, of which it drops the first.                                 *)
ASSUME RoutesFit ==
  /\ RunSpeed \in Nat \ {0} /\ MaxRunSteps \in Nat
  /\ \A r \in RunRequest : r.step_count \in Nat
  /\ \A m \in RunMission :
       /\ m.dwell \in Seq(Nat) /\ Len(m.route) \in Nat \ {0} /\ Numbering(m) # {}
       /\ \A i \in 1..Len(m.route) : m.route[i].length \in Nat

(* A planned path ends at a target, and its entries of one name lie at one *)
(* place and are of one kind.                                              *)
ASSUME PathFits ==
  /\ Len(LocalPath) \in Nat \ {0} /\ DOMAIN LocalPath = 1..Len(LocalPath)
  /\ \A i \in DOMAIN LocalPath : /\ LocalPath[i].at \in Int /\ LocalPath[i].dwell \in Nat
                                 /\ LocalPath[i].is_task_target \in BOOLEAN
  /\ LocalPath[Len(LocalPath)].is_task_target
  /\ \A i, j \in DOMAIN LocalPath : LocalPath[i].target_id = LocalPath[j].target_id =>
       /\ LocalPath[i].at = LocalPath[j].at
       /\ LocalPath[i].is_task_target = LocalPath[j].is_task_target

(* Step limits are within the bound, and a zone, if there is one, is not   *)
(* shorter than a step of the robot.                                       *)
ASSUME LocalFits ==
  /\ MaxLocalSteps \in Nat /\ Local!estimate_required_step_count \in Nat
  /\ \A r \in LocalRequest :
       /\ r.max_steps \in 0..MaxLocalSteps /\ r.cap \in 0..MaxLocalSteps
       /\ r.terrain_pack \in DOMAIN Local!terrain_speed_limit \cup {"mixed"}
       /\ \/ r.zone = <<1, 0>>
          \/ /\ r.zone[1] \in Nat /\ r.zone[2] \in Int
             /\ r.zone[1] + Local!terrain_speed_limit["flat"] <= r.zone[2]

(* Scripts and candidates are rows, texts are made of words, and every     *)
(* waypoint of a catalog has a place in the order of ids.                  *)
ASSUME TextsAndSubmissionsFit == Tasks!TextsFit /\ Tasks!SubmissionsFit

-----------------------------------------------------------------------------
facade_vars == vars

AppInit ==
  /\ Init /\ Tasks!Init /\ Tasks!Orchestrator!Init /\ Scenes!Init /\ Training!Init /\ Storage!Init
  /\ Governance!Init /\ Simulation!Init /\ Backends!Init /\ Windows!Init /\ Local!Init
  /\ Tasks!Parser!Init

app_vars == <<part, facade_vars, task_vars, sessions, scene_vars, training_vars, storage_vars,
              governance_vars, simulation_vars, backend_vars, window_vars, local_vars, parser_vars>>

Moves(p) == part = p /\ UNCHANGED part

AppNext ==
  \/ /\ Moves("api") /\ Next
     /\ UNCHANGED <<task_vars, sessions, scene_vars, training_vars, storage_vars,
                    governance_vars, simulation_vars, backend_vars, window_vars, local_vars,
                    parser_vars>>
  \/ /\ Moves("tasks") /\ Tasks!Next
     /\ UNCHANGED <<facade_vars, sessions, scene_vars, training_vars, storage_vars,
                    governance_vars, simulation_vars, backend_vars, window_vars, local_vars,
                    parser_vars>>
  \/ /\ Moves("orchestrator") /\ Tasks!Orchestrator!Next
     /\ UNCHANGED <<facade_vars, task_vars, scene_vars, training_vars, storage_vars,
                    governance_vars, simulation_vars, backend_vars, window_vars, local_vars,
                    parser_vars>>
  \/ /\ \/ Moves("scenes") /\ Scenes!Next
        \/ Moves("indexed_scenes") /\ IndexedScenes!Next
     /\ UNCHANGED <<facade_vars, task_vars, sessions, training_vars, storage_vars,
                    governance_vars, simulation_vars, backend_vars, window_vars, local_vars,
                    parser_vars>>
  \/ /\ Moves("training") /\ Training!Next
     /\ UNCHANGED <<facade_vars, task_vars, sessions, scene_vars, storage_vars,
                    governance_vars, simulation_vars, backend_vars, window_vars, local_vars,
                    parser_vars>>
  \/ /\ Moves("storage") /\ Storage!Next
     /\ UNCHANGED <<facade_vars, task_vars, sessions, scene_vars, training_vars,
                    governance_vars, simulation_vars, backend_vars, window_vars, local_vars,
                    parser_vars>>
  \/ /\ Moves("governance") /\ Governance!Next
     /\ UNCHANGED <<facade_vars, task_vars, sessions, scene_vars, training_vars, storage_vars,
                    simulation_vars, backend_vars, window_vars, local_vars, parser_vars>>
  \/ /\ Moves("simulation") /\ Simulation!Next
     /\ UNCHANGED <<facade_vars, task_vars, sessions, scene_vars, training_vars, storage_vars,
                    governance_vars, backend_vars, window_vars, local_vars, parser_vars>>
  \/ /\ Moves("backends") /\ Backends!Next
     /\ UNCHANGED <<facade_vars, task_vars, sessions, scene_vars, training_vars, storage_vars,
                    governance_vars, simulation_vars, window_vars, local_vars, parser_vars>>
  \/ /\ Moves("windows") /\ Windows!Next
     /\ UNCHANGED <<facade_vars, task_vars, sessions, scene_vars, training_vars, storage_vars,
                    governance_vars, simulation_vars, backend_vars, local_vars, parser_vars>>
  \/ /\ Moves("local") /\ Local!Next
     /\ UNCHANGED <<facade_vars, task_vars, sessions, scene_vars, training_vars, storage_vars,
                    governance_vars, simulation_vars, backend_vars, window_vars, parser_vars>>
  \/ /\ Moves("parser") /\ Tasks!Parser!Next
     /\ UNCHANGED <<facade_vars, task_vars, sessions, scene_vars, training_vars, storage_vars,
                    governance_vars, simulation_vars, backend_vars, window_vars, local_vars>>

AppSpec == AppInit /\ [][AppNext]_app_vars /\ Tasks!Fairness

-----------------------------------------------------------------------------
(* PROPERTIES: those of the parts, besides those of ApiRequests.           *)

(* Every variable of these parts has its type.                             *)
PartsTypeOK ==
  /\ TypeOK /\ Tasks!TypeOK /\ Tasks!Orchestrator!TypeOK /\ Scenes!TypeOK /\ Training!TypeOK
  /\ Storage!TypeOK /\ Governance!TypeOK /\ Simulation!TypeOK /\ Backends!TypeOK
  /\ Windows!TypeOK /\ Local!TypeOK

(* What runs was confirmed and handed off, a task without overlapping      *)
(* requests runs once, and its cancellation is final; so it is for the     *)
(* sessions of the C++ service, submitted again or not.                    *)
LoneTaskRunsOnce == Tasks!LoneTaskRunsOnce /\ Tasks!Orchestrator!SessionTells

(* The events of a task tell its states.                                   *)
EventsTellStates == Tasks!EventsTellStates

(* An accepted run is given its result, unless a crash cuts it off.        *)
AcceptedRunEnds == Tasks!AcceptedRunEnds

(* One scene version is the baseline, and a valid one, with the index and  *)
(* without.                                                                *)
SceneBaseline ==
  /\ part = "indexed_scenes" => IndexedScenes!SceneBaseline
  /\ part = "scenes" => Scenes!SceneBaseline

(* A trained policy comes from a job that succeeded, and each such job has *)
(* left one; a job's end is final and its iteration only grows.            *)
TrainingTells == []Training!TrainedPoliciesTell /\ Training!LoneJobGoesForward

(* The repository and its object store implement atomic calls.             *)
KeepsItsPromise == Storage!KeepsItsPromise

(* When requests came one at a time and none is under way, gate stages and *)
(* gate flags agree, and one baseline at most is current, without index.   *)
StagesAgree == Governance!StagesAgree

(* Whatever drifts, stops and comes back, the controller reaches and       *)
(* dwells at the targets in their order.  The robot of a local run stands  *)
(* where its graph says, and what that run answers and leaves in files is  *)
(* what happened.                                                          *)
RouteIsWalked ==
  /\ Simulation!RouteIsWalked
  /\ Local!StandsAtItsTarget /\ Local!SummaryTells /\ Local!BundleNamesFiles

(* The step budget of a run suffices, and every run closes its backend.    *)
RunEndsWell == Simulation!RunEndsWell

(* Every mention of a waypoint in a text is passed by the task graph, and  *)
(* no text that names a low-level action has one; nor does a submission    *)
(* whose script the scene does not know, and none runs a policy that is    *)
(* not published.                                                          *)
TextBecomesRoute == Tasks!Parser!TextBecomesRoute /\ Tasks!Orchestrator!GraphIsSound

(* A backend runs in the scene it was reset in and moves by accepted steps *)
(* only, which Webots is given at the close; the distance it tells of the  *)
(* scene's obstacles is not too long, but for cylinders higher or lower    *)
(* than the robot's base.                                                  *)
BackendObeys == []Backends!ObservesItsRun /\ Backends!MovesByAcceptedSteps

(* A window follows the command it took last.                              *)
WindowObeys == Windows!WindowObeys
=============================================================================
