----------------------------- MODULE SimulationRun -----------------------------
(***************************************************************************)
(* The bounded simulation behind a handoff: the runner brings a backend    *)
(* from created to running, and in each step observes, lets the task path  *)
(* controller (or the obstacle check) choose an action, and has the        *)
(* backend take it.  The planned route is a sequence of waypoints, each so *)
(* many units from the one before; the robot is known by its distance to   *)
(* the waypoint it is heading for.  The minimal and the Webots backend     *)
(* move it exactly as commanded, MuJoCo's physics does not.                *)
(***************************************************************************)
EXTENDS Integers, Sequences

CONSTANTS Mission,  \* routes, with the dwell steps of their targets
          Request,  \* the backend, the steps, and whether they may be extended
          Speed,    \* units of a control step
          MaxSteps  \* _MAX_AUTO_EXTENDED_STEPS

VARIABLES mission, request,
          pc,
          adapter,         \* the backend's life cycle
          route_index, dwell_remaining, reached_targets, dwelled_targets, route_completed,
          distance,        \* to the waypoint of route_index
          near,            \* is an obstacle within the replan distance
          executed_steps,
          held,            \* history: hold steps at each target
          met              \* history: was an obstacle ever near

vars == <<mission, request, pc, adapter, route_index, dwell_remaining, reached_targets,
          dwelled_targets, route_completed, distance, near, executed_steps, held, met>>
input == <<mission, request>>
backend == request.backend
controller == <<route_index, dwell_remaining, reached_targets, dwelled_targets, route_completed,
                held>>
world == <<distance, near, met>>

AdapterState == {"created", "initialized", "scene_loaded", "running", "stopped", "error"}

Route == mission.route
Targets == DOMAIN mission.dwell

Init ==
  /\ mission \in Mission /\ request \in Request
  /\ pc = "initialize" /\ adapter = "created"
  /\ route_index = 1 /\ dwell_remaining = 0 /\ reached_targets = <<>> /\ dwelled_targets = {}
  /\ route_completed = FALSE /\ held = [t \in Targets |-> 0]
  /\ distance = Route[1].length /\ near = FALSE /\ met = FALSE /\ executed_steps = 0

-----------------------------------------------------------------------------
(* The backends.                                                           *)
Exact == backend \in {"minimal", "webots"}

(* What may fail: a Webots that is not installed, MuJoCo's library and the *)
(* scene compiled for it.                                                  *)
MayFail(call) == \/ call = "initialize" /\ backend # "minimal"
                 \/ call \in {"load_scene", "step"} /\ backend = "mujoco"

Fails(call) ==
  /\ MayFail(call) /\ pc' = "raised"
  /\ adapter' = IF call = "initialize" THEN "error" ELSE adapter
  /\ UNCHANGED <<input, controller, world, executed_steps>>

Initializes ==
  /\ pc = "initialize"
  /\ \/ Fails("initialize")
     \/ /\ pc' = "load" /\ adapter' = "initialized"
        /\ UNCHANGED <<input, controller, world, executed_steps>>

LoadsScene ==
  /\ pc = "load"
  /\ \/ Fails("load_scene")
     \/ /\ pc' = "reset" /\ adapter' = "scene_loaded"
        /\ UNCHANGED <<input, controller, world, executed_steps>>

Resets ==
  /\ pc = "reset" /\ adapter = "scene_loaded" /\ adapter' = "running" /\ pc' = "loop"
  /\ near' \in BOOLEAN /\ met' = near'
  /\ UNCHANGED <<input, controller, distance, executed_steps>>

(* The distance that a step leaves to a waypoint now d away, and what the  *)
(* sensor says there.                                                      *)
Moved(d) == IF d > Speed THEN d - Speed ELSE 0
StepMoves(d) ==
  /\ distance' \in IF Exact THEN {Moved(d)} ELSE {Moved(d), d, d + 1}
  /\ near' \in BOOLEAN /\ met' = (met \/ near')
StepHolds(d) ==
  /\ distance' \in IF Exact THEN {d} ELSE {d, d + 1}
  /\ near' \in IF Exact THEN {near} ELSE BOOLEAN
  /\ met' = (met \/ near')

(* close: running the Webots world may fail, and nobody asks.              *)
Closed == {"stopped"} \cup IF backend = "webots" THEN {"error"} ELSE {}

-----------------------------------------------------------------------------
Larger(a, b) == IF a > b THEN a ELSE b

(* _estimated_required_step_count: the loop over the waypoints adds up.    *)
UpTo(s) ==
  LET total[n \in 0..Len(s)] == IF n = 0 THEN 0 ELSE total[n - 1] + s[n] IN total
SumOf(s) == UpTo(s)[Len(s)]
Legs == [i \in 1..Len(Route) |-> Route[i].length]
DetourPoints == SumOf([i \in 1..Len(Route) |-> IF Route[i].is_mission_target THEN 0 ELSE 1])
Slack == Larger(40, Len(mission.dwell) * 40 + DetourPoints * 8)
MotionSteps == (SumOf(Legs) + Speed - 1) \div Speed
DwellSteps == SumOf(mission.dwell)

(* The dwell steps are left to the slack. *)
EstimatedMotion == Larger(1, MotionSteps + Slack)
EstimatedSteps == Larger(1, MotionSteps + DwellSteps + Slack)

EffectiveSteps ==
  IF ~request.auto_extend THEN request.step_count
  ELSE LET wanted == Larger(request.step_count, EstimatedSteps)
       IN IF wanted < MaxSteps THEN wanted ELSE MaxSteps

-----------------------------------------------------------------------------
(* The task path controller.                                               *)
Waypoint == Route[route_index]
Reached(t) ==
  IF \E i \in DOMAIN reached_targets : reached_targets[i] = t THEN reached_targets
  ELSE Append(reached_targets, t)

(* The platform, when a route begins with it, is passed without a stop.    *)
IsPlatform(w) == w.is_mission_target /\ w.target = 1 /\ mission.starts_at_platform

(* A dwell begins whenever none is under way. *)
DwellAgain(t) == IF dwell_remaining = 0 THEN mission.dwell[t] ELSE dwell_remaining

(* What is left of the dwell at target t, which begins once.               *)
DwellLeft(t) ==
  IF dwell_remaining = 0 /\ t \notin dwelled_targets THEN mission.dwell[t] ELSE dwell_remaining

StepDone ==
  /\ executed_steps' = executed_steps + 1 /\ UNCHANGED <<input, pc, adapter>>

(* The loop runs once more than its bound. *)
LoopingOnceMore == pc = "loop" /\ executed_steps <= EffectiveSteps

Looping == pc = "loop" /\ executed_steps < EffectiveSteps

(* The obstacle check comes before the controller: the robot stops where   *)
(* it is, and the controller does not hear of the step.                    *)
Replans ==
  /\ Looping /\ near
  /\ StepHolds(distance) /\ StepDone /\ UNCHANGED controller

MovesOn ==
  /\ Looping /\ ~near /\ ~route_completed /\ distance > 0
  /\ StepMoves(distance) /\ StepDone /\ UNCHANGED controller

Dwells ==
  /\ Looping /\ ~near /\ ~route_completed /\ distance = 0
  /\ Waypoint.is_mission_target /\ ~IsPlatform(Waypoint) /\ DwellLeft(Waypoint.target) > 0
  /\ LET t == Waypoint.target
     IN /\ reached_targets' = Reached(t) /\ dwelled_targets' = dwelled_targets \cup {t}
        /\ dwell_remaining' = DwellLeft(t) - 1 /\ held' = [held EXCEPT ![t] = @ + 1]
  /\ StepHolds(0) /\ StepDone
  /\ UNCHANGED <<route_index, route_completed>>

(* A waypoint the controller is through with: it goes for the next one in  *)
(* the same step, or holds at the last.                                    *)
Passes ==
  /\ Looping /\ ~near /\ ~route_completed /\ distance = 0
  /\ Waypoint.is_mission_target /\ ~IsPlatform(Waypoint) => DwellLeft(Waypoint.target) = 0
  /\ reached_targets' = IF Waypoint.is_mission_target THEN Reached(Waypoint.target)
                                                      ELSE reached_targets
  /\ route_index' = route_index + 1
  /\ IF route_index = Len(Route) THEN route_completed' = TRUE /\ StepHolds(0)
     ELSE StepMoves(Route[route_index + 1].length) /\ UNCHANGED route_completed
  /\ StepDone
  /\ UNCHANGED <<dwell_remaining, dwelled_targets, held>>

HoldsEnd ==
  /\ Looping /\ ~near /\ route_completed
  /\ StepHolds(distance) /\ StepDone /\ UNCHANGED controller

StepRaises == Looping /\ Fails("step")

Ends ==
  /\ pc = "loop" /\ executed_steps = EffectiveSteps /\ pc' = "summary"
  /\ UNCHANGED <<input, adapter, controller, world, executed_steps>>

(* However the run ends, the backend is closed.                            *)
Closes ==
  /\ pc \in {"summary", "raised"} /\ pc' = IF pc = "summary" THEN "done" ELSE "failed"
  /\ adapter' \in Closed
  /\ UNCHANGED <<input, controller, world, executed_steps>>

Next ==
  \/ Initializes \/ LoadsScene \/ Resets
  \/ Replans \/ MovesOn \/ Dwells \/ Passes \/ HoldsEnd \/ StepRaises
  \/ Ends \/ Closes

Spec == Init /\ [][Next]_vars

-----------------------------------------------------------------------------
(* PROPERTIES *)

(* Every variable has its type.                                            *)
TypeOK ==
  /\ adapter \in AdapterState /\ executed_steps \in 0..EffectiveSteps
  /\ pc \in {"initialize", "load", "reset", "loop", "summary", "raised", "done", "failed"}
  /\ route_index \in 1..Len(Route) + 1 /\ dwell_remaining \in Nat /\ distance \in Nat
  /\ reached_targets \in Seq(Targets) /\ dwelled_targets \subseteq Targets
  /\ route_completed \in BOOLEAN /\ near \in BOOLEAN /\ met \in BOOLEAN
  /\ held \in [Targets -> Nat]

(* Whatever drifts, stops and comes back: the targets are reached in their *)
(* order, each is dwelt at for no more than its steps, and a route that is *)
(* reported as completed has reached and dwelt at all of them, but for the *)
(* platform it began on.                                                   *)
RouteIsWalked ==
  /\ \A i \in DOMAIN reached_targets : reached_targets[i] = i
  /\ \A t \in Targets : held[t] <= mission.dwell[t]
  /\ route_completed =>
       /\ Len(reached_targets) = Len(mission.dwell)
       /\ \A t \in Targets : held[t] = mission.dwell[t] \/ (t = 1 /\ mission.starts_at_platform)

(* A backend that moves as commanded, and meets no obstacle, completes the *)
(* route within the extended steps, unless they are cut at the limit; and  *)
(* every run leaves its backend closed or in error.                        *)
RunEndsWell ==
  /\ pc = "done" /\ Exact /\ ~met /\ request.auto_extend /\ EstimatedSteps <= MaxSteps =>
       route_completed
  /\ pc \in {"done", "failed"} => adapter \in {"stopped", "error"}
=============================================================================
