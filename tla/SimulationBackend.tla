--------------------------- MODULE SimulationBackend ---------------------------
(***************************************************************************)
(* The simulation backends behind SimulationAdapterFacade: minimal, MuJoCo *)
(* and Webots, under calls in any order (SimulationRun is the one caller   *)
(* that keeps an order).  The robot moves along a line, by the velocity of *)
(* its step, at a height of its own; obstacles stand across that line.     *)
(* Lengths are in hundredths of a metre, distances rounded down.           *)
(***************************************************************************)
EXTENDS Integers, Sequences, FiniteSets, FiniteSetsExt

CONSTANTS
  SceneProfile, \* records [terrain_pack, zones, regions, obstacles]
  Profile,      \* runtime profiles: [known |-> , render_mode |-> ]
  MaxSteps      \* bound: steps of one run

Backend == {"minimal", "mujoco", "webots"}
AdapterState == {"created", "initialized", "scene_loaded", "running", "stopped", "error"}
None == [none |-> TRUE]
Base == [base |-> TRUE]
Speed == 1

SafeAction ==
  [action_type : {"body_velocity", "stop", "safe_stand", "replan", "joint_position"},
   decision : {"accepted", "rejected", "emergency_stop", "safe_stand"}]

VARIABLES
  backend,      \* the class behind the facade
  command_dir,  \* Webots was given a command directory
  state,        \* _state
  profile,      \* _runtime_profile (and _config), None before initialize()
  scene,        \* _scene, _scene_profile
  model,        \* the scene MuJoCo's model was built from: None, Base or a scene
  viewer,       \* MuJoCo's viewer: closed, of the present model, or of an older one
  position,     \* _position, qpos
  velocity,     \* _last_linear_velocity, qvel
  commands,     \* _commands: one frame per step
  last_output,  \* _last_output: what the last Webots process was given
  ok,           \* the answer of the last call
  begun,        \* the scene in force at the last reset
  walked        \* the velocities of the steps accepted since

vars == <<backend, command_dir, state, profile, scene, model, viewer, position, velocity,
          commands, last_output, ok, begun, walked>>

Init ==
  /\ backend \in Backend
  /\ command_dir \in BOOLEAN
  /\ backend # "webots" => ~command_dir
  /\ state = "created"
  /\ profile = None /\ scene = None /\ model = None /\ viewer = "closed"
  /\ position = 0 /\ velocity = 0 /\ commands = <<>> /\ last_output = None
  /\ ok = TRUE
  /\ begun = None /\ walked = <<>>

-----------------------------------------------------------------------------
(* What the robot observes.                                                *)
Within(x, interval) == interval[1] <= x /\ x <= interval[2]

classify_terrain(s, x) ==
  CASE s = None -> "flat"
    [] s # None /\ s.terrain_pack # "mixed" -> s.terrain_pack
    [] s # None /\ s.terrain_pack = "mixed" /\ \E z \in s.zones : Within(x, z) -> "low_friction"
    [] OTHER ->
       LET inside == SelectSeq(s.regions, LAMBDA r : Within(x, r.extent))
       IN IF inside = <<>> THEN "flat" ELSE Head(inside).terrain_class

Abs(x) == IF x < 0 THEN -x ELSE x

(* The height of a backend's base; MuJoCo's is that of its model.          *)
BaseHeight == [minimal |-> 35, webots |-> 32, mujoco |-> 38]

Root(n) == CHOOSE d \in 0..n : d * d <= n /\ n < (d + 1) * (d + 1)
Norm(dx, dz) == Root(dx * dx + dz * dz)
Positive(d) == IF d > 0 THEN d ELSE 0
Clamp(v, centre, half) ==
  IF v < centre - half THEN centre - half ELSE IF v > centre + half THEN centre + half ELSE v

(* _obstacle_clearance_and_surface: a box is measured from its nearest     *)
(* place, a sphere from its centre, and a cylinder from its axis and, as   *)
(* the code has it, by the height from the robot clamped to it to its own  *)
(* centre.                                                                 *)
Obstacle == [geometry : {"box", "sphere", "cylinder"}, at : Int, half : Nat, z : Int,
             half_height : Nat]
Clearance(o, x, z) ==
  CASE o.geometry = "box" -> Norm(x - Clamp(x, o.at, o.half), z - Clamp(z, o.z, o.half_height))
    [] o.geometry = "sphere" -> Positive(Norm(o.at - x, o.z - z) - o.half)
    [] o.geometry = "cylinder" ->
         Positive(Norm(o.at - x, o.z - Clamp(z, o.z, o.half_height)) - o.half)

(* The obstacle kept by the loop over all of them is one of the nearest    *)
(* by that measure, and its distance is told.                              *)
nearest_obstacle_state(s, x, z) ==
  IF s = None \/ s.obstacles = <<>>
  THEN [obstacle_detected |-> FALSE, nearest_distance |-> 0]
  ELSE [obstacle_detected |-> TRUE,
        nearest_distance |-> Min({Clearance(o, x, z) : o \in Range(s.obstacles)})]

Observable == state \in {"scene_loaded", "running"} /\ (backend = "mujoco" => model # None)

Observation ==
  [position |-> position, velocity |-> velocity,
   terrain_class |-> classify_terrain(scene, position),
   obstacle_state |-> nearest_obstacle_state(scene, position, BaseHeight[backend])]

-----------------------------------------------------------------------------
Fails(end) ==
  /\ ok' = FALSE
  /\ state' = end
  /\ UNCHANGED <<backend, command_dir, profile, scene, model, viewer, position, velocity,
                 commands, last_output, begun, walked>>

(* MuJoCo's own step may carry the base a little further than commanded.   *)
Drift(v) == IF backend = "mujoco" THEN {0, velocity, v} ELSE {0}

(* The minimal backend looks its profile up at every step and falls back   *)
(* to a default; the other two refuse an unknown profile, and a missing    *)
(* Webots or a broken MuJoCo installation.                                 *)
Initialize(p) ==
  \/ /\ backend = "minimal" \/ p.known
     /\ ok' = TRUE
     /\ state' = "initialized"
     /\ profile' = p
     /\ model' = IF backend = "mujoco" THEN Base ELSE model
     /\ viewer' = IF viewer = "open" THEN "stale" ELSE viewer
     /\ IF backend = "mujoco" THEN position' = 0 /\ velocity' = 0
                              ELSE UNCHANGED <<position, velocity>>
     /\ UNCHANGED <<backend, command_dir, scene, commands, last_output, begun, walked>>
  \/ backend # "minimal" /\ Fails("error")

Loads == state \in {"initialized", "scene_loaded", "running", "stopped"}

(* MuJoCo compiles a model of its own for the scene.                       *)
LoadScene(s) ==
  \/ /\ Loads
     /\ backend = "mujoco" => profile # None
     /\ ok' = TRUE
     /\ state' = "scene_loaded"
     /\ scene' = s
     /\ model' = IF backend = "mujoco" THEN s ELSE model
     /\ viewer' = IF viewer = "open" THEN "stale" ELSE viewer
     /\ IF backend = "mujoco" THEN position' = 0 /\ velocity' = 0
                              ELSE UNCHANGED <<position, velocity>>
     /\ UNCHANGED <<backend, command_dir, profile, commands, last_output, begun, walked>>
  \/ ~Loads /\ Fails(state)
  \/ Loads /\ backend = "mujoco" /\ Fails(state)

Shows == backend = "mujoco" /\ profile.render_mode = "viewer"

(* The viewer is launched once: a later run finds it open, on the model it *)
(* was launched with.                                                      *)
Reset ==
  \/ /\ state = "scene_loaded"
     /\ ok' = TRUE
     /\ state' = "running"
     /\ position' = 0 /\ velocity' = 0
     /\ commands' = <<>>
     /\ last_output' = None
     /\ viewer' = IF Shows /\ viewer = "closed" THEN "open" ELSE viewer
     /\ begun' = scene
     /\ walked' = <<>>
     /\ UNCHANGED <<backend, command_dir, profile, scene, model>>
  \/ state # "scene_loaded" /\ Fails(state)
  \/ /\ state = "scene_loaded" /\ Shows /\ viewer = "closed"
     /\ ok' = FALSE
     /\ position' = 0 /\ velocity' = 0
     /\ UNCHANGED <<backend, command_dir, state, profile, scene, model, viewer, commands,
                    last_output, begun, walked>>

(* What the safety shield rejected is mapped by its type all the same. *)
MapsRejected(a) ==
  \/ a.action_type \in {"body_velocity", "stop", "replan", "safe_stand"}
  \/ a.decision \in {"emergency_stop", "safe_stand"}

Maps(a) ==
  /\ a.decision # "rejected"
  /\ \/ a.action_type \in {"body_velocity", "stop", "replan", "safe_stand"}
     \/ a.decision \in {"emergency_stop", "safe_stand"}

(* The velocity of command_from_safe_action(a): the type is looked at      *)
(* before the decision.                                                    *)
Commanded(a) == IF a.action_type = "body_velocity" THEN Speed ELSE 0

Step(a) ==
  \/ /\ state = "running" /\ Maps(a)
     /\ Len(walked) < MaxSteps
     /\ ok' = TRUE
     /\ velocity' = Commanded(a)
     /\ \E drift \in Drift(velocity') : position' = position + velocity' + drift
     /\ commands' = IF backend = "webots" THEN Append(commands, velocity') ELSE commands
     /\ walked' = Append(walked, velocity')
     /\ UNCHANGED <<backend, command_dir, state, profile, scene, model, viewer, last_output,
                    begun>>
  \/ (state # "running" \/ ~Maps(a)) /\ Fails(state)

RunsBundle == backend = "webots" /\ (commands # <<>> \/ command_dir)

(* _run_webots_bundle: the world of the scene in force, and every frame.   *)
Bundle == [scene |-> scene, commands |-> commands]

Close ==
  \/ /\ ok' = TRUE
     /\ state' = "stopped"
     /\ viewer' = "closed"
     /\ last_output' \in IF RunsBundle THEN {Bundle, last_output} ELSE {last_output}
     /\ UNCHANGED <<backend, command_dir, profile, scene, model, position, velocity, commands,
                    begun, walked>>
  \/ RunsBundle /\ Fails("error")

Next ==
  \/ \E p \in Profile : Initialize(p)
  \/ \E s \in SceneProfile : LoadScene(s)
  \/ Reset
  \/ \E a \in SafeAction : Step(a)
  \/ Close

Spec == Init /\ [][Next]_vars

-----------------------------------------------------------------------------
(* PROPERTIES                                                              *)

TypeOK ==
  /\ state \in AdapterState /\ ok \in BOOLEAN
  /\ profile \in Profile \cup {None}
  /\ {scene, begun} \subseteq SceneProfile \cup {None}
  /\ model \in SceneProfile \cup {None, Base}
  /\ viewer \in {"closed", "open", "stale"}
  /\ velocity \in {0, Speed} /\ position \in 0..2 * Speed * MaxSteps
  /\ Len(commands) <= MaxSteps

(* The places an obstacle takes up over the line, and how far it is on the *)
(* ground, whatever its height.                                            *)
Places(o) ==
  LET up == IF o.geometry = "sphere" THEN o.half ELSE o.half_height
  IN {p \in ((o.at - o.half)..(o.at + o.half)) \X ((o.z - up)..(o.z + up)) :
        o.geometry = "sphere" =>
          (p[1] - o.at) * (p[1] - o.at) + (p[2] - o.z) * (p[2] - o.z) <= o.half * o.half}
Footprint(o, x) == Positive(Abs(o.at - x) - o.half)

(* The distance d told to a robot in place x, z is on the safe side of     *)
(* every box and sphere, and of a cylinder whose centre is as high as the  *)
(* robot's base; with any other cylinder the height of the centre makes it *)
(* larger than its footprint is far.  It is never that of nothing: one of  *)
(* the obstacles is not farther on the ground.                             *)
TellsDistance(s, x, z, d) ==
  /\ \A o \in Range(s.obstacles) :
       /\ o.geometry # "cylinder" => \A p \in Places(o) : d <= Norm(p[1] - x, p[2] - z)
       /\ o.geometry = "cylinder" /\ o.z = z => d <= Footprint(o, x)
  /\ \E o \in Range(s.obstacles) : Footprint(o, x) <= d

(* A backend that runs does so in the scene it was last reset in, MuJoCo   *)
(* with the model of that scene, and of that scene's obstacles it tells    *)
(* the distance as far as the code measures it.                            *)
ObservesItsRun ==
  /\ state = "running" => scene = begun /\ begun # None /\ Observable
  /\ state = "running" /\ backend = "mujoco" => model = begun
  /\ state = "running" /\ backend = "webots" => commands = walked
  /\ Observable /\ scene.obstacles # <<>> =>
       LET seen == Observation.obstacle_state
       IN /\ seen.obstacle_detected
          /\ TellsDistance(scene, position, BaseHeight[backend], seen.nearest_distance)

(* A call that fails moves nothing, a robot moves only by an accepted step *)
(* and never by one that the shield rejected, and closing a run hands      *)
(* Webots the steps of that run, in its scene.                             *)
MovesByAcceptedSteps ==
  [][/\ ~ok' => /\ UNCHANGED <<scene, model, position, velocity, commands, last_output>>
                /\ state' \in {state, "error"}
     /\ position' > position => Len(walked') = Len(walked) + 1
     /\ \A a \in SafeAction :
          a.decision = "rejected" /\ Step(a) => UNCHANGED <<position, velocity, commands>>
     /\ state = "running" /\ last_output' # last_output /\ state' = "stopped" =>
          last_output' = [scene |-> begun, commands |-> walked]]_vars
=============================================================================
