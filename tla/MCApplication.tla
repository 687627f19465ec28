----------------------------- MODULE MCApplication -----------------------------
(***************************************************************************)
(* The instance of Application that is checked, with one more part at its  *)
(* side: the route planner.                                                *)
(* The parts that stay are in an initial state of theirs.                  *)
(***************************************************************************)
EXTENDS Application, SequencesExt

(* A route that begins at the platform and has a detour, one with two      *)
(* targets, and one whose dwell is longer than the slack of its steps.     *)
Via(n) == [is_mission_target |-> FALSE, target |-> 0, length |-> n]
To(t, n) == [is_mission_target |-> TRUE, target |-> t, length |-> n]
MCMission ==
  {[route |-> <<To(1, 0), Via(2), To(2, 3)>>, dwell |-> <<2, 2>>, starts_at_platform |-> TRUE],
   [route |-> <<To(1, 3), To(2, 1)>>, dwell |-> <<2, 1>>, starts_at_platform |-> FALSE],
   [route |-> <<To(1, 3)>>, dwell |-> <<45>>, starts_at_platform |-> FALSE]}
MCRunRequest ==
  {[backend |-> b, step_count |-> 8, auto_extend |-> FALSE] : b \in {"mujoco", "webots"}}
    \cup {[backend |-> b, step_count |-> 1, auto_extend |-> TRUE] : b \in {"minimal", "webots"}}

(* Two scenes on a line: one of mixed terrain, one that names its terrain. *)
MixedScene ==
  [terrain_pack |-> "mixed", zones |-> {<<1, 2>>},
   regions |-> <<[terrain_class |-> "slope", extent |-> <<2, 3>>],
                 [terrain_class |-> "gravel", extent |-> <<3, 4>>]>>,
   obstacles |-> <<[geometry |-> "cylinder", at |-> 5, half |-> 1, z |-> 35, half_height |-> 20],
                   [geometry |-> "box", at |-> 3, half |-> 1, z |-> 20, half_height |-> 11],
                   [geometry |-> "sphere", at |-> -4, half |-> 2, z |-> 36, half_height |-> 2]>>]
StairsScene == [terrain_pack |-> "stairs", zones |-> {}, regions |-> <<>>, obstacles |-> <<>>]
MCSceneProfile == {MixedScene, StairsScene}
MCProfile == [known : {TRUE}, render_mode : {"none", "viewer"}]
               \cup {[known |-> FALSE, render_mode |-> "none"]}

(* Scripts with a known and an unknown waypoint, a zone, one twice, one    *)
(* unknown, and none; the scene they name, another, an older version of    *)
(* it, and profiles without an id or without a version.                    *)
Stop(id, dwells) == [id |-> id, dwells |-> dwells, terrain |-> IF id = "A" THEN "slope" ELSE "any"]
SceneRef(id, version) == [id |-> id, version |-> version]
Script(stops, avoid) ==
  [scene_ref |-> SceneRef("hall", "2"), waypoints |-> stops, avoid |-> avoid]
Hall == [scene_id |-> "hall", version |-> "2", checkpoints |-> {"A", "B"}, zones |-> {"z"}]
Candidate(id, stage, ground, tag, risk) ==
  [id |-> id, stage |-> stage, terrain |-> ground, task_tag |-> tag, risk_flag |-> risk]
MCWindowPath == {<<1, 3, 0>>, <<4>>, <<0, 3>>}
MCSubmission ==
  [script : {[scene_ref |-> SceneRef("none", "none"), waypoints |-> <<>>, avoid |-> <<>>],
             Script(<<Stop("A", TRUE), Stop("B", FALSE)>>, <<"z">>),
             Script(<<Stop("A", FALSE), Stop("C", TRUE)>>, <<>>),
             Script(<<Stop("B", FALSE)>>, <<"z", "z">>), Script(<<Stop("B", TRUE)>>, <<"y">>)},
   scene : {Hall, [Hall EXCEPT !.scene_id = "yard"], [Hall EXCEPT !.scene_id = ""],
            [Hall EXCEPT !.version = "1"], [Hall EXCEPT !.scene_id = "", !.version = ""]},
   candidates : {<<>>, <<Candidate("risky", "Released", "any", "move", TRUE),
                         Candidate("unready", "Approved", "any", "move", FALSE),
                         Candidate("level", "Baseline", "flat", "move", FALSE),
                         Candidate("still", "Released", "any", "dwell", FALSE)>>}]

(* A route from the platform by a detour to two targets and back to the    *)
(* first; ground of two kinds, a zone on the way, budgets that suffice and *)
(* that do not.                                                            *)
Entry(id, x, dwell, target) ==
  [target_id |-> id, at |-> x, dwell |-> dwell, is_task_target |-> target]
MCLocalPath ==
  <<Entry("platform", 0, 0, TRUE), Entry("via", 50000, 0, FALSE), Entry("A", 100000, 90, TRUE),
    Entry("B", 60000, 0, TRUE), Entry("A", 100000, 5, TRUE)>>
Asked == [valid |-> TRUE, plan_only |-> FALSE, terrain_pack |-> "flat", zone |-> <<1, 0>>,
          max_steps |-> 40, auto_extend |-> TRUE, cap |-> 1200, evidence |-> TRUE]
MCLocalRequest ==
  {Asked, [Asked EXCEPT !.valid = FALSE], [Asked EXCEPT !.plan_only = TRUE],
   [Asked EXCEPT !.terrain_pack = "mixed", !.evidence = FALSE],
   [Asked EXCEPT !.auto_extend = FALSE], [Asked EXCEPT !.cap = 100],
   [Asked EXCEPT !.max_steps = 100, !.cap = 40], [Asked EXCEPT !.zone = <<70000, 80000>>]}

(* Texts of up to three phrases; a scene without assets, and one that adds *)
(* a waypoint whose alias is another's id, an alias and a zone.            *)
Phrase ==
  {<<"xunjian", "A">>, <<"A", "dian">>, <<"xunjian", "dian", "C">>, <<"huidao", "pingtai">>,
   <<"pingtai">>, <<"qi", "dian", "A">>, <<"tingliu", "n5", "miao">>,
   <<"daiming", "c20", "space", "miao">>, <<"daiming", "qu">>, <<"bikai", "dimocaqu">>,
   <<"raoguo", "space", "anquan">>, <<"raoxing">>, <<"tingzhi">>, <<"space">>}
MCText == {FlattenSeq(s) : s \in UNION {[1..n -> Phrase] : n \in 0..3}}
Asset(t, id) == [asset_type |-> t, asset_id |-> id]
MCSceneAssets ==
  {<<>>, <<Asset("checkpoint", <<"C">>), Asset("checkpoint", <<"dian", "C">>),
           Asset("checkpoint", <<"checkpoint", "a">>), Asset("no_go_zone", <<"low", "zone">>)>>}
MCWaypointOrder == <<<<"A">>, <<"B">>, <<"C">>, <<"dian", "C">>, <<"platform">>>>
MCDigits == [n5 |-> 5]
MCNumerals == [c20 |-> <<2, 10>>]

-----------------------------------------------------------------------------
(* Routes on a coarse grid, of 0.4 m for 0.06 m: every choice of a wall, a *)
(* post on the line and a box beside it, a target that is blocked and one  *)
(* that is walled in, ground that is dear here and there or everywhere, a  *)
(* zone, and a scene that is too large.  Targets lie off the grid, at one  *)
(* place and 20 mm apart.                                                  *)
VARIABLES route_scene, mission, pc, leg, grid, ends, open, closed, g_score, came_from, counter,
          path, kept, points, waypoints, notes
route_vars == <<route_scene, mission, pc, leg, grid, ends, open, closed, g_score, came_from,
                counter, path, kept, points, waypoints, notes>>
Origin == <<0, 0>>
Resolution == 345
LineStep == 100
ObstaclePadding == 100
ZonePadding == 50
MaxCells == 120
MaxPoints == 4
RoundAt(x, y, r) == [at |-> <<x, y>>, half |-> <<0, 0>>, radius |-> r]
BoxAt(x, y, dx, dy) == [at |-> <<x, y>>, half |-> <<dx, dy>>, radius |-> 0]
Region(class, x, y, dx, dy) == [terrain_class |-> class, centre |-> <<x, y>>, half |-> <<dx, dy>>]
Plain(obstacles) ==
  [terrain_pack |-> "flat", obstacles |-> obstacles, zones |-> {}, regions |-> <<>>]
Post == RoundAt(450, 100, 100)
Wall == BoxAt(450, 0, 50, 550)
Beside == BoxAt(200, 500, 250, 50)
Hilly ==
  [terrain_pack |-> "mixed", obstacles |-> {Post}, zones |-> {},
   regions |-> <<Region("stairs", 500, -300, 700, 150), Region("slope", 500, -300, 300, 500),
                 Region("gravel", 450, 500, 600, 150)>>]
Scene ==
  {Plain(s) : s \in SUBSET {Post, Wall, Beside}}
    \cup {Plain({RoundAt(850, 50, 80)}), Plain({RoundAt(60, -160, 80), Post}),
          Plain({BoxAt(850, -450, 500, 20), BoxAt(850, 550, 500, 20), BoxAt(350, 50, 20, 500),
                 BoxAt(1350, 50, 20, 500)}),
          Plain({RoundAt(9000, 0, 100), Post}), Hilly, [Hilly EXCEPT !.terrain_pack = "custom"],
          [Hilly EXCEPT !.terrain_pack = "stairs"],
          [Hilly EXCEPT !.terrain_pack = "low_friction"],
          [Hilly EXCEPT !.zones = {[low |-> <<300, -200>>, high |-> <<600, 300>>]}]}
Mission ==
  {<<<<850, 50>>>>, <<<<850, 50>>, <<870, 50>>, Origin>>, <<<<900, 330>>, <<400, -850>>>>}
Routes == INSTANCE RoutePlanner WITH scene <- route_scene

-----------------------------------------------------------------------------
all_vars == <<app_vars, route_vars>>

(* The initial states of a part that moves, one of them of the others.     *)
Of(p, S) == IF part = p THEN S ELSE {CHOOSE x \in S : TRUE}

AllInit ==
  /\ part \in {"tasks", "indexed_scenes", "scenes", "training", "storage", "api", "routes",
               "simulation", "windows", "backends", "parser", "governance", "local",
               "orchestrator"}
  /\ route_scene \in Of("routes", Scene) /\ mission \in Of("routes", Mission)
  /\ run_mission \in Of("simulation", RunMission)
  /\ run_request \in Of("simulation", RunRequest)
  /\ window \in Of("windows", Window)
  /\ backend \in IF part = "backends" THEN {"minimal", "mujoco", "webots"} ELSE {"minimal"}
  /\ local_request \in Of("local", LocalRequest)
  /\ part # "parser" => source_text = <<>> /\ assets = <<>>
  /\ AppInit /\ Routes!Init

AllNext ==
  \/ AppNext /\ UNCHANGED route_vars
  \/ Moves("routes") /\ Routes!Next /\ UNCHANGED app_vars

AllSpec == AllInit /\ [][AllNext]_all_vars /\ Tasks!Fairness

-----------------------------------------------------------------------------
(* PROPERTIES: those of the added part, besides those of Application.      *)

(* Every variable of every part has its type.                              *)
AllTypeOK == PartsTypeOK /\ Routes!TypeOK

(* The grid search finds a cheapest path exactly if there is a path; a     *)
(* planned route is clear where it was searched and visits its targets;    *)
(* and the step budget of a local run suffices on flat and mixed ground.   *)
RouteIsSound ==
  /\ part = "routes" => Routes!SearchFindsCheapest /\ Routes!RouteIsSound
  /\ part = "local" => Local!FlatRunCompletes
=============================================================================
