------------------------------ MODULE RoutePlanner ------------------------------
(***************************************************************************)
(* The scene-aware route planner of the local backends: from one target to *)
(* the next it goes straight if the line is clear and cheap, and otherwise *)
(* lays a grid over the scene, searches it with A* between the cells       *)
(* nearest to the two ends, simplifies and thins the path it found, puts   *)
(* the ends back and falls back on the straight line when there is no      *)
(* path.  Points are in millimetres, to which the samples of a line are    *)
(* rounded; the default zone and regions of a terrain pack are part of the *)
(* scene here, and a zone is the rectangle around its polygon.             *)
(***************************************************************************)
EXTENDS Integers, FiniteSets, FiniteSetsExt, SequencesExt

CONSTANTS Scene,   \* records [terrain_pack, obstacles, zones, regions]
          Mission, \* the sequences of targets, each a point
          Origin,  \* where the robot starts
          Resolution, ObstaclePadding, ZonePadding, LineStep,
          MaxCells, \* max_grid_cells
          MaxPoints \* points kept of one leg (max_detour_waypoints_per_segment + 2)

VARIABLES scene, mission,
          pc,
          leg,       \* the target the planner is at
          grid,      \* the grid of this leg: its least point, its width and height
          ends,      \* start_index and goal_index
          open,      \* the heap: priority, order of entry and cell
          closed, g_score, came_from, counter,
          path,      \* what the search returned for this leg
          kept,      \* the places in it that the simplified path keeps
          points,    \* the points of this leg
          waypoints, \* place, target and whether it is that target
          notes      \* how each leg was planned

vars == <<scene, mission, pc, leg, grid, ends, open, closed, g_score, came_from, counter, path,
          kept, points, waypoints, notes>>
search == <<grid, ends, open, closed, g_score, came_from, counter>>
input == <<scene, mission>>

Nothing == [n \in {} |-> 0]

Init ==
  /\ scene \in Scene /\ mission \in Mission
  /\ pc = "segment" /\ leg = 1 /\ grid = [min |-> Origin, width |-> 3, height |-> 3]
  /\ ends = <<Origin, Origin>>
  /\ open = {} /\ closed = {} /\ counter = 0 /\ g_score = Nothing /\ came_from = Nothing
  /\ path = <<>> /\ kept = <<>> /\ points = <<>> /\ waypoints = <<>> /\ notes = <<>>

-----------------------------------------------------------------------------
(* The scene.  An obstacle is a box, which has no radius, or a round one,  *)
(* which has no half extents.                                              *)
Axes == {1, 2}
Abs(n) == IF n < 0 THEN -n ELSE n
Ceiling(p, q) == (p + q - 1) \div q
SquareDistance(a, b) == (a[1] - b[1]) * (a[1] - b[1]) + (a[2] - b[2]) * (a[2] - b[2])

Within(p, low, high) == \A i \in Axes : low[i] <= p[i] /\ p[i] <= high[i]
_inside_zone_with_padding(p, z, padding) ==
  Within(p, <<z.low[1] - padding, z.low[2] - padding>>,
            <<z.high[1] + padding, z.high[2] + padding>>)
_inside_region(p, r) == \A i \in Axes : Abs(p[i] - r.centre[i]) <= r.half[i]

_terrain_at(p) ==
  LET around == SelectSeq(scene.regions, LAMBDA r : _inside_region(p, r))
  IN CASE \E z \in scene.zones : _inside_zone_with_padding(p, z, 0) -> "low_friction"
       [] OTHER -> IF scene.terrain_pack \notin {"mixed", "custom"} THEN scene.terrain_pack
                   ELSE IF around # <<>> THEN Head(around).terrain_class
                   ELSE IF scene.terrain_pack = "mixed" THEN "flat" ELSE "unknown"

(* _obstacle_clearance is at most the padding.                             *)
IsNear(p, o) ==
  LET Beyond(i) == Max({0, Abs(p[i] - o.at[i]) - o.half[i]})
      reach == o.radius + ObstaclePadding
  IN Beyond(1) * Beyond(1) + Beyond(2) * Beyond(2) <= reach * reach

_blocked_point(p) ==
  \/ \E o \in scene.obstacles : IsNear(p, o)
  \/ \E z \in scene.zones : _inside_zone_with_padding(p, z, ZonePadding)
  \/ _terrain_at(p) = "low_friction"

(* In twentieths.                                                          *)
_TERRAIN_COST == [flat |-> 20, slope |-> 31, gravel |-> 29, stairs |-> 43, unknown |-> 36,
                  low_friction |-> 1000]
_terrain_cost(p) == _TERRAIN_COST[_terrain_at(p)]

_sample_line(a, b) ==
  LET far == SquareDistance(a, b)
      n == CHOOSE m \in 1..far + 1 : m * m * LineStep * LineStep >= far
                                     /\ (m = 1 \/ (m - 1) * (m - 1) * LineStep * LineStep < far)
      At(i, k) == (2 * (a[i] * n + (b[i] - a[i]) * k) + n) \div (2 * n)
  IN {<<At(1, k), At(2, k)>> : k \in 0..n}

_line_is_clear(a, b) == \A p \in _sample_line(a, b) : ~_blocked_point(p)
_line_has_high_cost_terrain(a, b) == \E p \in _sample_line(a, b) : _terrain_cost(p) > 21

-----------------------------------------------------------------------------
(* The grid of a leg.                                                      *)
Start == IF leg = 1 THEN Origin ELSE mission[leg - 1]
Goal == mission[leg]

Margin == Max({600, 3 * ObstaclePadding, 3 * ZonePadding})

_build_grid ==
  LET Around(c, e) == {c - e, c + e}
      Bounds(i) ==
        {Start[i], Goal[i]}
          \cup UNION {Around(o.at[i], o.half[i] + o.radius + ObstaclePadding) :
                        o \in scene.obstacles}
          \cup UNION {{z.low[i] - ZonePadding, z.high[i] + ZonePadding} : z \in scene.zones}
          \cup UNION {Around(r.centre[i], r.half[i]) : r \in Range(scene.regions)}
      Least(i) == Min(Bounds(i)) - Margin
      Size(i) == Max({3, Ceiling(Max(Bounds(i)) + Margin - Least(i), Resolution) + 1})
  IN [min |-> <<Least(1), Least(2)>>, width |-> Size(1), height |-> Size(2)]

Cell == (0..grid.width - 1) \X (0..grid.height - 1)

RoundHalfEven(p, q) ==
  LET floor == p \div q IN
  IF 2 * (p % q) > q \/ (2 * (p % q) = q /\ floor % 2 = 1) THEN floor + 1 ELSE floor

_point_to_index(p) == [i \in Axes |-> RoundHalfEven(p[i] - grid.min[i], Resolution)]
_index_to_point(c) == [i \in Axes |-> grid.min[i] + c[i] * Resolution]
_blocked_index(c) == _blocked_point(_index_to_point(c))

(* The ring of a radius around a cell, in the order of its candidates.     *)
Ring(c, radius) ==
  [i \in 1..2 * (2 * radius + 1) |->
     <<c[1] - radius + (i - 1) \div 2, IF i % 2 = 1 THEN c[2] - radius ELSE c[2] + radius>>]
    \o [i \in 1..2 * (2 * radius - 1) |->
     <<IF i % 2 = 1 THEN c[1] - radius ELSE c[1] + radius, c[2] - radius + 1 + (i - 1) \div 2>>]

NoCell == <<-1, -1>>
Free(c) == c \in Cell /\ ~_blocked_index(c)
_nearest_unblocked_index(c) ==
  LET Hits(radius) == SelectSeq(Ring(c, radius), Free)
      near == {radius \in 1..Max({grid.width, grid.height}) : Hits(radius) # <<>>}
  IN IF Free(c) THEN c ELSE IF near = {} THEN NoCell ELSE Head(Hits(Min(near)))

(* Neighbours in the order in which they are looked at.                    *)
Offsets == <<<<-1, -1>>, <<0, -1>>, <<1, -1>>, <<-1, 0>>, <<1, 0>>, <<-1, 1>>, <<0, 1>>, <<1, 1>>>>
Neighbor(c, k) == <<c[1] + Offsets[k][1], c[2] + Offsets[k][2]>>
_neighbors(c) == {k \in 1..8 : Neighbor(c, k) \in Cell}

(* Lengths in hundredths of a cell and twentieths of its cost: those of    *)
(* steps rounded up, those of the heuristic rounded down.                  *)
Hypotenuse(dx, dy) ==
  CHOOSE d \in 100 * Max({dx, dy})..100 * (dx + dy) :
    /\ d * d <= 10000 * (dx * dx + dy * dy)
    /\ 10000 * (dx * dx + dy * dy) < (d + 1) * (d + 1)
_heuristic(c) == 20 * Hypotenuse(Abs(c[1] - ends[2][1]), Abs(c[2] - ends[2][2]))
StepCost(c, n) ==
  (IF c[1] = n[1] \/ c[2] = n[2] THEN 100 ELSE 142) * _terrain_cost(_index_to_point(n))
Leads(c, n) == ~_blocked_index(n) /\ _line_is_clear(_index_to_point(c), _index_to_point(n))

-----------------------------------------------------------------------------
(* One leg.                                                                *)

(* The straight line, whether it is clear or there is no other way.        *)
Straight(note) ==
  /\ points' = <<Start, Goal>> /\ notes' = Append(notes, note) /\ pc' = "emit"

(* _plan_segment                                                           *)
PlansSegment ==
  /\ pc = "segment" /\ leg <= Len(mission)
  /\ IF _line_is_clear(Start, Goal) /\ ~_line_has_high_cost_terrain(Start, Goal)
       THEN Straight("direct_clear") /\ UNCHANGED grid
       ELSE pc' = "grid" /\ grid' = _build_grid /\ UNCHANGED <<points, notes>>
  /\ UNCHANGED <<input, leg, ends, open, closed, g_score, came_from, counter, path, kept,
                 waypoints>>

LaysGrid ==
  /\ pc = "grid"
  /\ ends' = <<_nearest_unblocked_index(_point_to_index(Start)),
               _nearest_unblocked_index(_point_to_index(Goal))>>
  /\ IF grid.width * grid.height > MaxCells
       THEN /\ Straight("fallback_grid_too_large")
            /\ UNCHANGED <<open, closed, counter, came_from, g_score>>
     ELSE IF NoCell \in Range(ends')
       THEN /\ Straight("fallback_start_or_goal_blocked")
            /\ UNCHANGED <<open, closed, counter, came_from, g_score>>
     ELSE /\ pc' = "search" /\ UNCHANGED <<points, notes>>
          /\ open' = {[priority |-> 0, order |-> 0, cell |-> ends'[1]]} /\ counter' = 0
          /\ closed' = {} /\ came_from' = Nothing /\ g_score' = [c \in {ends'[1]} |-> 0]
  /\ UNCHANGED <<input, leg, grid, path, kept, waypoints>>

Before(a, b) == a.priority < b.priority \/ (a.priority = b.priority /\ a.order <= b.order)
Top == CHOOSE a \in open : \A b \in open : Before(a, b)

(* A cell that was pushed twice is taken once.                             *)
SkipsClosed ==
  /\ pc = "search" /\ open # {} /\ Top.cell \in closed
  /\ open' = open \ {Top}
  /\ UNCHANGED <<input, pc, leg, grid, ends, closed, g_score, came_from, counter, path, kept,
                 points, waypoints, notes>>

Tentative(c, n) == g_score[c] + StepCost(c, n)

(* What has been pushed once is not looked at again. *)
ImprovesOnce(c) ==
  {k \in _neighbors(c) : LET n == Neighbor(c, k) IN
     n \notin closed /\ n \notin DOMAIN g_score /\ Leads(c, n)}

(* The neighbours that get a better score from cell c.                     *)
Improves(c) ==
  {k \in _neighbors(c) : LET n == Neighbor(c, k) IN
     /\ n \notin closed /\ Leads(c, n)
     /\ n \in DOMAIN g_score => Tentative(c, n) < g_score[n]}

(* _astar: the cheapest open cell is closed and its neighbours are pushed. *)
Expands ==
  /\ pc = "search" /\ open # {} /\ Top.cell \notin closed /\ Top.cell # ends[2]
  /\ LET c == Top.cell
         better == Improves(c)
         score == [n \in {Neighbor(c, k) : k \in better} |-> Tentative(c, n)]
         parent == [n \in DOMAIN score |-> c]
     IN /\ closed' = closed \cup {c}
        /\ g_score' = score @@ g_score /\ came_from' = parent @@ came_from
        /\ counter' = counter + Cardinality(better)
        /\ open' = (open \ {Top}) \cup
             {[priority |-> score[Neighbor(c, k)] + _heuristic(Neighbor(c, k)),
               order |-> counter + Cardinality({j \in better : j <= k}),
               cell |-> Neighbor(c, k)] : k \in better}
  /\ UNCHANGED <<input, pc, leg, grid, ends, path, kept, points, waypoints, notes>>

RECURSIVE Traced(_)
Traced(c) == IF c \in DOMAIN came_from THEN Append(Traced(came_from[c]), c) ELSE <<c>>

(* _reconstruct_path                                                       *)
FindsPath ==
  /\ pc = "search" /\ open # {} /\ Top.cell = ends[2] /\ Top.cell \notin closed
  /\ pc' = "simplify" /\ path' = Traced(ends[2]) /\ kept' = <<1>>
  /\ UNCHANGED <<input, search, leg, points, waypoints, notes>>

FindsNone ==
  /\ pc = "search" /\ open = {} /\ Straight("fallback_no_grid_path")
  /\ UNCHANGED <<input, search, leg, path, kept, waypoints>>

-----------------------------------------------------------------------------
(* The path becomes waypoints.                                             *)
PathPoint(i) == _index_to_point(path[i])

FarthestClear(anchor) ==
  Max({anchor + 1} \cup
      {i \in anchor + 2..Len(path) : _line_is_clear(PathPoint(anchor), PathPoint(i))})

(* _simplify_polyline: from each point to the farthest one in sight.       *)
Simplifies ==
  /\ pc = "simplify" /\ Last(kept) # Len(path)
  /\ kept' = Append(kept, FarthestClear(Last(kept)))
  /\ UNCHANGED <<input, search, pc, leg, path, points, waypoints, notes>>

_thin_polyline(s) ==
  IF Len(s) <= MaxPoints THEN s
  ELSE IF MaxPoints <= 2 THEN <<Head(s), Last(s)>>
  ELSE [i \in 1..MaxPoints |-> s[1 + RoundHalfEven((i - 1) * (Len(s) - 1), MaxPoints - 1)]]

(* The ends of the leg are put back if they are not the ends of the path:  *)
(* neither the lines to them nor those of a thinned path are looked at.    *)
ThinsAndEnds ==
  /\ pc = "simplify" /\ Last(kept) = Len(path)
  /\ LET thin == _thin_polyline([i \in DOMAIN kept |-> PathPoint(kept[i])])
     IN points' = (IF Head(thin) = Start THEN <<>> ELSE <<Start>>) \o thin
                    \o (IF Last(thin) = Goal THEN <<>> ELSE <<Goal>>)
  /\ notes' = Append(notes, "grid_detour") /\ pc' = "emit"
  /\ UNCHANGED <<input, search, leg, path, kept, waypoints>>

Waypoint(i, sequence) ==
  [at |-> sequence[i], target |-> leg, is_mission_target |-> i = Len(sequence)]

(* plan_task_route: the points after the start of a leg, the last of them  *)
(* its target.                                                             *)
EmitsLeg ==
  /\ pc = "emit" /\ pc' = "segment" /\ leg' = leg + 1
  /\ LET rest == IF Tail(points) = <<>> THEN <<Goal>> ELSE Tail(points)
     IN waypoints' = waypoints \o [i \in DOMAIN rest |-> Waypoint(i, rest)]
  /\ path' = <<>> /\ kept' = <<>>
  /\ UNCHANGED <<input, search, grid, points, notes>>

(* Of two waypoints less than 25 mm apart the one that is a target stays,  *)
(* the later one if both are.                                              *)
SamePlace(p, q) == SquareDistance(p, q) < 25 * 25
Keeps(s, w) ==
  IF s = <<>> \/ ~SamePlace(Last(s).at, w.at) THEN Append(s, w)
  ELSE IF w.is_mission_target THEN [s EXCEPT ![Len(s)] = w] ELSE s
_deduplicate_waypoints(s) == FoldLeft(Keeps, <<>>, s)

Deduplicates ==
  /\ pc = "segment" /\ leg > Len(mission) /\ pc' = "done"
  /\ waypoints' = _deduplicate_waypoints(waypoints)
  /\ UNCHANGED <<input, search, leg, path, kept, points, notes>>

Next ==
  \/ PlansSegment \/ LaysGrid \/ SkipsClosed \/ Expands \/ FindsPath \/ FindsNone
  \/ Simplifies \/ ThinsAndEnds \/ EmitsLeg \/ Deduplicates

Spec == Init /\ [][Next]_vars /\ WF_vars(Next)

-----------------------------------------------------------------------------
(* PROPERTIES                                                              *)

(* Every variable has its type.                                            *)
TypeOK ==
  /\ scene \in Scene /\ mission \in Mission /\ leg \in 1..Len(mission) + 1
  /\ pc \in {"segment", "grid", "search", "simplify", "emit", "done"}
  /\ pc \in {"search", "simplify"} => open \subseteq [priority : Nat, order : Nat, cell : Cell]
  /\ closed \subseteq DOMAIN g_score /\ DOMAIN g_score \subseteq Int \X Int
  /\ \A c \in DOMAIN g_score : g_score[c] \in Nat
  /\ DOMAIN came_from \subseteq DOMAIN g_score
  /\ kept \in Seq(DOMAIN path) /\ counter \in Nat
  /\ \A i \in DOMAIN waypoints : waypoints[i].target \in DOMAIN mission
  /\ notes \in Seq({"direct_clear", "fallback_grid_too_large", "fallback_start_or_goal_blocked",
                    "fallback_no_grid_path", "grid_detour"})

(* The cost of a cheapest walk on the grid from the start of the leg to    *)
(* its goal: every step is relaxed until no cost changes.                  *)
Far == 10000000
WalkSteps ==
  UNION {{<<c, Neighbor(c, k), StepCost(c, Neighbor(c, k))>> :
            k \in {j \in _neighbors(c) : Leads(c, Neighbor(c, j))}} : c \in Cell}
RECURSIVE Settled(_, _)
Settled(cost, steps) ==
  LET less == [n \in Cell |->
                 Min({cost[n]} \cup {cost[s[1]] + s[3] : s \in {t \in steps : t[2] = n}})]
  IN IF less = cost THEN cost ELSE Settled(less, steps)
Cheapest == Settled([c \in Cell |-> IF c = ends[1] THEN 0 ELSE Far], WalkSteps)[ends[2]]

(* The search finds a path exactly if there is one, and then a cheapest    *)
(* one: a closed cell is never reached more cheaply later.                 *)
SearchFindsCheapest ==
  /\ pc = "simplify" /\ Len(kept) = 1 => g_score[ends[2]] = Cheapest
  /\ pc = "search" /\ open = {} => Cheapest >= Far

(* A leg that was searched leads from its start to its goal over places    *)
(* that nothing blocks, the first and last of them within half a cell of   *)
(* the two ends if their own cells are free; where it is not thinned, each *)
(* sees the next, a shortcut of the simplified path like a step of the     *)
(* search.  Nothing is said of the lines to the two ends or of a thinned   *)
(* path, which the code does not look at.  And a finished route leads      *)
(* through every target in order, or through the next one at its place.    *)
RouteIsSound ==
  /\ pc = "emit" /\ Last(notes) = "grid_detour" =>
       LET seen == [i \in DOMAIN kept |-> PathPoint(kept[i])]
           Joined(end, place) ==
             ~_blocked_index(_point_to_index(end)) =>
               \A i \in Axes : 2 * Abs(end[i] - place[i]) <= Resolution
       IN /\ Head(points) = Start /\ Last(points) = Goal
          /\ Range(points) \subseteq {Start, Goal} \cup Range(seen)
          /\ \A i \in DOMAIN seen : ~_blocked_point(seen[i])
          /\ Joined(Start, Head(seen)) /\ Joined(Goal, Last(seen))
          /\ Len(kept) <= MaxPoints =>
               \A i \in 1..Len(seen) - 1 : _line_is_clear(seen[i], seen[i + 1])
  /\ pc = "done" =>
       LET targets == SelectSeq(waypoints, LAMBDA w : w.is_mission_target)
       IN /\ \A i, j \in DOMAIN targets : i < j => targets[i].target < targets[j].target
          /\ \A i \in DOMAIN targets : targets[i].at = mission[targets[i].target]
          /\ \A k \in DOMAIN mission :
               \/ \E i \in DOMAIN targets : targets[i].target = k
               \/ k < Len(mission) /\ SamePlace(mission[k + 1], mission[k])
=============================================================================
