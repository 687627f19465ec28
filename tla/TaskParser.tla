------------------------------- MODULE TaskParser -------------------------------
(***************************************************************************)
(* Task understanding: a text, a sequence of words, and the assets of its  *)
(* scene become a TaskScript draft and a task graph.  Words are written in *)
(* pinyin; "space" and "_" are the characters a guard is looked up         *)
(* without.                                                                *)
(***************************************************************************)
EXTENDS Integers, Sequences, SequencesExt, FiniteSets, FiniteSetsExt

CONSTANTS
  Text,          \* texts of the operators
  SceneAssets,   \* assets of the scenes: sequences of [asset_type, asset_id]
  WaypointOrder, \* waypoint ids in the order of their strings
  Digits,        \* word -> the number it writes in digits
  Numerals,      \* word -> the Chinese digits it is written with
  MaxGap         \* words between a dwell cue and its number

VARIABLES source_text, assets, pc, draft, graph
vars == <<source_text, assets, pc, draft, graph>>

Blank == {"space", "_"}
DirectActionGuards ==
  {<<"safeaction">>, <<"raoguo", "anquan">>, <<"tiaoguo", "anquan">>, <<"diceng", "guanjie">>}
AvoidCues == {<<"bikai">>, <<"raokai">>, <<"jinxing">>, <<"yuanli">>}
ReplanCues == {<<"chongguihua">>, <<"raoxing">>}
ReturnHomeCues ==
  {<<v>> \o p : v \in {"huidao", "fanhui"}, p \in {<<"pingtai">>, <<"qi", "dian">>}}
    \cup {<<"huijia">>, <<"huijidi">>}
StopCues == {<<"tingzhi">>, <<"tingche">>}
DwellCues == {"zhuliu", "tingliu", "dengdai", "daiming"}

Starts(phrase, text) ==
  {i \in 1..Len(text) - Len(phrase) + 1 : SubSeq(text, i, i + Len(phrase) - 1) = phrase}

ContainsAny(text, phrases) == \E p \in phrases : Starts(p, text) # {}

Compact(text) == SelectSeq(text, LAMBDA w : w \notin Blank)

direct_action_rejection(text) == ContainsAny(Compact(text), DirectActionGuards)

-----------------------------------------------------------------------------
(* The catalog of a scene.                                                 *)
PointA == <<"A">>
PointB == <<"B">>
Platform == <<"platform">>

DefaultWaypoints ==
  { [waypoint_id |-> id, dwell |-> 0,
     aliases |-> {id, <<"xunjian", "dian">> \o id, <<"xunjian">> \o id, <<"dian">> \o id,
                  <<"xunjian", "space">> \o id, id \o <<"dian">>}] : id \in {PointA, PointB} }
    \cup
  { [waypoint_id |-> Platform, dwell |-> 3,
     aliases |-> {<<"pingtai">>, <<"qi", "dian">>, <<"jidi">>, <<"huidao", "pingtai">>,
                  <<"fanhui", "pingtai">>, <<"huijia">>, <<"daiming", "qu">>}] }

DefaultAvoidZones == {[zone_id |-> <<"low_friction_zone">>, aliases |-> {<<"dimocaqu">>}]}

checkpoint_waypoint_id(asset_id) ==
  CASE asset_id \in {PointA, <<"checkpoint", "a">>} -> PointA
    [] asset_id \in {PointB, <<"checkpoint", "b">>} -> PointB
    [] asset_id \in {Platform, <<"home">>} -> Platform
    [] OTHER -> asset_id

Without(prefix, id) ==
  IF IsStrictPrefix(prefix, id) THEN {SubSeq(id, Len(prefix) + 1, Len(id))} ELSE {}

GenericAliases(id) ==
  LET visit == <<"xunjian", "dian">>
      bare == {id} \cup Without(visit, id) \cup Without(<<"dian">>, id)
  IN {visit \o v : v \in {id} \cup Without(<<"dian">>, id)}
       \cup {<<"dao">> \o id, <<"qianwang">> \o id}
       \cup UNION {{v, <<"xunjian">> \o v, <<"dian">> \o v, v \o <<"dian">>} : v \in bare}

CheckpointAliases(asset_id) ==
  LET id == checkpoint_waypoint_id(asset_id)
      known == {w \in DefaultWaypoints : w.waypoint_id = id}
  IN {asset_id} \cup IF known = {} THEN GenericAliases(asset_id)
                     ELSE UNION {w.aliases : w \in known}

Widened(all, same, new) ==
  IF same = {} THEN all \cup {new}
  ELSE (all \ same) \cup {[e EXCEPT !.aliases = @ \cup new.aliases] : e \in same}

WithCheckpoint(waypoints, asset_id) ==
  LET id == checkpoint_waypoint_id(asset_id)
  IN Widened(waypoints, {w \in waypoints : w.waypoint_id = id},
             [waypoint_id |-> id, dwell |-> 0, aliases |-> CheckpointAliases(asset_id)])

NoGoZoneAliases(asset_id) ==
  {asset_id, <<"jinxing", "qu">>} \cup IF "low" \in ToSet(asset_id) THEN {<<"dimocaqu">>} ELSE {}

WithZone(zones, asset_id) ==
  Widened(zones, {z \in zones : z.zone_id = asset_id},
          [zone_id |-> asset_id, aliases |-> NoGoZoneAliases(asset_id)])

WithAsset(catalog, a) ==
  CASE a.asset_type = "checkpoint" ->
         [catalog EXCEPT !.waypoints = WithCheckpoint(@, a.asset_id)]
    [] a.asset_type = "no_go_zone" ->
         [catalog EXCEPT !.avoid_zones = WithZone(@, a.asset_id)]
    [] OTHER -> catalog

Catalogs(scene) ==
  LET catalog[n \in 0..Len(scene)] ==
        IF n = 0 THEN [waypoints |-> DefaultWaypoints, avoid_zones |-> DefaultAvoidZones]
        ELSE WithAsset(catalog[n - 1], scene[n])
  IN catalog
build_parse_catalog(scene) == Catalogs(scene)[Len(scene)]

-----------------------------------------------------------------------------
(* The mentions of waypoints, in the order of the text, none overlapping   *)
(* another: the earlier wins, and of two that start together the longer.   *)
(* An alias is looked for again behind the place where it was found.       *)
Found(a, text) ==
  UNION {S \in SUBSET Starts(a, text) :
           \A i \in Starts(a, text) : i \in S <=> \A j \in S : j < i => j + Len(a) <= i}

Candidates(text, waypoints) ==
  UNION {UNION {{[start |-> i, end |-> i + Len(a) - 1, waypoint |-> w] : i \in Found(a, text)} :
           a \in w.aliases} : w \in waypoints}

Rank(w) == CHOOSE i \in DOMAIN WaypointOrder : WaypointOrder[i] = w.waypoint_id

Before(m, n) ==
  \/ m.start < n.start
  \/ m.start = n.start /\ m.end > n.end
  \/ m.start = n.start /\ m.end = n.end /\ Rank(m.waypoint) < Rank(n.waypoint)

Overlap(m, n) == m.start <= n.end /\ n.start <= m.end

First(mentions) == CHOOSE m \in mentions : \A k \in mentions : ~Before(k, m)

(* A waypoint that is on the route already is not taken again. *)
BehindOnce(rest) ==
  {m \in rest : ~Overlap(m, First(rest)) /\ m.waypoint # First(rest).waypoint}

(* What can still be taken behind the first of what is left.              *)
Behind(rest) == {m \in rest : ~Overlap(m, First(rest))}

Rests(all, n) ==
  LET rest[i \in 0..n] == IF i = 0 THEN all ELSE Behind(rest[i - 1])
  IN rest

Mentions(text, waypoints) ==
  LET rest == Rests(Candidates(text, waypoints), Len(text))
  IN [i \in 1..Min({n \in 0..Len(text) : rest[n] = {}}) |-> First(rest[i - 1])]

parse_chinese_number(digits) ==
  LET tens == {i \in DOMAIN digits : digits[i] = 10}
      i == Min(tens)
      before == IF i = 1 THEN 1 ELSE IF i = 2 THEN digits[1] ELSE 0
      after == IF i = Len(digits) THEN 0 ELSE IF i = Len(digits) - 1 THEN digits[i + 1] ELSE 0
  IN IF Len(digits) = 1 THEN digits[1]
     ELSE IF tens = {} THEN 0
     ELSE IF before * 10 + after > 0 THEN before * 10 + after ELSE 10

Number == DOMAIN Digits \cup DOMAIN Numerals

(* The places of the numbers that follow a dwell cue and are in seconds.   *)
Spoken(segment, numbers) ==
  {k \in DOMAIN segment :
     /\ segment[k] \in numbers
     /\ \E j \in 1..k - 1 : /\ segment[j] \in DwellCues
                            /\ k - j - 1 <= MaxGap
                            /\ \A i \in j + 1..k - 1 : segment[i] \notin Number
     /\ \E l \in k + 1..Len(segment) : /\ segment[l] = "miao"
                                       /\ \A i \in k + 1..l - 1 : segment[i] = "space"}

dwell_time(segment) ==
  LET digits == Spoken(segment, DOMAIN Digits)
      numerals == Spoken(segment, DOMAIN Numerals)
  IN IF digits # {} THEN Digits[segment[Min(digits)]]
     ELSE IF numerals # {} THEN parse_chinese_number(Numerals[segment[Min(numerals)]])
     ELSE IF \E i \in DOMAIN segment : segment[i] = "daiming" THEN 3 ELSE 0

Segment(text, mentions, i) ==
  SubSeq(text, mentions[i].start,
         IF i = Len(mentions) THEN Len(text) ELSE mentions[i + 1].start - 1)

ParsedWaypoints(text, mentions) ==
  [i \in DOMAIN mentions |->
     LET said == dwell_time(Segment(text, mentions, i))
     IN [waypoint_id |-> mentions[i].waypoint.waypoint_id,
         dwell_time |-> IF said > 0 THEN said ELSE mentions[i].waypoint.dwell]]

AvoidZoneIds(text, zones) ==
  IF ContainsAny(text, AvoidCues)
  THEN {z.zone_id : z \in {z \in zones : ContainsAny(text, z.aliases)}}
  ELSE {}

FallbackAction(text) ==
  CASE ContainsAny(text, ReplanCues) -> "replan"
    [] ~ContainsAny(text, ReplanCues) /\ ContainsAny(text, ReturnHomeCues) -> "return_home"
    [] ~ContainsAny(text, ReplanCues \cup ReturnHomeCues) /\ ContainsAny(text, StopCues) -> "stop"
    [] OTHER -> "safe_stand"

(* In hundredths.                                                          *)
Confidence(text, waypoints, zones) ==
  LET four(b) == IF b THEN 4 ELSE 0
  IN IF waypoints = <<>> THEN 20
     ELSE Min({98, 64 + 8 * Min({Len(waypoints), 3})
                   + four(\E i \in DOMAIN text : text[i] \in DwellCues)
                   + four(zones # {})
                   + four(ContainsAny(text, ReturnHomeCues \cup ReplanCues \cup StopCues))})

Rejected ==
  [waypoints |-> <<>>, avoid_zone_ids |-> {}, fallback_action |-> "safe_stand",
   confidence |-> 0, rejected |-> TRUE]

Parsed(text, catalog) ==
  LET waypoints == ParsedWaypoints(text, Mentions(text, catalog.waypoints))
      zones == AvoidZoneIds(text, catalog.avoid_zones)
  IN [waypoints |-> waypoints, avoid_zone_ids |-> zones,
      fallback_action |-> FallbackAction(text),
      confidence |-> Confidence(text, waypoints, zones), rejected |-> FALSE]

Empty(text) == \A i \in DOMAIN text : text[i] = "space"

accepted(d) == d.waypoints # <<>> /\ ~d.rejected

-----------------------------------------------------------------------------
(* The task graph: a MoveTo and perhaps a Dwell per waypoint, then a Stop. *)
NodeId(type, i, w) == <<type, i, w.waypoint_id>>
Stop == <<"stop_terminal">>

NodesOf(i, w) ==
  <<NodeId("move", i, w)>> \o IF w.dwell_time > 0 THEN <<NodeId("dwell", i, w)>> ELSE <<>>

task_graph(waypoints) ==
  LET nodes == FlattenSeq([i \in DOMAIN waypoints |-> NodesOf(i, waypoints[i])])
      all == IF nodes = <<>> THEN <<>> ELSE Append(nodes, Stop)
  IN [nodes |-> all,
      edges |-> {[from |-> all[i], to |-> all[i + 1]] : i \in 1..Len(all) - 1}]

Init ==
  /\ source_text \in Text
  /\ assets \in SceneAssets
  /\ pc = "parse"
  /\ draft = Rejected
  /\ graph = task_graph(<<>>)

parse ==
  /\ pc = "parse"
  /\ draft' = IF Empty(source_text) \/ direct_action_rejection(source_text) THEN Rejected
              ELSE Parsed(source_text, build_parse_catalog(assets))
  /\ pc' = "preview"
  /\ UNCHANGED <<source_text, assets, graph>>

preview ==
  /\ pc = "preview"
  /\ graph' = task_graph(draft.waypoints)
  /\ pc' = "done"
  /\ UNCHANGED <<source_text, assets, draft>>

Next == parse \/ preview

Spec == Init /\ [][Next]_vars

-----------------------------------------------------------------------------
(* PROPERTIES                                                              *)

Waypoints == build_parse_catalog(assets).waypoints

(* A draft of a text: nothing is taken from a text that names a low-level  *)
(* action, however it is spaced; otherwise every mention of a waypoint,    *)
(* repeated or not, is part of the route or overlaps one that is, in the   *)
(* order of the text, and an accepted draft is rated above every other.    *)
KeepsEveryMention ==
  LET mentions == Mentions(source_text, Waypoints)
      guarded == ContainsAny(SelectSeq(source_text, LAMBDA w : w \notin Blank),
                             DirectActionGuards)
  IN pc # "parse" =>
       /\ guarded => ~accepted(draft)
       /\ ~guarded /\ ~Empty(source_text) =>
            /\ \A i \in DOMAIN mentions : \A j \in i + 1..Len(mentions) :
                 mentions[i].end < mentions[j].start
            /\ \A c \in Candidates(source_text, Waypoints) :
                 \E m \in ToSet(mentions) : Overlap(c, m)
            /\ [i \in DOMAIN draft.waypoints |-> draft.waypoints[i].waypoint_id]
                 = [i \in DOMAIN mentions |-> mentions[i].waypoint.waypoint_id]
       /\ accepted(draft) <=> draft.confidence >= 72

(* Walking the task graph from its entry comes by every node once and ends *)
(* in its Stop; the moves are to the waypoints of the draft, in order, each *)
(* with its dwell behind it if the draft says so.                          *)
Follower(t, g) == CHOOSE u \in ToSet(g.nodes) : [from |-> t, to |-> u] \in g.edges
WalkFrom(n, g) ==
  LET walk[i \in 1..n] == IF i = 1 THEN g.nodes[1] ELSE Follower(walk[i - 1], g)
  IN walk

Nodes(walk, type) == {k \in DOMAIN walk : walk[k][1] = type}

GraphIsTheRoute ==
  pc = "done" /\ accepted(draft) =>
    LET w == draft.waypoints
        walk == WalkFrom(Len(graph.nodes), graph)
        dwelling == {i \in DOMAIN w : w[i].dwell_time > 0}
    IN /\ Cardinality(ToSet(graph.nodes)) = Len(graph.nodes)
       /\ ToSet(walk) = ToSet(graph.nodes) /\ walk[Len(graph.nodes)] = Stop
       /\ \E at \in [DOMAIN w -> DOMAIN walk] :
            /\ \A i \in DOMAIN w : \A j \in i + 1..Len(w) : at[i] < at[j]
            /\ \A i \in DOMAIN w : walk[at[i]] = NodeId("move", i, w[i])
            /\ \A i \in dwelling : walk[at[i] + 1] = NodeId("dwell", i, w[i])
            /\ Nodes(walk, "move") = {at[i] : i \in DOMAIN w}
            /\ Nodes(walk, "dwell") = {at[i] + 1 : i \in dwelling}

(* The numerals up to ninety-nine are read as the numbers they write.      *)
Tens(n) == IF n \div 10 = 0 THEN <<>> ELSE IF n \div 10 = 1 THEN <<10>> ELSE <<n \div 10, 10>>
Ones(n) == IF n % 10 = 0 THEN <<>> ELSE <<n % 10>>
NumeralsAreRead ==
  pc = "done" => \A n \in 1..99 : parse_chinese_number(Tens(n) \o Ones(n)) = n

TextBecomesRoute == KeepsEveryMention /\ GraphIsTheRoute /\ NumeralsAreRead
=============================================================================
