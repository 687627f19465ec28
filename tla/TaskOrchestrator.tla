--------------------------- MODULE TaskOrchestrator ---------------------------
(***************************************************************************)
(* TaskOrchestratorService over InMemoryTaskSessionStore, and the pipeline *)
(* that understands a submission: the constraint engine, the policy        *)
(* selector and the sequential graph planner.  One call at a time.  What   *)
(* the parser makes of a text is a script of the submission, or nothing.   *)
(***************************************************************************)
EXTENDS Integers, Sequences, SequencesExt, FiniteSets, FiniteSetsExt

CONSTANTS TaskId,
          Submission \* [script, scene, candidates], script NoScript if the text has none

NoScript == [scene_ref |-> [id |-> "none", version |-> "none"], waypoints |-> <<>>, avoid |-> <<>>]
NoSubmission == [script |-> NoScript, candidates |-> <<>>,
                 scene |-> [scene_id |-> "", version |-> "", checkpoints |-> {}, zones |-> {}]]
NoSession == [state |-> "None", events |-> <<>>, graph |-> <<>>, submission |-> NoSubmission]

VARIABLE sessions \* the store

Init == sessions = [t \in TaskId |-> NoSession]

-----------------------------------------------------------------------------
(* BasicTaskConstraintEngine::check of a parsed script, whose speeds are   *)
(* the defaults.  A scene profile without an id is not asked for its       *)
(* waypoints and zones, nor one without a version for that.                *)
Named(scene) == scene.scene_id # ""
SceneConflicts(script, scene) ==
  \/ scene.version # "" /\ script.scene_ref.version # scene.version
  \/ Named(scene) /\ \/ script.scene_ref.id # scene.scene_id
                     \/ \E w \in ToSet(script.waypoints) : w.id \notin scene.checkpoints
ZoneConflicts(script, scene) ==
  \/ ~IsInjective(script.avoid)
  \/ Named(scene) /\ ~(ToSet(script.avoid) \subseteq scene.zones)

(* The zones are not compared with those of the scene. *)
AcceptedZonesUnchecked(script, scene) == ~SceneConflicts(script, scene)
Accepted(script, scene) == ~SceneConflicts(script, scene) /\ ~ZoneConflicts(script, scene)

Understood(s) == s.script # NoScript /\ Accepted(s.script, s.scene)

(* RuleBasedPolicySelector::select: the first candidate that is published, *)
(* not flagged as a risk, for moves and for the waypoint's terrain.        *)
Placeholder == "placeholder"
Executable(c) == c.stage \in {"Released", "Baseline"} /\ ~c.risk_flag
TerrainMatches(c, w) == c.terrain \in {"any", w.terrain} \/ w.terrain = "any"
Selected(w, candidates) ==
  LET fits(c) == Executable(c) /\ c.task_tag = "move" /\ TerrainMatches(c, w)
      fitting == {i \in DOMAIN candidates : fits(candidates[i])}
  IN IF fitting = {} THEN Placeholder ELSE candidates[Min(fitting)].id

(* SequentialTaskGraphPlanner::plan: each waypoint's move, its dwell if it *)
(* has one, under the policy selected for the move, and a stop.            *)
GraphNode(type, target, policy) == [type |-> type, target |-> target, policy |-> policy]
NodesOf(w, candidates) ==
  LET policy == Selected(w, candidates)
  IN <<GraphNode("MoveTo", w.id, policy)>>
       \o IF w.dwells THEN <<GraphNode("Dwell", w.id, policy)>> ELSE <<>>
Planned(s) ==
  FlattenSeq([i \in DOMAIN s.script.waypoints |-> NodesOf(s.script.waypoints[i], s.candidates)])
    \o <<GraphNode("Stop", "none", "none")>>

-----------------------------------------------------------------------------
Event(type, from, to) == [type |-> type, from |-> from, to |-> to]
Terminal(state) == state \in {"Rejected", "HandedOff", "Cancelled", "Failed"}

Moved(t, type, state) ==
  sessions' = [sessions EXCEPT ![t] =
                 [sessions[t] EXCEPT !.state = state,
                                     !.events = Append(@, Event(type, sessions[t].state, state))]]

(* submit: whatever session the task has is replaced.                      *)
Opened(s) ==
  LET begun == <<Event("Submitted", "Received", "Received"),
                 Event("UnderstandingStarted", "Received", "Understanding")>>
  IN IF Understood(s)
       THEN [state |-> "PreviewReady", graph |-> Planned(s), submission |-> s,
             events |-> Append(begun, Event("PreviewGenerated", "Understanding", "PreviewReady"))]
       ELSE [state |-> "Rejected", graph |-> <<>>, submission |-> s,
             events |-> Append(begun, Event("Rejected", "Understanding", "Rejected"))]

(* The events of the session before are kept. *)
OpenedBehind(t, s) == [Opened(s) EXCEPT !.events = sessions[t].events \o @]
OpenedAfresh(t, s) == Opened(s)

Submit(t, s) == sessions' = [sessions EXCEPT ![t] = OpenedAfresh(t, s)]

Confirm(t) == sessions[t].state = "PreviewReady" /\ Moved(t, "Confirmed", "Confirmed")

Handoff(t) == sessions[t].state = "Confirmed" /\ Moved(t, "HandedOff", "HandedOff")

Cancel(t) ==
  /\ sessions[t].state # "None" /\ ~Terminal(sessions[t].state)
  /\ Moved(t, "Cancelled", "Cancelled")

Next ==
  \E t \in TaskId :
    (\E s \in Submission : Submit(t, s)) \/ Confirm(t) \/ Handoff(t) \/ Cancel(t)

Spec == Init /\ [][Next]_sessions

-----------------------------------------------------------------------------
(* PROPERTIES *)

(* Every variable has its type.                                            *)
LifecycleState == {"Received", "Understanding", "PreviewReady", "Confirmed", "HandedOff",
                   "Rejected", "Cancelled", "None"}
TypeOK ==
  \A t \in TaskId : /\ sessions[t].state \in LifecycleState
                    /\ sessions[t].submission \in Submission \cup {NoSubmission}

(* However often a task was submitted before, the events of its session    *)
(* are a chain from the last submission to its state, nothing follows an   *)
(* end, and a session handed off was confirmed: the confirmation of what   *)
(* it replaced does not count.                                             *)
EventsChain(e) ==
  \A i \in 1..Len(e) - 1 :
    e[i].to = e[i + 1].from /\ ~Terminal(e[i].to) /\ e[i + 1].type # "Submitted"
SessionTells ==
  \A t \in TaskId : LET s == sessions[t] IN s.state # "None" =>
    /\ Head(s.events).type = "Submitted" /\ EventsChain(s.events) /\ Last(s.events).to = s.state
    /\ s.state = "HandedOff" => \E i \in DOMAIN s.events : s.events[i].type = "Confirmed"

(* A session that was understood passes every waypoint of its script in    *)
(* order, each known to the scene, avoids known zones only, and no policy  *)
(* in its graph is unpublished or flagged.                                 *)
GraphIsSound ==
  \A t \in TaskId : LET s == sessions[t] IN s.graph # <<>> =>
    LET by == s.submission
        w == by.script.waypoints
        moves == {k \in DOMAIN s.graph : s.graph[k].type = "MoveTo"}
    IN
    /\ \E at \in [DOMAIN w -> moves] :
         /\ moves = {at[i] : i \in DOMAIN w}
         /\ \A i \in DOMAIN w : /\ s.graph[at[i]].target = w[i].id
                               /\ \A j \in i + 1..Len(w) : at[i] < at[j]
    /\ Named(by.scene) => /\ \A k \in moves : s.graph[k].target \in by.scene.checkpoints
                          /\ ToSet(by.script.avoid) \subseteq by.scene.zones
    /\ \A i \in DOMAIN s.graph : s.graph[i].policy \in {"none", Placeholder}
         \/ \E c \in ToSet(by.candidates) : /\ c.id = s.graph[i].policy
                                           /\ c.stage \in {"Released", "Baseline"} /\ ~c.risk_flag
=============================================================================
