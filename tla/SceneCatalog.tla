----------------------------- MODULE SceneCatalog -----------------------------
(***************************************************************************)
(* The versions of one scene in the Python API: drafts are created and     *)
(* copied, one version is published as the baseline, versions are          *)
(* archived.  A request reads, decides, and replaces whole records, one    *)
(* repository call a step; the process may be killed between two of them.  *)
(* The SQLite repository refuses a second current baseline by a unique     *)
(* index, the in-memory one does not.                                      *)
(***************************************************************************)
EXTENDS Integers, FiniteSets

CONSTANTS Version,   \* versions of the scene
          Seeded,    \* the version that is there from the start
          Request,   \* request threads
          Unique,    \* is there a unique index
          MaxCrashes \* bound on the crashes

VARIABLES scene,      \* the record saved for each version
          request,
          overlapped, \* history: were two requests ever under way at once
          crashes

vars == <<scene, request, overlapped, crashes>>

Scene == [state : {"draft", "baseline", "archived"}, current : BOOLEAN, valid : BOOLEAN]
NoScene == [state |-> "none", current |-> FALSE, valid |-> FALSE]
Idle == [pc |-> "idle", version |-> "none", seen |-> NoScene, rest |-> {}]

(* _ensure_default_scene                                                   *)
Init ==
  /\ scene = [v \in Version |-> IF v = Seeded
                THEN [state |-> "baseline", current |-> TRUE, valid |-> TRUE] ELSE NoScene]
  /\ request = [r \in Request |-> Idle] /\ overlapped = FALSE /\ crashes = 0

-----------------------------------------------------------------------------
At(r, pc) == request[r].pc = pc
On(r) == request[r].version
Seen(r) == request[r].seen
Done(r) == request' = [request EXCEPT ![r] = Idle]

Begins(r, pc, v, seen) ==
  /\ At(r, "idle")
  /\ request' = [request EXCEPT ![r] = [Idle EXCEPT !.pc = pc, !.version = v, !.seen = seen]]
  /\ overlapped' = (overlapped \/ \E q \in Request : ~At(q, "idle"))
  /\ UNCHANGED <<scene, crashes>>

(* Only the published version itself is looked at. *)
RefusedNever(v, s) == FALSE

(* save_scene: a second current baseline is refused, and the request ends  *)
(* with the exception.                                                     *)
Refused(v, s) ==
  Unique /\ s.current /\ \E w \in Version \ {v} : scene[w].current

Saves(r, v, s) ==
  /\ IF Refused(v, s) THEN UNCHANGED scene ELSE scene' = [scene EXCEPT ![v] = s]
  /\ UNCHANGED <<overlapped, crashes>>

(* create_scene: errors of validation are kept with the draft.             *)
CreateReads(r) ==
  \E v \in Version, valid \in BOOLEAN :
    /\ scene[v] = NoScene
    /\ Begins(r, "save", v, [state |-> "draft", current |-> FALSE, valid |-> valid])

(* copy_scene: what is copied was read before. (A version never goes, so   *)
(* one that is missing when it is looked for was missing before.)          *)
CopyReads(r) ==
  \E v, source \in Version :
    /\ scene[v] = NoScene /\ scene[source] # NoScene
    /\ Begins(r, "save", v, [scene[source] EXCEPT !.state = "draft", !.current = FALSE])

(* archive_scene                                                           *)
ArchiveReads(r) ==
  \E v \in Version :
    /\ scene[v] # NoScene /\ ~scene[v].current
    /\ Begins(r, "save", v, [scene[v] EXCEPT !.state = "archived"])

SavesRecord(r) == At(r, "save") /\ Done(r) /\ Saves(r, On(r), Seen(r))

(* publish_scene_baseline: the version is read, then all are listed; every *)
(* baseline of the list is saved as a draft, one call each, then the       *)
(* version that was read as the baseline.                                  *)
PublishReads(r) ==
  \E v \in Version :
    /\ scene[v] # NoScene /\ scene[v].state # "archived" /\ scene[v].valid
    /\ Begins(r, "list", v, scene[v])

PublishLists(r) ==
  /\ At(r, "list")
  /\ request' = [request EXCEPT ![r] = [@ EXCEPT !.pc = "publish",
       !.rest = {<<v, scene[v]>> : v \in {w \in Version : scene[w].current}}]]
  /\ UNCHANGED <<scene, overlapped, crashes>>

PublishDemotes(r) ==
  /\ At(r, "publish")
  /\ \E listed \in request[r].rest :
       /\ Saves(r, listed[1], [listed[2] EXCEPT !.state = "draft", !.current = FALSE])
       /\ request' = [request EXCEPT ![r].rest = @ \ {listed}]

PublishSaves(r) ==
  /\ At(r, "publish") /\ request[r].rest = {} /\ Done(r)
  /\ Saves(r, On(r), [Seen(r) EXCEPT !.state = "baseline", !.current = TRUE])

(* The process is killed; started again, it finds the seeded version.      *)
Crash ==
  /\ crashes < MaxCrashes /\ crashes' = crashes + 1
  /\ request' = [r \in Request |-> Idle]
  /\ UNCHANGED <<scene, overlapped>>

Next ==
  \/ \E r \in Request : \/ CreateReads(r) \/ CopyReads(r) \/ ArchiveReads(r) \/ SavesRecord(r)
                        \/ PublishReads(r) \/ PublishLists(r) \/ PublishDemotes(r)
                        \/ PublishSaves(r)
  \/ Crash

Spec == Init /\ [][Next]_vars

-----------------------------------------------------------------------------
(* PROPERTIES *)

Quiet == \A r \in Request : At(r, "idle")
Current == {v \in Version : scene[v].current}

(* Every variable has its type.                                            *)
TypeOK ==
  /\ scene \in [Version -> Scene \cup {NoScene}]
  /\ request \in [Request -> [pc : {"idle", "save", "list", "publish"},
                               version : Version \cup {"none"}, seen : Scene \cup {NoScene},
                               rest : SUBSET (Version \X Scene)]]
  /\ overlapped \in BOOLEAN /\ crashes \in Nat

(* The unique index keeps one current baseline at most, however requests   *)
(* overlap and whatever a crash cuts off, and without it lone requests do. *)
(* The current baseline is the one version in that state, and it passed    *)
(* its validation, whatever stale record a request may save.  Requests     *)
(* that come one at a time and are not cut off leave a baseline behind.    *)
SceneBaseline ==
  /\ Unique \/ ~overlapped => Cardinality(Current) <= 1
  /\ \A v \in Version : /\ scene[v].state = "baseline" <=> scene[v].current
                        /\ scene[v].current => scene[v].valid
  /\ Quiet /\ ~overlapped /\ crashes = 0 => Current # {}
=============================================================================
