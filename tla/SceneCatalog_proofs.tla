------------------------- MODULE SceneCatalog_proofs -------------------------
(***************************************************************************)
(* One baseline among the versions of a scene, with the unique index       *)
(* whatever overlaps, and without it as long as nothing does.  A request   *)
(* saves a record it read before, so what it carries is part of the        *)
(* invariant.                                                              *)
(***************************************************************************)
EXTENDS SceneCatalog, FiniteSetTheorems, TLAPS

RequestState ==
  [pc : {"idle", "save", "list", "publish"}, version : Version \cup {"none"},
   seen : Scene \cup {NoScene}, rest : SUBSET (Version \X Scene)]

(* What a request carries: a draft or an archived version to be saved as   *)
(* it is, or a valid version to be published.                              *)
Carries(q) ==
  /\ q.pc # "idle" => q.version \in Version /\ q.seen \in Scene
  /\ q.pc = "save" => q.seen.state # "baseline" /\ ~q.seen.current
  /\ q.pc \in {"list", "publish"} => q.seen.valid

RecordsFit == \A r \in Request : Carries(request[r])

BaselinesAreCurrent ==
  \A v \in Version : /\ scene[v].state = "baseline" <=> scene[v].current
                     /\ scene[v].current => scene[v].valid

TypeInv == TypeOK /\ RecordsFit /\ BaselinesAreCurrent

OneCurrent == \A v, w \in Version : scene[v].current /\ scene[w].current => v = w

(* A lone request finds what it has read: the version it saves is not the  *)
(* baseline, and of the current ones those it listed are left.             *)
Alone == \A r, q \in Request : ~At(r, "idle") /\ ~At(q, "idle") => r = q

LoneRequestFinds ==
  \A r \in Request :
    /\ At(r, "save") => ~scene[On(r)].current
    /\ At(r, "publish") =>
         \A v \in Version : scene[v].current => \E listed \in request[r].rest : listed[1] = v

(* Without a crash the baseline is missing only while one is published.    *)
BaselineThere ==
  (\E v \in Version : scene[v].current) \/ (\E r \in Request : At(r, "publish"))

LoneInv == Alone /\ LoneRequestFinds /\ OneCurrent /\ (crashes = 0 => BaselineThere)

BaselineInv == TypeInv /\ (Unique => OneCurrent) /\ (~overlapped => LoneInv)

-----------------------------------------------------------------------------
LEMMA IdleFits == Idle \in RequestState /\ Carries(Idle) /\ Idle.pc = "idle"
BY DEF Idle, RequestState, Carries

LEMMA RequestTypes ==
  ASSUME TypeInv, NEW r \in Request
  PROVE  request[r] \in RequestState /\ Carries(request[r])
BY DEF TypeInv, TypeOK, RecordsFit, RequestState

(* A step of one request r, which afterwards is q.                         *)
LEMMA RequestMoves ==
  ASSUME TypeInv, NEW r \in Request, NEW q \in RequestState, Carries(q),
         request' = [request EXCEPT ![r] = q]
  PROVE  /\ request' \in [Request -> RequestState] /\ RecordsFit'
         /\ request'[r] = q /\ \A p \in Request : p # r => request'[p] = request[p]
<1>1. request \in [Request -> RequestState] BY DEF TypeInv, TypeOK, RequestState
<1>2. request'[r] = q /\ \A p \in Request : p # r => request'[p] = request[p] BY <1>1
<1>. QED BY <1>1, <1>2 DEF TypeInv, RecordsFit

(* A record that is saved, or refused.                                     *)
LEMMA RecordSaved ==
  ASSUME TypeInv, NEW r, NEW v \in Version, NEW s \in Scene, Saves(r, v, s),
         s.state = "baseline" <=> s.current, s.current => s.valid
  PROVE  /\ scene' \in [Version -> Scene \cup {NoScene}] /\ BaselinesAreCurrent'
         /\ UNCHANGED <<overlapped, crashes>>
         /\ \A w \in Version : scene'[w].current =>
              (scene[w].current /\ (w = v => scene' = scene)) \/ (w = v /\ s.current)
         /\ \A w \in Version : w # v => scene'[w] = scene[w]
         /\ Unique /\ OneCurrent => OneCurrent'
<1>1. scene \in [Version -> Scene \cup {NoScene}] BY DEF TypeInv, TypeOK
<1>2. UNCHANGED <<overlapped, crashes>> BY DEF Saves
<1>3. CASE UNCHANGED scene
  BY <1>1, <1>2, <1>3 DEF TypeInv, BaselinesAreCurrent, OneCurrent
<1>4. CASE ~Refused(v, s) /\ scene' = [scene EXCEPT ![v] = s]
  <2>1. scene'[v] = s /\ \A w \in Version : w # v => scene'[w] = scene[w] BY <1>1, <1>4
  <2>2. scene' \in [Version -> Scene \cup {NoScene}] BY <1>1, <1>4
  <2>3. BaselinesAreCurrent' BY <2>1 DEF TypeInv, BaselinesAreCurrent
  <2>4. Unique /\ OneCurrent => OneCurrent' BY <1>4, <2>1 DEF OneCurrent, Refused
  <2>. QED BY <1>2, <2>1, <2>2, <2>3, <2>4
<1>. QED BY <1>3, <1>4 DEF Saves

LEMMA TypeParts ==
  ASSUME TypeInv, request' \in [Request -> RequestState], RecordsFit',
         scene' \in [Version -> Scene \cup {NoScene}], BaselinesAreCurrent',
         overlapped' \in BOOLEAN, crashes' \in Nat
  PROVE  TypeInv'
BY DEF TypeInv, TypeOK, RequestState

-----------------------------------------------------------------------------
(* A request that begins: if it is to stay alone, nobody else is under way.*)
LEMMA BeginsKeeps ==
  ASSUME BaselineInv, NEW r \in Request, NEW pc \in {"save", "list"}, NEW v \in Version,
         NEW s \in Scene, Begins(r, pc, v, s),
         pc = "save" => s.state # "baseline" /\ ~s.current /\ ~scene[v].current,
         pc = "list" => s.valid
  PROVE  BaselineInv'
<1>. DEFINE q == [Idle EXCEPT !.pc = pc, !.version = v, !.seen = s]
<1>1. q \in RequestState /\ Carries(q) /\ q.pc = pc /\ q.version = v
  BY DEF Idle, RequestState, Carries
<1>2. /\ request' = [request EXCEPT ![r] = q] /\ UNCHANGED <<scene, crashes>>
      /\ overlapped' = (overlapped \/ \E p \in Request : ~At(p, "idle")) /\ At(r, "idle")
  BY DEF Begins
<1>. HIDE DEF q
<1>3. /\ request' \in [Request -> RequestState] /\ RecordsFit'
      /\ request'[r] = q /\ \A p \in Request : p # r => request'[p] = request[p]
  BY <1>1, <1>2, RequestMoves DEF BaselineInv
<1>4. TypeInv'
  <2>1. overlapped' \in BOOLEAN /\ crashes' \in Nat
    BY <1>2 DEF BaselineInv, TypeInv, TypeOK
  <2>2. scene' \in [Version -> Scene \cup {NoScene}] /\ BaselinesAreCurrent'
    BY <1>2 DEF BaselineInv, TypeInv, TypeOK, BaselinesAreCurrent
  <2>. QED BY <1>3, <2>1, <2>2, TypeParts DEF BaselineInv
<1>5. (Unique => OneCurrent)' BY <1>2 DEF BaselineInv, OneCurrent
<1>6. ASSUME ~overlapped' PROVE LoneInv'
  <2>1. ~overlapped /\ \A p \in Request : At(p, "idle") BY <1>2, <1>6
  <2>2. \A p \in Request : p # r => request'[p].pc = "idle" BY <1>3, <2>1 DEF At
  <2>3. Alone' BY <2>2 DEF Alone, At
  <2>4. LoneRequestFinds' BY <1>1, <1>2, <1>3, <2>2 DEF LoneRequestFinds, At, On
  <2>5. OneCurrent' BY <1>2, <2>1 DEF BaselineInv, LoneInv, OneCurrent
  <2>6. (crashes = 0 => BaselineThere)'
    BY <1>2, <2>1 DEF BaselineInv, LoneInv, BaselineThere, At
  <2>. QED BY <2>3, <2>4, <2>5, <2>6 DEF LoneInv
<1>. QED BY <1>4, <1>5, <1>6 DEF BaselineInv

(* What Create and Copy make of a version.                                 *)
LEMMA DraftIsScene ==
  ASSUME NEW valid \in BOOLEAN, NEW s,
         s = [state |-> "draft", current |-> FALSE, valid |-> valid]
  PROVE  s \in Scene /\ s.state # "baseline" /\ ~s.current
<1>1. "draft" \in {"draft", "baseline", "archived"} /\ FALSE \in BOOLEAN /\ valid \in BOOLEAN
  OBVIOUS
<1>2. s \in Scene BY <1>1, Zenon DEF Scene
<1>3. s.state = "draft" /\ s.current = FALSE OBVIOUS
<1>. QED BY <1>2, <1>3

LEMMA CopyIsScene ==
  ASSUME NEW q \in Scene, NEW s, s = [q EXCEPT !.state = "draft", !.current = FALSE]
  PROVE  s \in Scene /\ s.state # "baseline" /\ ~s.current
<1>1. q.valid \in BOOLEAN /\ q = [state |-> q.state, current |-> q.current, valid |-> q.valid]
  BY DEF Scene
<1>2. s = [state |-> "draft", current |-> FALSE, valid |-> q.valid] BY <1>1
<1>. QED BY <1>1, <1>2, DraftIsScene

(* A record is created, copied or archived.                                *)
LEMMA RecordReads ==
  ASSUME BaselineInv, NEW r \in Request, CreateReads(r) \/ CopyReads(r) \/ ArchiveReads(r)
  PROVE  BaselineInv'
<1>0. scene \in [Version -> Scene \cup {NoScene}] /\ BaselinesAreCurrent
  BY DEF BaselineInv, TypeInv, TypeOK
<1>1. CASE CreateReads(r)
  <2>1. PICK v \in Version, valid \in BOOLEAN :
          /\ scene[v] = NoScene
          /\ Begins(r, "save", v, [state |-> "draft", current |-> FALSE, valid |-> valid])
    BY <1>1 DEF CreateReads
  <2>. DEFINE s == [state |-> "draft", current |-> FALSE, valid |-> valid]
  <2>2. s \in Scene /\ s.state # "baseline" /\ ~s.current
    <3>1. s = [state |-> "draft", current |-> FALSE, valid |-> valid] OBVIOUS
    <3>. HIDE DEF s
    <3>. QED BY <3>1, DraftIsScene
  <2>3. ~scene[v].current BY <2>1 DEF NoScene
  <2>4. Begins(r, "save", v, s) BY <2>1
  <2>. HIDE DEF s
  <2>. QED BY <2>2, <2>3, <2>4, BeginsKeeps
<1>2. CASE CopyReads(r)
  <2>1. PICK v \in Version, source \in Version :
          /\ scene[v] = NoScene /\ scene[source] # NoScene
          /\ Begins(r, "save", v, [scene[source] EXCEPT !.state = "draft", !.current = FALSE])
    BY <1>2 DEF CopyReads
  <2>. DEFINE s == [scene[source] EXCEPT !.state = "draft", !.current = FALSE]
  <2>2. s \in Scene /\ s.state # "baseline" /\ ~s.current
    <3>1. scene[source] \in Scene BY <1>0, <2>1
    <3>2. s = [scene[source] EXCEPT !.state = "draft", !.current = FALSE] OBVIOUS
    <3>. HIDE DEF s
    <3>. QED BY <3>1, <3>2, CopyIsScene
  <2>3. ~scene[v].current BY <2>1 DEF NoScene
  <2>4. Begins(r, "save", v, s) BY <2>1
  <2>. HIDE DEF s
  <2>. QED BY <2>2, <2>3, <2>4, BeginsKeeps
<1>3. CASE ArchiveReads(r)
  <2>1. PICK v \in Version : /\ scene[v] # NoScene /\ ~scene[v].current
                             /\ Begins(r, "save", v, [scene[v] EXCEPT !.state = "archived"])
    BY <1>3 DEF ArchiveReads
  <2>. DEFINE s == [scene[v] EXCEPT !.state = "archived"]
  <2>2. s \in Scene /\ s.state # "baseline" /\ ~s.current BY <1>0, <2>1 DEF Scene
  <2>3. Begins(r, "save", v, s) BY <2>1
  <2>. HIDE DEF s
  <2>. QED BY <2>1, <2>2, <2>3, BeginsKeeps
<1>. QED BY <1>1, <1>2, <1>3

LEMMA PublishBegins ==
  ASSUME BaselineInv, NEW r \in Request, PublishReads(r) PROVE BaselineInv'
<1>0. scene \in [Version -> Scene \cup {NoScene}] BY DEF BaselineInv, TypeInv, TypeOK
<1>1. PICK v \in Version :
        /\ scene[v] # NoScene /\ scene[v].valid /\ Begins(r, "list", v, scene[v])
  BY DEF PublishReads
<1>. QED BY <1>0, <1>1, BeginsKeeps

(* While one request alone is under way, the others are idle.              *)
LEMMA OthersIdle ==
  ASSUME BaselineInv, NEW r \in Request, ~At(r, "idle"), ~overlapped
  PROVE  LoneInv /\ \A p \in Request : p # r => At(p, "idle")
BY DEF BaselineInv, LoneInv, Alone

LEMMA RecordSaves == ASSUME BaselineInv, NEW r \in Request, SavesRecord(r) PROVE BaselineInv'
<1>0. /\ request[r] \in RequestState /\ Carries(request[r]) /\ request[r].pc = "save"
      /\ TypeInv /\ overlapped \in BOOLEAN /\ crashes \in Nat
  BY RequestTypes DEF SavesRecord, At, BaselineInv, TypeInv, TypeOK
<1>1. /\ On(r) \in Version /\ Seen(r) \in Scene /\ Seen(r).state # "baseline"
      /\ ~Seen(r).current /\ Saves(r, On(r), Seen(r))
      /\ request' = [request EXCEPT ![r] = Idle]
  BY <1>0 DEF SavesRecord, Carries, On, Seen, Done
<1>2. /\ scene' \in [Version -> Scene \cup {NoScene}] /\ BaselinesAreCurrent'
      /\ UNCHANGED <<overlapped, crashes>>
      /\ \A w \in Version : scene'[w].current => scene[w].current
      /\ \A w \in Version : w # On(r) => scene'[w] = scene[w]
      /\ Unique /\ OneCurrent => OneCurrent'
  BY <1>0, <1>1, RecordSaved
<1>3. /\ request' \in [Request -> RequestState] /\ RecordsFit'
      /\ request'[r].pc = "idle" /\ \A p \in Request : p # r => request'[p] = request[p]
  BY <1>0, <1>1, IdleFits, RequestMoves
<1>4. TypeInv' BY <1>0, <1>2, <1>3, TypeParts
<1>5. ASSUME ~overlapped PROVE LoneInv'
  <2>1. LoneInv /\ \A p \in Request : request'[p].pc = "idle" /\ (p # r => At(p, "idle"))
    BY <1>0, <1>3, <1>5, OthersIdle DEF At
  <2>2. ~scene[On(r)].current BY <1>0, <2>1 DEF LoneInv, LoneRequestFinds, At
  <2>3. \A w \in Version : scene[w].current => scene'[w].current BY <1>2, <2>2
  <2>4. Alone' /\ LoneRequestFinds' BY <2>1 DEF Alone, LoneRequestFinds, At
  <2>5. OneCurrent' BY <1>2, <2>1 DEF LoneInv, OneCurrent
  <2>6. (crashes = 0 => BaselineThere)'
    BY <1>0, <1>2, <2>1, <2>3 DEF LoneInv, BaselineThere, At
  <2>. QED BY <2>4, <2>5, <2>6 DEF LoneInv
<1>. QED BY <1>2, <1>4, <1>5 DEF BaselineInv

LEMMA PublishListsAll == ASSUME BaselineInv, NEW r \in Request, PublishLists(r) PROVE BaselineInv'
<1>. DEFINE all == {<<v, scene[v]>> : v \in {w \in Version : scene[w].current}}
            q == [request[r] EXCEPT !.pc = "publish", !.rest = all]
<1>0. /\ request[r] \in RequestState /\ Carries(request[r]) /\ request[r].pc = "list"
      /\ TypeInv /\ scene \in [Version -> Scene \cup {NoScene}]
      /\ overlapped \in BOOLEAN /\ crashes \in Nat
  BY RequestTypes DEF PublishLists, At, BaselineInv, TypeInv, TypeOK
<1>1. all \in SUBSET (Version \X Scene)
  <2>1. \A v \in Version : scene[v].current => scene[v] \in Scene BY <1>0 DEF NoScene
  <2>. QED BY <2>1
<1>2. \A v \in Version : scene[v].current => \E listed \in all : listed[1] = v
  <2>. SUFFICES ASSUME NEW v \in Version, scene[v].current
                PROVE  \E listed \in all : listed[1] = v
    OBVIOUS
  <2>1. <<v, scene[v]>> \in all OBVIOUS
  <2>. HIDE DEF all
  <2>. QED BY <2>1
<1>3. request' = [request EXCEPT ![r] = q] /\ UNCHANGED <<scene, overlapped, crashes>>
  BY DEF PublishLists, BaselineInv, TypeInv, TypeOK
<1>4. q \in RequestState /\ Carries(q) /\ q.pc = "publish" /\ q.rest = all
  <2>. HIDE DEF all
  <2>. QED BY <1>0, <1>1 DEF RequestState, Carries
<1>. HIDE DEF q, all
<1>5. /\ request' \in [Request -> RequestState] /\ RecordsFit'
      /\ request'[r] = q /\ \A p \in Request : p # r => request'[p] = request[p]
  BY <1>0, <1>3, <1>4, RequestMoves
<1>6. TypeInv'
  BY <1>0, <1>3, <1>5, TypeParts DEF TypeInv, BaselinesAreCurrent
<1>7. ASSUME ~overlapped PROVE LoneInv'
  <2>1. LoneInv /\ \A p \in Request : p # r => request'[p].pc = "idle"
    BY <1>0, <1>5, <1>7, OthersIdle DEF At
  <2>2. Alone' BY <2>1 DEF Alone, At
  <2>3. LoneRequestFinds' BY <1>2, <1>3, <1>4, <1>5, <2>1 DEF LoneRequestFinds, At
  <2>4. OneCurrent' BY <1>3, <2>1 DEF LoneInv, OneCurrent
  <2>5. BaselineThere' BY <1>4, <1>5 DEF BaselineThere, At
  <2>. QED BY <2>2, <2>3, <2>4, <2>5 DEF LoneInv
<1>. QED BY <1>3, <1>6, <1>7 DEF BaselineInv, OneCurrent

LEMMA PublishDemotesOne ==
  ASSUME BaselineInv, NEW r \in Request, PublishDemotes(r) PROVE BaselineInv'
<1>1. PICK listed \in request[r].rest :
        /\ Saves(r, listed[1], [listed[2] EXCEPT !.state = "draft", !.current = FALSE])
        /\ request' = [request EXCEPT ![r].rest = @ \ {listed}]
  BY DEF PublishDemotes
<1>. DEFINE s == [listed[2] EXCEPT !.state = "draft", !.current = FALSE]
            q == [request[r] EXCEPT !.rest = @ \ {listed}]
<1>0. /\ request[r] \in RequestState /\ Carries(request[r]) /\ request[r].pc = "publish"
      /\ TypeInv /\ overlapped \in BOOLEAN /\ crashes \in Nat
  BY RequestTypes DEF PublishDemotes, At, BaselineInv, TypeInv, TypeOK
<1>2. listed[1] \in Version /\ listed[2] \in Scene BY <1>0 DEF RequestState
<1>3. s \in Scene /\ s.state # "baseline" /\ ~s.current BY <1>2 DEF Scene
<1>4. /\ q \in RequestState /\ Carries(q) /\ q.pc = "publish"
      /\ q.rest = request[r].rest \ {listed}
  BY <1>0 DEF RequestState, Carries
<1>5. request' = [request EXCEPT ![r] = q] BY <1>1, <1>0 DEF TypeInv, TypeOK
<1>6. Saves(r, listed[1], s) BY <1>1
<1>. HIDE DEF q, s
<1>7. /\ scene' \in [Version -> Scene \cup {NoScene}] /\ BaselinesAreCurrent'
      /\ UNCHANGED <<overlapped, crashes>>
      /\ \A w \in Version : scene'[w].current =>
           scene[w].current /\ (w = listed[1] => scene' = scene)
      /\ \A w \in Version : w # listed[1] => scene'[w] = scene[w]
      /\ Unique /\ OneCurrent => OneCurrent'
  BY <1>0, <1>2, <1>3, <1>6, RecordSaved
<1>8. scene'[listed[1]] = s
  BY <1>3, <1>6, <1>2 DEF Saves, Refused, BaselineInv, TypeInv, TypeOK
<1>9. /\ request' \in [Request -> RequestState] /\ RecordsFit'
      /\ request'[r] = q /\ \A p \in Request : p # r => request'[p] = request[p]
  BY <1>0, <1>4, <1>5, RequestMoves
<1>10. TypeInv' BY <1>0, <1>7, <1>9, TypeParts
<1>11. ASSUME ~overlapped PROVE LoneInv'
  <2>1. LoneInv /\ \A p \in Request : p # r => request'[p].pc = "idle"
    BY <1>0, <1>9, <1>11, OthersIdle DEF At
  <2>2. Alone' BY <2>1 DEF Alone, At
  <2>3. \A v \in Version : scene[v].current => \E l \in request[r].rest : l[1] = v
    BY <1>0, <2>1 DEF LoneInv, LoneRequestFinds, At
  <2>4. \A v \in Version : scene'[v].current => v # listed[1] BY <1>3, <1>8
  <2>5. \A v \in Version : scene'[v].current => \E l \in q.rest : l[1] = v
    BY <1>4, <1>7, <2>3, <2>4
  <2>6. LoneRequestFinds' BY <1>4, <1>9, <2>1, <2>5 DEF LoneRequestFinds, At
  <2>7. OneCurrent' BY <1>7, <2>1 DEF LoneInv, OneCurrent
  <2>8. BaselineThere' BY <1>4, <1>9 DEF BaselineThere, At
  <2>. QED BY <2>2, <2>6, <2>7, <2>8 DEF LoneInv
<1>. QED BY <1>7, <1>10, <1>11 DEF BaselineInv

LEMMA PublishSavesBaseline ==
  ASSUME BaselineInv, NEW r \in Request, PublishSaves(r) PROVE BaselineInv'
<1>. DEFINE s == [Seen(r) EXCEPT !.state = "baseline", !.current = TRUE]
<1>0. /\ request[r] \in RequestState /\ Carries(request[r]) /\ request[r].pc = "publish"
      /\ request[r].rest = {} /\ request' = [request EXCEPT ![r] = Idle]
      /\ TypeInv /\ overlapped \in BOOLEAN /\ crashes \in Nat /\ Saves(r, On(r), s)
      /\ scene \in [Version -> Scene \cup {NoScene}]
  BY RequestTypes DEF PublishSaves, At, BaselineInv, TypeInv, TypeOK, Done
<1>1. On(r) \in Version /\ Seen(r) \in Scene /\ Seen(r).valid
  BY <1>0 DEF Carries, On, Seen
<1>2. s \in Scene /\ s.state = "baseline" /\ s.current /\ s.valid BY <1>1 DEF Scene
<1>. HIDE DEF s
<1>3. /\ scene' \in [Version -> Scene \cup {NoScene}] /\ BaselinesAreCurrent'
      /\ UNCHANGED <<overlapped, crashes>>
      /\ \A w \in Version : scene'[w].current => scene[w].current \/ w = On(r)
      /\ \A w \in Version : w # On(r) => scene'[w] = scene[w]
      /\ Unique /\ OneCurrent => OneCurrent'
  BY <1>0, <1>1, <1>2, RecordSaved
<1>4. /\ request' \in [Request -> RequestState] /\ RecordsFit'
      /\ request'[r].pc = "idle" /\ \A p \in Request : p # r => request'[p] = request[p]
  BY <1>0, IdleFits, RequestMoves
<1>5. TypeInv' BY <1>0, <1>3, <1>4, TypeParts
<1>6. \E w \in Version : scene'[w].current
  BY <1>0, <1>1, <1>2 DEF Saves, Refused
<1>7. ASSUME ~overlapped PROVE LoneInv'
  <2>1. LoneInv /\ \A p \in Request : request'[p].pc = "idle"
    BY <1>0, <1>4, <1>7, OthersIdle DEF At
  <2>2. Alone' /\ LoneRequestFinds' BY <2>1 DEF Alone, LoneRequestFinds, At
  <2>3. \A v \in Version : ~scene[v].current
    BY <1>0, <2>1 DEF LoneInv, LoneRequestFinds, At
  <2>4. OneCurrent' BY <1>3, <2>3 DEF OneCurrent
  <2>5. BaselineThere' BY <1>6 DEF BaselineThere
  <2>. QED BY <2>2, <2>4, <2>5 DEF LoneInv
<1>. QED BY <1>3, <1>5, <1>7 DEF BaselineInv

LEMMA CrashKeeps == ASSUME BaselineInv, Crash PROVE BaselineInv'
<1>1. /\ request' = [r \in Request |-> Idle] /\ UNCHANGED <<scene, overlapped>>
      /\ crashes' = crashes + 1 /\ crashes \in Nat
  BY DEF Crash, BaselineInv, TypeInv, TypeOK
<1>2. request' \in [Request -> RequestState] /\ RecordsFit'
  BY <1>1, IdleFits DEF RecordsFit
<1>3. TypeInv'
  BY <1>1, <1>2, TypeParts DEF BaselineInv, TypeInv, TypeOK, BaselinesAreCurrent
<1>4. \A r \in Request : request'[r].pc = "idle" BY <1>1, IdleFits
<1>5. Alone' /\ LoneRequestFinds' BY <1>4 DEF Alone, LoneRequestFinds, At
<1>6. crashes' # 0 BY <1>1
<1>. QED BY <1>1, <1>3, <1>5, <1>6 DEF BaselineInv, LoneInv, OneCurrent

LEMMA BaselineStep == ASSUME BaselineInv, [Next]_vars PROVE BaselineInv'
<1>1. CASE UNCHANGED vars
  <2>1. TypeInv' BY <1>1 DEF BaselineInv, TypeInv, TypeOK, RecordsFit, BaselinesAreCurrent, vars
  <2>2. (Unique => OneCurrent)' /\ (overlapped' <=> overlapped)
    BY <1>1 DEF BaselineInv, OneCurrent, vars
  <2>3. LoneInv => LoneInv'
    BY <1>1 DEF LoneInv, Alone, LoneRequestFinds, OneCurrent, BaselineThere, At, On, vars
  <2>. QED BY <2>1, <2>2, <2>3 DEF BaselineInv
<1>2. CASE Next
  BY <1>2, RecordReads, PublishBegins, RecordSaves, PublishListsAll, PublishDemotesOne,
     PublishSavesBaseline, CrashKeeps DEF Next
<1>. QED BY <1>1, <1>2

LEMMA InitBaseline == ASSUME Seeded \in Version, Init PROVE BaselineInv
<1>1. \A v \in Version : /\ scene[v] \in Scene \cup {NoScene}
                         /\ scene[v].current <=> v = Seeded
                         /\ scene[v].state = "baseline" <=> v = Seeded
                         /\ scene[v].valid <=> v = Seeded
  BY DEF Init, Scene, NoScene
<1>2. request = [r \in Request |-> Idle] /\ overlapped = FALSE /\ crashes = 0
      /\ scene \in [Version -> Scene \cup {NoScene}]
  BY <1>1 DEF Init
<1>3. request \in [Request -> RequestState] /\ RecordsFit BY <1>2, IdleFits DEF RecordsFit
<1>4. TypeInv
  BY <1>1, <1>2, <1>3 DEF TypeInv, TypeOK, RequestState, BaselinesAreCurrent
<1>5. OneCurrent BY <1>1 DEF OneCurrent
<1>6. \A r \in Request : request[r].pc = "idle" BY <1>2, IdleFits
<1>7. LoneInv BY <1>1, <1>5, <1>6 DEF LoneInv, Alone, LoneRequestFinds, BaselineThere, At
<1>. QED BY <1>4, <1>5, <1>7 DEF BaselineInv

(* One current version has cardinality one.                                *)
LEMMA BaselineInvImplies == ASSUME BaselineInv PROVE TypeOK /\ SceneBaseline
<1>1. TypeOK BY DEF BaselineInv, TypeInv
<1>2. OneCurrent => Cardinality(Current) <= 1
  <2>. SUFFICES ASSUME OneCurrent PROVE Cardinality(Current) <= 1 OBVIOUS
  <2>1. CASE Current = {} BY <2>1, FS_EmptySet
  <2>2. CASE Current # {}
    <3>1. PICK v : Current = {v} BY <2>2 DEF OneCurrent, Current
    <3>. QED BY <3>1, FS_Singleton
  <2>. QED BY <2>1, <2>2
<1>3. Unique \/ ~overlapped => OneCurrent BY DEF BaselineInv, LoneInv
<1>4. Quiet /\ ~overlapped /\ crashes = 0 => Current # {}
  BY DEF BaselineInv, LoneInv, BaselineThere, Quiet, At, Current
<1>. QED BY <1>1, <1>2, <1>3, <1>4
     DEF SceneBaseline, BaselineInv, TypeInv, BaselinesAreCurrent

(* However requests overlap and wherever a crash cuts one off, the unique  *)
(* index keeps one current baseline at most; requests that come one at a   *)
(* time keep one without it, and leave one behind.                         *)
THEOREM BaselineKept == ASSUME Seeded \in Version PROVE Spec => []SceneBaseline
BY InitBaseline, BaselineStep, BaselineInvImplies, PTL DEF Spec

(* Every variable has its type.                                            *)
THEOREM TypeCorrect == ASSUME Seeded \in Version PROVE Spec => []TypeOK
BY InitBaseline, BaselineStep, BaselineInvImplies, PTL DEF Spec
=============================================================================
