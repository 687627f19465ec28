# Formal models of QRICS

QRICS takes a task in Chinese, turns it into a task graph, and lets a quadruped
robot walk it under a safety shield, in simulation. A C++20 core (`include/`,
`src/`) holds task understanding, planning, control, safety, audit, replay and
the policy registry; a Python layer (`python/qrics/`) holds the application API,
the repositories, the simulation backends, the presentation windows and the Web
console. These modules model the parts that decide: what a control step may send
to the robot, which run state an operator sees, which policy may be released, and
what the application keeps of tasks, scenes, training jobs, events and evidence when
requests overlap, calls fail and the process dies.

Paths below are relative to the repository root.

## The system

| Component | State it keeps | Operations | Talks to |
|---|---|---|---|
| Task executor and control loop (`src/control/task_executor.cpp`) | `TaskExecutionSnapshot`: run state, current node, node states and times, count | `start`, `step_once` | planner, shield, adapter |
| Local planner, recovery, avoidance, path tracker (`src/control/`) | none | `plan` | called by the policy runtime |
| Safety shield (`include/qrics/safety/safety_shield.hpp`) | limits | `evaluate` | called by the control loop |
| Simulation adapter (`src/simulation/`) | pose, velocity, pending action | `reset`, `step`, `observe` | control loop |
| Local task run engine (`src/runtime/`) | one run's summary | `run` | executor, adapter, route planner |
| Task understanding, orchestrator (`src/task/`) | `TaskSession` by id | submit, confirm, hand off, cancel | session store, pipeline |
| Policy registry, gate engine (`src/training/`) | entries, reports, approvals | register, attach, release, promote, roll back, archive | audit store |
| Audit log, replay manifest, event sink (`src/audit`, `src/replay`, `src/events`) | records, key frames, events | append, query, finalize | registry, engine, API |
| Application API (`python/qrics/api/app.py`) | none but its threads | tasks, control runs, overrides, policies, training jobs, scenes, exports | repository, core runtime, runner, event stream |
| Repositories (`python/qrics/api/*repository.py`) | tables | one locked call at a time | API |
| Simulation runner and presentation channel (`simulation_runner.py`, `presentation_channel.py`, `scripts/run_local_sim_demo.py`) | open windows, command files | launch, send command, consume | API threads, viewer process |
| Simulation backends (`python/qrics/sim/backends/`) | physics state | reset, step, close | runner |
| HTTP facade, event stream, Web console, tools | sockets, cursors | routes, polling | API |

What is hard in it: an API request is a thread of its own, an asynchronous run adds
two daemon threads and a viewer process, and all of them replace whole records in a
repository that locks single calls; a control step has some twenty conditions that
may hold at once and a fixed order in which they are looked at; governance rests
on evidence that is saved apart from what it supports. `PROJECT.json` lists the
hazards, each at its line, with the properties that cover it.

What makes each component correct:

- executor: the nodes that succeeded are a stretch of the route, one node in
  flight, the count and the times agree with the node states, an operator's stop
  halts the run unless the step finds the robot arrived, a halted run moves only by a
  new start;
- planner and shield in series: no velocity against anything the step knew;
- API run: an accepted run gets a result, nobody invents an arrival, every override
  saved is audited, a stop reaches the window, the evidence of the core is shown;
- registry and governance: one baseline, published only on evidence;
- task API: what runs was accepted, confirmed and handed off; a task on which
  requests come one at a time runs once and never when cancelled; events tell states;
- scene catalog: one baseline, a valid one; training: a trained policy comes from a
  job that succeeded, and an end is final;
- repository and object store: calls are atomic, rows point to whole files;
- request path: no role does what it may not, and evidence never says what was not done;
- parser: every mention of a waypoint is passed, in order; planner: cheapest path,
  over free places, and clear wherever it was looked at; simulation run: targets in
  order, each dwelt at once, budget sufficient; windows and backends: they follow the
  last command, and the scene and steps of the run they are in;
- C++ sessions: a session handed off was confirmed since its last submission, and its
  graph passes what the scene knows under published policies only; local run: the
  summary says what happened, the robot stands where the graph says it is, the extended
  budget suffices on flat ground, and an evidence bundle names complete files;
- C++ replay and audit (not modelled): what is recorded is kept.

## Modules

### The control step

`SafetyShield` translates `BasicSafetyShield::evaluate` with its early returns in
their order; `LocalPlanner` translates `SimpleLocalPlanner::plan` and the recovery,
avoidance and path-tracking controllers it calls. Both are pure operators.
Distances and angles are bands (`low`/`high` risk, obstacle `none`, `contact`,
`hard`, ...), since the code compares them with limits only. `TaskExecutor` is the
state machine: `Start(t)` is `TaskExecutor::start`, `StepOnce(r, t)` is
`step_once`, one disjunct for each way it returns. Everything a step meets (the
adapter's answers, body state, sensors, operator flags) is a record `r` of the
constant set `Reading`. `Node`, `Succ` and `NodeType` are the task graph; `Id` may
hold ids without a node, because `start` checks the entry node only.
`TaskRoute` is the abstract specification: a run walks along edges, completes the
node it stands on, halts, and moves again only by a new start. `WalksItsRoute`
says that `TaskExecutor` implements it.

### The control run

`ControlRun` models one asynchronous run of the API: acceptance, the progress
thread (`_run_background_progress`, with read and write as separate steps), the
handoff thread (core, presentation, simulation, save, replay, and the exception at
any point), `override_control` by several request threads (read, dispatch, write,
save, audit), and the viewer with its command directory. Command files have stamps
taken before they are written, so they may appear out of order; the viewer takes
all it finds and the last one decides. The status is the part of
`ControlStatusResponse` that these threads look at or disagree about. `Loaded` is
what the repository gives back of it: the SQLite one (`Durable`) writes the fields of
the C++ core's run and does not read them.

### Policies

`PolicyRegistry` models `InMemoryPolicyRegistry` of the C++ core, each call one
step (it is called from one thread), with an audit store that may refuse a record.
`PolicyBaseline` is its abstract specification, `GovernsBaseline` the refinement.
`PolicyGovernance` models the same governance in the Python API, which is another
implementation with other guards: each request is a sequence of repository calls,
and requests overlap. `Unique` says whether the repository has the unique index on
the current baseline: the SQLite one has, the in-memory one has not; with it, a
second baseline is refused and the request ends there. `evaluated` and `made` are bookkeeping: the policies with a
passed report at some time, and the clock of the approvals' time stamps.

### The other requests of the API

`TaskLifecycle`, `SceneCatalog` and `TrainingJobs` are written alike: a request reads
what it is about, decides, saves whole records and appends events, one repository
call a step, and `Crash` may kill the process between any two steps; the tables stay
and nothing is taken up again. `TaskLifecycle` follows submit, confirm, handoff
(synchronous or by a worker thread) and cancel, alone or as the one-click run, which is
`Following`. The histories `was`, `runs`, `shared`, `cut` (and `finished`,
`overlapped`) record the past for the properties and are read by no guard.

`ApiRequests` follows one request of each client from header to answer: the body is
checked before anything else (`http_app.py` builds the payload, and a `ValueError`
is a 422; confirming a task and starting a job look at no body, and a handoff needs
none), the role is normalised, permission and reason are checked and the refusal
audited, what its state forbids is a 409, the change is saved, and the audit row, its event, the operation's own event
and their entries in the stream in memory follow, each a step. The permission sets
are those of `security.py`. Only the export of an evaluation report has its change
modelled to the letter, because its id is made of the number of events; the other
changes are in the modules above.

`Repository` is the SQLite repository under the lock of each method, with its open
transaction (`work`), rollback, unique index, the counted event numbers, and the
object store's temporary file, rename and row. `Records` is its abstract
specification, atomic calls on rows, logs and files, and `KeepsItsPromise` the
refinement; it is what licenses one repository call as one step in all the other
modules.

### From text to motion

`TaskParser` takes a text as a sequence of words (in pinyin) and the assets of a
scene, builds the catalog of aliases the scene widens, finds the mentions, reads
dwells and Chinese numerals, and makes the draft and its task graph. As in the code an
alias is looked for again behind the place where it was found. Every wording is left
out.

`RoutePlanner` is the Python planner with its geometry, in millimetres: straight leg,
the grid laid over the scene, the cells next to the two ends (which lie between the
cells, and are put back before and behind the path), the search with heap, entry counter
and skipped entries, simplification, thinning, removal of duplicates. What blocks a
point or a line and what ground costs is computed from obstacles, zones and regions; a
zone is a rectangle, and the costs of steps are rounded to hundredths. The planner's
configuration is a set of constants, and the run uses a coarse one (cells of 345 mm
instead of 60, samples every 100 mm instead of 25, four points of a leg instead of 38),
so that a scene of a few obstacles has turns, thinned paths and too large grids. It uses
RECURSIVE operators and is for TLC only.

`SimulationRun` is the runner's loop of one API run: the backend is initialised,
loaded, reset and stepped, the controller walks the route and dwells, obstacles stop
it, the budget is estimated from the route, and the backend is closed however the run
ends. A position is a distance to the next waypoint; MuJoCo may move less than
commanded or drift, minimal and Webots move exactly.

`SimulationBackend` is the three adapters behind the facade under calls in any order,
with failures, MuJoCo's viewer and Webots' command bundle; positions are on a line, at
the height each backend has its base, and what the robot observes there is computed from
the scene: boxes, spheres and cylinders each have the clearance the code gives them,
rounded down to a centimetre.

`LocalRun` is `run_local_task`, the C++ counterpart: the request is refused, planned
only, or becomes a task graph that `TaskExecutor` (an instance of that module, whose
readings are now what the adapter gives) walks for as many control steps as the budget
allows. The kinematic adapter's pose is computed: path tracker, gait and terrain scale
the speed, in units of 10 micrometres along a line, for the control period of 0.04 s.
Forbidden zones lie across the line; obstacles beside it, and so the lateral bias of the
avoidance, are left out. Then come the summary pinned to the final target, the closing of
the adapter, and the five evidence files, each of which may fail to open.

`TaskOrchestrator` is the C++ session service, one call at a time: submit with
constraint engine, policy selector and graph planner (what the parser makes of a text is
data), confirm, hand off, cancel, over the store of sessions by id.

`PresentationWindow` is the frame loop of the MuJoCo viewer script and of the Webots
controller: a frame lists the command files it has not consumed, takes them one after
the other, each a step, and moves the robot once; files may be written at any time.

### What records the past

Besides the histories named above, these record the past for a property's sake and are
read by no guard:
`ordered`, `path_written` and `stop_due` in `ControlRun`, `refused` in
`PolicyRegistry`, `evaluated` in `PolicyGovernance`.

## Runs

| Run | Question | Bounds |
|---|---|---|
| `chain` | Does a run of move, dwell, return, stop keep its books (`BooksAgree`: count and times agree with the node states) and implement the route? | four nodes, each step may deviate from the nominal reading in one field, time 0..3 (a dwell of 1 may be started late and end late) |
| `pairs` | Do stops, recovery and missing data still win when two things go wrong at once? | all pairs of deviations, two nodes and an edge to an id without a node |
| `contact` | Does the robot stop in contact? (violated) | one deviation |
| `threads` | What can two operators, both threads and the window do to one run? | two request threads, two overrides, one progress update |
| `result` | Does every accepted run get a result? | one override, all failures of the handoff |
| `stop_lost` | Does an emergency stop hold? (violated) | one operator |
| `calls` | Is there one released baseline and an honest audit after any calls? | three policies: the one moved, the one replaced, a bystander |
| `core_lost` | Does a status prove that the run went through the C++ core? (violated) | no override, no progress thread |
| `overlap` | Can overlapping requests publish a policy without evidence, or make a second baseline past the index? | two policies, two requests, one evaluation id, two approvals |
| `stale_release` | Do the gate and the approval hold when the release takes effect? (violated) | one policy, two requests |
| `budget` | Does an extended step budget suffice? (violated) | one target at a metre, a dwell, seven kinds of ground |
| `application` | Does each other part of the application keep what it owes? | below |

`Application` puts the parts that share no state side by side, for any values of their
constants: `part` says which one moves, and the others stand still. It extends
`ApiRequests` and instantiates the other parts of the API, the C++ sessions and local
run, the simulation, the backends and the windows, those that have a module of proofs
through it. `MCApplication` gives it small constants and adds the parts that stay with
TLC (route planner, parser); there the parts that do not move are in one of their
initial states. A property of a part is therefore checked in every behaviour of
that part, and the state space is the sum and not the product. What one part promises
another is checked where it is promised (`KeepsItsPromise`) and assumed where it is
used. The bounds of `application`:

| Part | Bounds | Why |
|---|---|---|
| tasks | one task, two requests, all six goals, one crash | every race of the lifecycle is between two requests on one task |
| scenes | three versions, two requests, one crash, with and without the index | the baseline that comes, the one that goes, and one that is copied or published meanwhile |
| training | one job of two iterations, two requests, one crash | a checkpoint or an end between another's read and its save |
| storage | two callers, two keys, one file content, one task with two events, one crash | two writers of one temporary file, two rows for one flag, two numbers for one event |
| api | two requests, three role headers, four operations (with change, with read, without success record, with reason), one crash | each pattern of evidence once; two exports that overlap or do not |
| routes | 17 scenes: a post, a wall and a box in every combination, obstacles by the start and on the target, an enclosed target, an obstacle far off, hills, zones and packs; 3 missions of one to three targets | every note and the thinning occur, joins and thinned legs that cut a padded obstacle, cells that are pushed twice; no end lies halfway between two cells, where the rounding of doubles would decide |
| simulation | routes with a platform start, a detour, two targets, and a dwell longer than the slack | the budget must count the dwell; drift and obstacle stops at any step |
| windows | both kinds, three routes, three commands, two budgets | a route replaced by a stop or another route in the same frame or a later one |
| backends | three kinds, two scenes (one with a box, a sphere and a cylinder whose centre is level with one backend's base), three profiles, all actions, two steps a run, calls in any order | a scene loaded, a reset or a close in the middle of another run; each of the obstacles is the nearest in some state |
| governance | two policies, one approval, without the index (`overlap` has two approvals) | do stages, gate flags and the baseline mark agree when requests do not overlap |
| local | a platform start, a detour, two targets, the first visited again; flat and mixed ground, a zone, budgets asked for, extended and cut | a target found by the name of its first visit, a run that ends before its route, pinned and not pinned summaries |
| orchestrator | one session id, five scripts, three scenes, no candidates or four that each miss something | submissions that replace a session in any state; every conflict once |
| parser | all texts of up to three of fourteen phrases, with and without scene assets | mentions repeated, overlapping, dwells, zones, forbidden actions |

Why the bounds are enough to be of interest: a step depends on the snapshot, on one
reading and on the time passed, and all single readings and all pairs occur; each
race of the API is between one read and one write, so two requests and one update
of the progress thread show it; a baseline's life involves the policy that comes,
the one that goes and at most one more. Deadlock is not checked in the `ControlRun`
runs, where every thread ends; the others do not end.

`chain` and `pairs` check different properties because all pairs over four nodes
and three times are too many states.

### Fairness

`ControlRun` and `TaskLifecycle` have liveness. Weak fairness is given to the steps of the progress
thread, of the handoff thread and of a request that has begun: they are operating
system threads without a lock to wait for, the progress loop sleeps a fixed time,
the core runtime has a timeout and the simulation a step budget. In `TaskLifecycle` the steps of a request that has begun and the end of a
worker are fair for the same reason; a crash ends both, and the property excepts the
task it cut off. No fairness is
given to the operators, who need not come, nor to the viewer, which may be closed.

### What the violated runs say

- `contact`: both the avoidance (`obstacle_avoidance.cpp:21`) and the shield
  (`safety_shield.hpp:162`) ask for a distance greater than zero, and the adapter
  reports contact as exactly zero: a robot that touches an obstacle is given a
  velocity, one that is a hair away is not.
- `stop_lost`: the handoff thread saves the run's result without looking at the
  status, so an emergency stop saved meanwhile disappears from it.
- `stale_release`: `release_policy` saves a policy on the strength of a flag and an
  approval it read before; a rejection saved in between is ignored.

- `core_lost`: `_control_from_payload` reads back everything but the `core_runtime_*`
  fields, so that the status a client asks for never shows the run of the core that
  `README.md:185` says it proves. The tests read it from the in-memory repository.

- `budget`: the extension of the step limit plans with 0.16 m/s, and calls that
  conservative because of ground that is not flat; stairs, low friction and unknown
  ground are slower, and so is gravel near a waypoint, so that a run of one target that
  was given its estimate ends "running". `qrics_core_runtime --terrain gravel --task-path
  A:1.0:0:0.35:0.4 --auto-extend-task-steps --clear-default-assets` stops after 182
  executed steps, as the model does. On flat ground, and where slow ground is a small
  part of the way, the budget suffices (`FlatRunCompletes`).

Further limits met while modelling, which have no run of their own: the progress
thread may, between its read and its write, replace the result of the handoff by a
running estimate (`app.py:888`); a stop command named before the path is written
may be taken first, and the window then moves while the run is paused; two
overlapping promotions leave two current baselines in the in-memory repository
(`app.py:2012`); in the registry, a baseline with a failed gate
report becomes Released when another takes its place, and may be promoted again
without passing (`policy_registry.cpp:209`). Two overlapping handoffs run one task twice
(`app.py:773`), two overlapping exports share an id (`app.py:1709`), a checkpoint
revives a job cancelled since it was read (`app.py:1443`); an exception in a
synchronous handoff leaves a task handed off without a status (`app.py:787`), and a
crash leaves an accepted run running for ever. A malformed body is answered 422 before
the permission is looked at, and leaves no audit record. A step at which the robot
arrives completes its node even while an emergency stop is asked for
(`task_executor.cpp:263`); the next step pauses. A planned leg without a path
goes straight through what blocks it, with a note. A leg that was searched is joined to
its two ends, which lie off the grid, by lines nobody looks at, and so are the points of
a path that was thinned (`route_planner.py:226` to `231`): they may cut a padded corner,
under the same note as any other detour. `RouteIsSound` leaves these lines out; with the
default configuration the join of an end whose cell is free is shorter than a cell, and
reaches a millimetre or two into the padding. The distance to a cylinder counts the
height between the robot and the cylinder's centre (`observation_mapping.py:123`, and
`local_simulation_adapter.cpp:52`), although the comment at lines 116 to 118 has the
vertical clamp keep that height out: a robot level with a barrel, but not with its
centre, is told more than the distance, and the more so the closer it is. `BackendObeys`
claims no more than that. A route with two targets at one
place drops the first, so that fewer targets are reported reached than asked for. A
client's replan distance above the planner's padding of 0.34 m keeps the kinematic
robot in replans beside the obstacle it was led around. `resume` writes no command to
the window, and the windows do not dwell. A backend closed before it was initialised
is `stopped`, and then takes a scene, although the message at `webots_env.py:131`
says it must be initialised; a scene loaded during a Webots run leaves the commands
of that run, and a close before the next reset replays them in it; MuJoCo's viewer
stays on the model it was launched with (`mujoco_env.py:306`). In a local run a place
that is visited twice is dwelt at for as long as the first time, whatever the second
visit asks for (`find_waypoint`, `task_executor.cpp:49`). A waypoint named in
what to keep away from becomes a target (`rule_based_parser.py:92`).

## Proofs

All theorems are about the full specification, for every value of the constants
that satisfies the modules' assumptions: a finite graph whose entry has a node and
`Reading` within its type (`TaskExecutor`), a non-empty set of audit outcomes
(`PolicyRegistry`). `Application` assumes of its constants what the code that makes
them gives: natural numbers as bounds, places and step counts (`ApplicationAssumption`);
obstacles with a place and an extent (`ScenesMeasure`); planned routes with legs, a
dwell for every target, and targets numbered along the route (`RoutesFit`:
`plan_task_route` does so, except where two targets in a row lie at one place, of which
it drops the first, see the limits above); a local path that ends at a target and gives
one name one place (`PathFits`), and a zone, if any, not shorter than a step
(`LocalFits`); texts of words, assets with an id, waypoints that all have a place in the
order by which equal mentions are sorted, and scripts and candidates that are rows
(`TextsAndSubmissionsFit`). TLC evaluates all of them in the run `application`. Some theorems need
one hypothesis more, and then say so:

| Hypothesis | Where | Why the code justifies it |
|---|---|---|
| `Acyclic` | `BooksCorrect` | the graph planners make a sequence of nodes; over a cycle a node is run again and the books of its first run are overwritten |
| `Lone` (one request) | `StagesCorrect` | the property is about requests that come one at a time; two that overlap break it |
| `Seeded \in Version` | `BaselineKept` | the API seeds its repository with a baseline scene |
| `"none" \notin Task`, `"free" \notin Caller` | tasks, repository | the values that stand for no task and for a lock nobody holds |

Each proof rests on an inductive invariant; it is named with its parts at the head of
the module, and the proof that it is kept has one lemma or step for each action.

### The control step

`TaskExecutor_proofs`. `TypeCorrect` proves the type invariant, over lemmas that
the planner and the shield return what their types say. `RouteIsWhole` and
`OnlyCurrentInFlight` were written to be inductive as they stand: the lemma
`StepShape` says that a step that acts on a node marks it, fails it, or completes it
and moves on, and each of the three keeps both. `MotionCorrect` follows the velocity
back through the shield's branches and the planner's (`VelocityIsClear`): whatever
forbids it, one of the two layers has turned it into something else.
`OperatorStopCorrect` follows the stop forward. Where the control loop runs, the
shield's first branches decide, and their decisions are among those that pause. The
arrival branch comes before the shield (`task_executor.cpp:263`): there a step completes
the node although a stop is asked for, and sends nothing; the theorem says that this is
the only way past a stop, and that the robot is then at its target, steady. `ArrivalCorrect` shows that recovery
is asked before arrival. `RouteImplemented` is the refinement: the initial state maps
to `TaskRoute`'s, and every branch of a step to a step or a stutter. These hold for any
graph, branches, cycles and dangling edges included, of which the runs show a chain
and a gap. `StillCorrect` adds that a run that succeeded stands: the step that ends a
run leaves the command it was given, and no later one touches it. `BooksCorrect`
relates the count and the times to the node states. A graph without cycles has a rank
that grows along every edge, so the run stands on a node of a higher rank than any it
has been to (`NeverBack`): the node it completes was not counted before, and no node
has been given a time ahead of it.

### The control run

`ControlRun_proofs`. The hard thing in `ControlRun` is that a status is read by one thread,
changed there and saved over what others saved meanwhile, so that the invariants speak
of three copies at once: the status in the repository, the ones that threads hold, and
what the window has been sent. `ArrivalsAreReported` needs that the
progress thread never holds a status with an arrival, and that one an override holds
was read after the handoff had saved its result. `LaterStopWins` follows a stop that was
stamped after the path through the
directory to the window: it is there and later than the path, or nothing that
could move the window is; this needs that no stamp is given twice, which is a count of
the requests that are still to be given one. `AuditComplete` is such a count too: of
each command the audit lacks as many records as there are requests about to write one. `PausesAreKept` is the action property: a
pause is undone only by a thread that read the status before it.

### Policies

`PolicyRegistry_proofs`. `OneBaselineCorrect` and `ReleaseCorrect` need the fact
that a current baseline is never archived and that an entry not yet registered has
the stage it will start with: without the first, a promotion could bring an archived
policy back as Released. `AuditCorrect` proves that the audit never claims more than
was approved, whatever the store refuses. `GovernanceImplemented` is the refinement.

`PolicyGovernance_proofs`. `EvidenceCorrect` proves `ReleaseEvidence` for any number
of overlapping requests. The evidence of a published policy is kept by requests
under way as well as by the repository, so the invariant says it of both: what a
request has read as published has evidence, a request that has passed the checks of
a release has it, an approval that is about to be saved rests on a passed report,
every stored approval does, and every passed report's policy is in `evaluated`.
Evidence only grows, which is why a stale read does no harm to it.
`OneBaselineCorrect` proves that over the unique index no interleaving leaves two
baselines: every step that changes the policies saves one of them (`StepStores`), and
the index looks at all the others. `StagesCorrect` is the other case, no index and
requests one at a time: what the one request has read of a policy is still what the
repository holds, so stage, gate flag and baseline mark are changed together.

### The requests of the API

`TaskLifecycle_proofs`. `EventsTell`: the events of a task are
a chain through every state it was in, for which the invariant also says what a
request holds that has saved a state and not yet its event. `LoneTaskRuns`: on a task
that no two requests were on at once, a run, its confirmation and its cancellation
exclude each other as they should, which takes an invariant of what the one request
has read, what it will save and what the worker it started will still do. A crash
between any two steps is among the actions.

The module also holds what becomes of the texts tasks are made from (`TextsKeep`) and of
the submissions of the C++ service (`SessionsTell`, `GraphsAreSound`), which
`Application_proofs` takes from here. The parser's steps keep that the draft is the
parse of the text and the graph that of the draft (`ParserKeeps`), so the rest is about
functions of a text. The mentions taken are the first of what is left, again and
again: a candidate that is not taken overlaps one that is and comes behind it
(`MentionsAre`, `RatedAbove`), whatever aliases the scene has widened (`CatalogFits`).
The graph is a sequence of pieces, one or two nodes for each waypoint; its nodes have
different ids, so the walk along the edges is the sequence itself (`WalkIs`) and passes
each piece once (`PiecesPass`). The planner of the C++ service makes such pieces too
(`PlannedPasses`). Of sessions the events lead from the last submission to the state,
and one confirmed since has its event (`SessionInv`).

`SceneCatalog_proofs`. `BaselineKept` covers both repositories: over the index the save
itself refuses a second baseline; without it a request that is alone still finds what
it has read, and the baselines left are those it has listed and is about to demote.

`Repository_proofs`. `LockCorrect` proves that, whatever calls overlap and wherever a
crash falls, nothing half done is left when the lock is free (`NothingHalfDone`); this
needs that a thread between entry and exit is the holder, and that only a thread that
has executed its statement and is about to commit or roll back has changed what is
worked on. `IndexCorrect` builds on it: the unique index looks at the open
transaction, which is the only one, so no two committed rows have the flag
(`OneFlagged`). `SceneCatalog` and `PolicyGovernance` take this of a save.
`PromiseImplemented` is the refinement of `Records`: the commit is the step that
`Records` makes, every other step a stutter, the number of an event is the
number of the rows committed before it, and a row to a file is committed after
the rename that completed the file.

`Application_proofs`, first part (the facade). `EvidenceTells` and `RolesAreKept` follow
from what holds of one request wherever it stands, since nothing that a request leaves
is touched by another. `ExportsStay` needs two facts more: exports that are under way
together are all in `shared`, and the number of event rows has passed the number of an
answered export, because the event of its audit record is a row.

### Training, runs and backends

These are in `Application_proofs` as well. Training jobs (`JobInv`): a request that is alone on a job saves what goes forward from
what is stored; a job that succeeded has its policy, or a request is about to register
it, or a crash cut one off. The simulation run
(`WalkInv`): the targets reached are those before the waypoint, and perhaps the one
stood at; what a target has been dwelt at and what remains of the dwell under way add
up to its steps, so drift and obstacle stops in the middle of it take nothing away
and add nothing. Backends (`BackendInv`): one with a scene has it, one that runs does
so in the scene of its reset, and Webots has kept each step since. Of the distance
told (`TellsDistance`) it is shown by the geometry of each shape (`BoxIsNearest`,
`SphereIsNearest`, `CylinderIsFar`, over facts about whole square roots and the
triangle inequality) and a lemma about the least of the clearances (`LeastIsTold`).

`RunsEndWell` is about the step budget, which is a sum over a route of any length. The
invariant `InBudget` says of a run that moves as it is told and has met nothing that no
frame is lost (`OnTime`): its frames are the step lengths it has come nearer along the
legs, one frame for each leg that is over, and the frames it has dwelt (`Frames`). A
leg costs less than one frame more than its length in steps, and the slack gives
each waypoint at least eight; so as long as a target is ahead the frames used are fewer
than the estimate, and a run that has used them all has completed its route. The sums
are read off recursive functions; the facts about them (`TotalsAre`, `TotalsGrow`,
`LegsAre`, `DetoursAre`) are proved by the least index at which they would fail.

Windows (`FollowsLast`): what a window follows is the command it took last, with
`passed` the places at which it left the targets before its index, each within reach of
its target; and after a stop neither a target nor a velocity is left. The local run:
the moves behind where it stands have succeeded, and where it dwells or has ended the
robot is within reach of the entry (`LocalPlace`); before a zone it stops at the edge
(`LocalZone`); the summary and the last frame tell where the run is (`LocalTelling`);
and the files are a beginning of their list (`LocalFiles`).

### The composition

The last part of `Application_proofs` shows that a step of `Application` is a step of
one part or leaves that part's variables alone, so that `AppSpec` implies the
specification of each part; the theorems about the parts then hold of the
application: `LoneTasksRun`, `EventsAreTold`, `BaselineIsKept`, `TrainingIsTold`,
`PromiseIsKept`, `StagesAreKept`, `TextsBecomeRoutes`, `RoutesAreWalked`,
`RunsEndWell`, `BackendsObey`, `WindowsObey`, `LocalRunTyped`. The behaviours of `MCApplication` are behaviours of
`Application` with more variables beside it.

### Only model-checked

- Liveness, which is beyond the prover: `AcceptedRunGetsResult`, `AcceptedRunEnds`.
- `RouteIsSound`: the route planner is written with RECURSIVE operators, which the
  prover cannot read; and the budget of a local run (`FlatRunCompletes`) does not hold
  of every path, since a place visited again is dwelt at as long as the first time and
  a mixed ground may be mostly slow: it is checked on the paths of the run.
- The types of all parts together (`AllTypeOK`; the facade, tasks, scenes, governance,
  the simulation run and the local run have theorems of theirs).

The induction theorems of the library take an operator as a parameter, and so cannot be
used; where a proof needs induction (sums along a route, targets, mentions taken), it takes the
least number at which the fact would fail (`LeastOf`) and contradicts it.

## Not modelled, and the plan

Left out for good: parsing of configuration files, the paths of HTTP routes, rendering,
physics engines, gait phases, the Isaac Lab contract, demo tools, the wording of
messages, the conversions of records that lose nothing.

What of a modelled part is left out stands with it in `PROJECT.json`: the launch and relaunch of window processes (the table of open windows is replaced by
each reap without a lock, `simulation_runner.py:706`), the WebSocket (it sends one
snapshot and keeps no cursor), and the C++ counterparts of the parser and the planner.

In the order of the plan:

1. Proofs: `FlatRunCompletes` for paths that visit a place once, and the grid search
   of `RoutePlanner`, rewritten without RECURSIVE operators.
2. `ReplayEvidence`, `AuditLog`: what is recorded is kept and found.
3. Pure algorithms against reference definitions: the lateral bias of the avoidance in
   a plane, the gate engine, the C++ parser.
