----------------------------- MODULE ControlRun -----------------------------
(***************************************************************************)
(* One asynchronous control run of the Python API: the request that        *)
(* accepts it starts a thread that estimates progress and a thread that    *)
(* executes the handoff; operators override the run from request threads   *)
(* of their own; a presentation window follows the commands written to it. *)
(* All of them read and replace the one control status in the repository,  *)
(* and nothing is locked between a read and the write that follows it, so  *)
(* each repository call is a step of its own.                              *)
(***************************************************************************)
EXTENDS Integers, Sequences, FiniteSets

CONSTANTS Operator,      \* request threads that override the run
          StepCount,     \* updates of the progress thread
          Command,       \* the overrides operators ask for
          MaxOverrides,  \* bound on the overrides begun
          Progress,      \* does the route have two points, so that the thread is started
          Durable,       \* is the repository the SQLite one
          Viewer         \* is the run shown in a presentation window

Override == {"emergency_stop", "safe_stand", "manual_control", "pause", "resume"}

ASSUME ControlRunAssumption ==
  /\ Command \subseteq Override
  /\ StepCount \in Nat /\ MaxOverrides \in Nat /\ Progress \in BOOLEAN /\ Viewer \in BOOLEAN
  /\ Durable \in BOOLEAN /\ IsFiniteSet(Operator)

VARIABLES control,    \* the ControlStatusResponse in the repository
          progress,   \* _run_background_progress
          handoff,    \* _run_background_handoff
          operator,   \* override_control, by request thread
          begun,      \* overrides begun
          window,     \* the presentation process and its command directory
          pending,    \* command files in that directory
          stamps,     \* command files named so far
          replay,     \* is there a replay manifest
          audit,      \* audit records of overrides
          ordered,    \* history: the overrides saved so far
          path_written, \* history: the path is in the window's directory, or never will be
          stop_due      \* history: a stop named after that has been written

shown == <<window, pending, stamps, path_written, stop_due>>
vars == <<control, progress, handoff, operator, begun, replay, audit, ordered, shown>>

RunState == {"running", "paused", "succeeded", "failed"}
Status == [state : RunState, action : {"body_velocity", "stop", "safe_stand"},
           core : BOOLEAN,       \* carries the core runtime's summary
           told : BOOLEAN,       \* its reason names the simulation runner, or the failure
           arrived : BOOLEAN,    \* route_completed
           steps : 0..StepCount] \* control_step_count
NoStatus == [state |-> "none"]

Outcome == {"arrived", "partial", "error"}

Accepted == [state |-> "running", action |-> "body_velocity", core |-> FALSE,
             told |-> FALSE, arrived |-> FALSE, steps |-> 0]

Idle == [pc |-> "idle", command |-> "resume", seen |-> NoStatus,
         stamp |-> 0, dir |-> 0, after |-> FALSE]

Init ==
  /\ control = NoStatus
  /\ progress = [pc |-> "off", index |-> 0, seen |-> NoStatus]
  /\ handoff = [pc |-> "off", result |-> NoStatus, replay |-> FALSE, stamp |-> 0]
  /\ operator = [o \in Operator |-> Idle]
  /\ begun = 0
  /\ window \in [open : BOOLEAN, moving : {FALSE}, dir : {0}] \* a preview may have opened it
  /\ pending = {} /\ stamps = 0 /\ path_written = FALSE /\ stop_due = FALSE
  /\ replay = FALSE /\ audit = <<>> /\ ordered = <<>>

-----------------------------------------------------------------------------
(* get_control: from the SQLite repository a status comes back without     *)
(* what it says of the core runtime, which is written but never read.      *)
Loaded == IF Durable /\ control # NoStatus THEN [control EXCEPT !.core = FALSE] ELSE control

(* _accept_task_handoff_async: the first status, then the two threads.     *)
Accept ==
  /\ control = NoStatus /\ handoff.pc = "off"
  /\ control' = Accepted
  /\ progress' = [progress EXCEPT !.pc = IF Progress THEN "sleep" ELSE "done"]
  /\ handoff' = [handoff EXCEPT !.pc = "core"]
  /\ UNCHANGED <<operator, begun, replay, audit, ordered, shown>>

-----------------------------------------------------------------------------
(* The progress thread: sleep, read, and write an estimate made from what  *)
(* was read, unless that is the result of the run or no longer running.    *)
StateUnchecked(s) == s.arrived \/ s.core \/ s.told

is_authoritative(s) == s.state # "running" \/ s.arrived \/ s.core \/ s.told

(* The last estimate reports the arrival. *)
EstimateArrives(s, i) == [s EXCEPT !.state = IF i = StepCount THEN "succeeded" ELSE "running",
                                   !.arrived = (i = StepCount), !.steps = i]

Estimate(s, i) == [s EXCEPT !.state = "running", !.action = "body_velocity", !.told = FALSE,
                            !.steps = IF @ < i THEN i ELSE @]

(* One update more than the route has steps. *)
ReadsOnceMore ==
  /\ progress.pc = "sleep" /\ progress.index <= StepCount
  /\ progress' = IF is_authoritative(Loaded)
                   THEN [progress EXCEPT !.pc = "done"]
                   ELSE [pc |-> "write", index |-> progress.index + 1, seen |-> Loaded]
  /\ UNCHANGED <<control, handoff, operator, begun, replay, audit, ordered, shown>>

ProgressRead ==
  /\ progress.pc = "sleep" /\ progress.index < StepCount
  /\ progress' = IF is_authoritative(Loaded)
                   THEN [progress EXCEPT !.pc = "done"]
                   ELSE [pc |-> "write", index |-> progress.index + 1, seen |-> Loaded]
  /\ UNCHANGED <<control, handoff, operator, begun, replay, audit, ordered, shown>>

ProgressWrite ==
  /\ progress.pc = "write"
  /\ control' = Estimate(progress.seen, progress.index)
  /\ progress' = [progress EXCEPT !.pc = "sleep", !.seen = NoStatus]
  /\ UNCHANGED <<handoff, operator, begun, replay, audit, ordered, shown>>

ProgressEnd ==
  /\ progress.pc = "sleep" /\ progress.index = StepCount
  /\ progress' = [progress EXCEPT !.pc = "done"]
  /\ UNCHANGED <<control, handoff, operator, begun, replay, audit, ordered, shown>>

-----------------------------------------------------------------------------
(* The presentation window. A command is a file: its name carries the time *)
(* of its making, and it appears when it is written, which may be after a  *)
(* later one has been taken. Its process takes the files it finds in the   *)
(* order of their names, so the last one decides; it may end at any time.  *)
Stamp == stamps' = stamps + 1

LastOf(commands) == CHOOSE c \in commands : \A d \in commands : d.stamp <= c.stamp

ConsumesFirst ==
  /\ window.open /\ pending # {}
  /\ LET first == CHOOSE c \in pending : \A d \in pending : d.stamp >= c.stamp
     IN window' = [window EXCEPT !.moving = (first.type = "run_path")]
  /\ pending' = {}
  /\ UNCHANGED <<control, progress, handoff, operator, begun, replay, audit, ordered,
                 stamps, path_written, stop_due>>

WindowConsumes ==
  /\ window.open /\ pending # {}
  /\ window' = [window EXCEPT !.moving = (LastOf(pending).type = "run_path")]
  /\ pending' = {}
  /\ UNCHANGED <<control, progress, handoff, operator, begun, replay, audit, ordered,
                 stamps, path_written, stop_due>>

WindowFinishesPath ==
  /\ window.open /\ window.moving /\ window' = [window EXCEPT !.moving = FALSE]
  /\ UNCHANGED <<control, progress, handoff, operator, begun, replay, audit, ordered,
                 pending, stamps, path_written, stop_due>>

WindowCloses ==
  /\ window.open /\ window' = [window EXCEPT !.open = FALSE, !.moving = FALSE]
  /\ UNCHANGED <<control, progress, handoff, operator, begun, replay, audit, ordered,
                 pending, stamps, path_written, stop_due>>

-----------------------------------------------------------------------------
(* _execute_task_handoff: the C++ core runtime first, then the simulation  *)
(* runner, which shows the run (an open window of the same scene gets the  *)
(* path, otherwise one is launched) and simulates it.                      *)
HandoffCore ==
  /\ handoff.pc = "core" /\ handoff' = [handoff EXCEPT !.pc = "present"]
  /\ UNCHANGED <<control, progress, operator, begun, replay, audit, ordered, shown>>

HandoffPresents ==
  /\ handoff.pc = "present"
  /\ \/ /\ ~Viewer /\ handoff' = [handoff EXCEPT !.pc = "simulate"] /\ UNCHANGED shown
     \/ /\ Viewer /\ Stamp
        /\ handoff' = [handoff EXCEPT !.pc = "write", !.stamp = stamps + 1]
        /\ \/ window.open /\ UNCHANGED <<window, pending>>
           \/ \* no window, or one of another scene, which is terminated
              window' = [open |-> TRUE, moving |-> FALSE, dir |-> window.dir + 1] /\ pending' = {}
        /\ UNCHANGED <<path_written, stop_due>>
  /\ UNCHANGED <<control, progress, operator, begun, replay, audit, ordered>>

(* The path is written, or the write fails and nothing is said of it. *)
HandoffWritesPath ==
  /\ handoff.pc = "write" /\ handoff' = [handoff EXCEPT !.pc = "simulate"]
  /\ pending' \in {pending, pending \cup {[type |-> "run_path", stamp |-> handoff.stamp]}}
  /\ path_written' = TRUE
  /\ UNCHANGED <<control, progress, operator, begun, replay, audit, ordered,
                 window, stamps, stop_due>>

(* What the handoff makes of the simulation's summary, or of its failure. *)
ResultOf(outcome) ==
  [state |-> CASE outcome = "arrived" -> "succeeded" [] outcome = "partial" -> "running"
               [] outcome = "error" -> "failed",
   action |-> CASE outcome = "arrived" -> "safe_stand" [] outcome = "partial" -> "body_velocity"
               [] outcome = "error" -> "stop",
   core |-> TRUE, told |-> outcome # "error", arrived |-> outcome = "arrived",
   steps |-> IF outcome = "error" THEN 0 ELSE StepCount]

HandoffSimulates ==
  /\ handoff.pc = "simulate"
  /\ \E outcome \in Outcome :
       handoff' = [handoff EXCEPT !.pc = "save", !.result = ResultOf(outcome),
                                  !.replay = outcome # "error"]
  /\ UNCHANGED <<control, progress, operator, begun, replay, audit, ordered, shown>>

(* An exception that ends the thread. *)
HandoffDies ==
  /\ handoff.pc \in {"core", "present", "simulate"}
  /\ handoff' = [handoff EXCEPT !.pc = "done"]
  /\ UNCHANGED <<control, progress, operator, begun, replay, audit, ordered, shown>>

(* Any other exception is caught around the handoff, and the status read   *)
(* at that point becomes the failed result.                                *)
HandoffRaises ==
  /\ handoff.pc \in {"core", "present", "simulate"}
  /\ handoff' = [handoff EXCEPT !.pc = "save", !.replay = FALSE,
                    !.result = [Loaded EXCEPT !.state = "failed", !.action = "stop",
                                              !.told = TRUE]]
  /\ UNCHANGED <<control, progress, operator, begun, replay, audit, ordered, shown>>

(* _save_handoff_result: the status is replaced whatever it is by now.     *)
HandoffSaves ==
  /\ handoff.pc = "save"
  /\ control' = handoff.result
  /\ handoff' = [handoff EXCEPT !.pc = IF handoff.replay THEN "replay" ELSE "done"]
  /\ UNCHANGED <<progress, operator, begun, replay, audit, ordered, shown>>

HandoffSavesReplay ==
  /\ handoff.pc = "replay" /\ replay' = TRUE
  /\ handoff' = [handoff EXCEPT !.pc = "done"]
  /\ UNCHANGED <<control, progress, operator, begun, audit, ordered, shown>>

HandoffStep == \/ HandoffCore \/ HandoffPresents \/ HandoffWritesPath \/ HandoffSimulates
               \/ HandoffRaises \/ HandoffSaves \/ HandoffSavesReplay

-----------------------------------------------------------------------------
(* override_control: read the status, command the window if there is one,  *)
(* save the status changed by the override, then append the audit record.  *)
(* The state of the run is not looked at.                                  *)
OverrideBegins(o) ==
  /\ operator[o].pc = "idle" /\ control # NoStatus /\ begun < MaxOverrides
  /\ begun' = begun + 1
  /\ \E c \in Command :
       operator' = [operator EXCEPT ![o] = [Idle EXCEPT !.pc = "dispatch", !.command = c,
                                                      !.seen = Loaded]]
  /\ UNCHANGED <<control, progress, handoff, replay, audit, ordered, shown>>

OverrideDispatches(o) ==
  /\ operator[o].pc = "dispatch"
  /\ IF operator[o].command # "resume" /\ window.open
       THEN /\ Stamp
            /\ operator' = [operator EXCEPT ![o] = [@ EXCEPT !.pc = "write", !.stamp = stamps + 1,
                                              !.dir = window.dir, !.after = path_written]]
       ELSE operator' = [operator EXCEPT ![o].pc = "save"] /\ UNCHANGED stamps
  /\ UNCHANGED <<control, progress, handoff, begun, replay, audit, ordered,
                 window, pending, path_written, stop_due>>

(* A failed write is only noted in the audit details; a directory that is  *)
(* no longer the window's is read by nobody.                               *)
OverrideWrites(o) ==
  /\ operator[o].pc = "write"
  /\ operator' = [operator EXCEPT ![o].pc = "save"]
  /\ \/ /\ window.dir = operator[o].dir
        /\ pending' = pending \cup {[type |-> "stop", stamp |-> operator[o].stamp]}
        /\ stop_due' = (stop_due \/ operator[o].after)
     \/ UNCHANGED <<pending, stop_due>>
  /\ UNCHANGED <<control, progress, handoff, begun, replay, audit, ordered,
                 window, stamps, path_written>>

Overridden(s, c) ==
  IF c = "resume" THEN [s EXCEPT !.state = "running", !.told = FALSE]
  ELSE [s EXCEPT !.state = "paused", !.told = FALSE, !.action = IF c = "safe_stand" THEN "safe_stand" ELSE "stop"]

OverrideSaves(o) ==
  /\ operator[o].pc = "save"
  /\ control' = Overridden(operator[o].seen, operator[o].command)
  /\ ordered' = Append(ordered, operator[o].command)
  /\ operator' = [operator EXCEPT ![o].pc = "audit"]
  /\ UNCHANGED <<progress, handoff, begun, replay, audit, shown>>

(* Only the overrides that stop the run are recorded. *)
OverrideAuditsStops(o) ==
  /\ operator[o].pc = "audit"
  /\ audit' = IF operator[o].command = "resume" THEN audit ELSE Append(audit, operator[o].command)
  /\ operator' = [operator EXCEPT ![o] = Idle]
  /\ UNCHANGED <<control, progress, handoff, begun, replay, ordered, shown>>

OverrideAudits(o) ==
  /\ operator[o].pc = "audit"
  /\ audit' = Append(audit, operator[o].command)
  /\ operator' = [operator EXCEPT ![o] = Idle]
  /\ UNCHANGED <<control, progress, handoff, begun, replay, ordered, shown>>

OverrideContinues(o) == OverrideDispatches(o) \/ OverrideWrites(o)
                        \/ OverrideSaves(o) \/ OverrideAudits(o)

-----------------------------------------------------------------------------
ProgressStep == ProgressRead \/ ProgressWrite \/ ProgressEnd
WindowStep == WindowConsumes \/ WindowFinishesPath \/ WindowCloses

Next == \/ Accept \/ ProgressStep \/ HandoffStep \/ WindowStep
        \/ \E o \in Operator : OverrideBegins(o) \/ OverrideContinues(o)

(* Threads run on once started: the progress loop sleeps a fixed time, the *)
(* core runtime has a timeout and the simulation a step budget. No request *)
(* is assumed to come, and the window's process is not assumed to run.     *)
Fairness == WF_vars(ProgressStep) /\ WF_vars(HandoffStep)
            /\ \A o \in Operator : WF_vars(OverrideContinues(o))

Spec == Init /\ [][Next]_vars /\ Fairness

-----------------------------------------------------------------------------
(* PROPERTIES *)

(* Every variable has its type. *)
TypeOK ==
  /\ control \in Status \cup {NoStatus}
  /\ progress \in [pc : {"off", "sleep", "write", "done"}, index : 0..StepCount,
                   seen : Status \cup {NoStatus}]
  /\ handoff \in [pc : {"off", "core", "present", "write", "simulate", "save", "replay", "done"},
                  result : Status \cup {NoStatus}, replay : BOOLEAN, stamp : 0..stamps]
  /\ operator \in [Operator -> [pc : {"idle", "dispatch", "write", "save", "audit"},
                                 command : Override, seen : Status \cup {NoStatus},
                                 stamp : 0..stamps, dir : 0..1, after : BOOLEAN]]
  /\ begun \in 0..MaxOverrides /\ stamps \in 0..(MaxOverrides + 1)
  /\ window \in [open : BOOLEAN, moving : BOOLEAN, dir : 0..1]
  /\ pending \subseteq [type : {"run_path", "stop"}, stamp : 1..stamps]
  /\ path_written \in BOOLEAN /\ stop_due \in BOOLEAN /\ replay \in BOOLEAN
  /\ audit \in Seq(Override) /\ ordered \in Seq(Override)

Quiet == \A o \in Operator : operator[o].pc = "idle"

Count(seq, c) == Cardinality({i \in DOMAIN seq : seq[i] = c})

(* However reads and writes interleave, a status never shows an arrival    *)
(* that the simulation did not report: succeeded means arrived, and        *)
(* arrived comes with the result of a handoff that arrived.                *)
NoInventedArrival ==
  control # NoStatus =>
    /\ control.state = "succeeded" => control.arrived
    /\ control.arrived => handoff.pc \in {"replay", "done"} /\ handoff.result.arrived

(* A stop made after the path was written wins, whatever else is written   *)
(* and however many files the window takes at once: with no file left, the *)
(* window does not move. (A stop made before it may be taken first.)       *)
StopAfterPathWins == stop_due /\ pending = {} => ~window.moving

(* Every override saved is audited: when no request is under way the two   *)
(* agree command by command (not necessarily in their order).              *)
OverridesAudited ==
  Quiet => \A c \in Override : Count(audit, c) = Count(ordered, c)

(* A pause is undone, without a resume, only by the result of the handoff  *)
(* or by an estimate made from a status read before the pause: the         *)
(* progress thread never walks over a pause it has seen.                   *)
PauseUndoneOnlyFromBefore ==
  [][control.state = "paused" /\ control'.state # "paused" /\ ordered' = ordered =>
       \/ handoff.pc = "save"
       \/ progress.pc = "write" /\ progress.seen.state = "running"]_vars

(* An accepted run gets its result: whatever happens in the handoff, its   *)
(* thread saves a status, and the progress thread ends.                    *)
AcceptedRunGetsResult ==
  (control # NoStatus) ~> (handoff.pc = "done" /\ handoff.result # NoStatus
                           /\ progress.pc = "done")

(* The README says the status of a one-click run proves by the summary in  *)
(* it that the run went through the core runtime: with no override, and    *)
(* the progress thread ended, a client reads the summary of the result.    *)
CoreEvidenceShown ==
  handoff.pc = "done" /\ progress.pc = "done" /\ begun = 0 /\ handoff.result # NoStatus
    /\ handoff.result.core => Loaded.core

(* ADR-0010 says an emergency stop overrides the control run, and nothing  *)
(* but a resume is described as ending it: the last override saved being   *)
(* an emergency stop, the run is shown paused.                             *)
EmergencyStopHolds ==
  ordered # <<>> /\ ordered[Len(ordered)] = "emergency_stop" => control.state = "paused"
=============================================================================
