------------------------ MODULE TaskExecutor_proofs ------------------------
(***************************************************************************)
(* Theorems about TaskExecutor, for every graph start() accepts and every  *)
(* set of readings.                                                        *)
(***************************************************************************)
EXTENDS TaskExecutor, FiniteSetTheorems, TLAPS

(* What the shield returns is an evaluation when the proposal is one. *)
LEMMA EvaluateType ==
  ASSUME NEW p, NEW c, p.action \in ActionType
  PROVE  Evaluate(p, c) \in SafetyEvaluation
BY DEF Evaluate, ProposalResult, BodyVelocityResult, Terminal, SafetyEvaluation, ActionType,
       SafetyDecision, TriggerType

(* The planner proposes only body velocities and stopping actions. *)
LEMMA InferType ==
  ASSUME NEW type, NEW v
  PROVE  Infer(type, v).action \in {"BodyVelocity", "Stop", "SafeStand", "Replan"}
BY DEF Infer, NodePlan, MovePlan, Plan, RecoveryAction, AvoidanceAction

LEMMA JudgedType ==
  ASSUME NEW n, NEW r
  PROVE  Judged(n, r) \in SafetyEvaluation
<1>1. Planned(n, r).action \in ActionType
  BY InferType DEF Planned, ActionType
<1> QED
  BY <1>1, EvaluateType DEF Judged

LEMMA SuccType ==
  ASSUME NEW n \in Node
  PROVE  Succ[n] \in Id \cup {NoNode} /\ NodeType[n] \in TaskNodeType
BY GraphAssumption

(* The two ways a step writes the nodes keep their types. *)
LEMMA NodeWritesType ==
  ASSUME NEW n \in Node, NEW t \in 0..MaxNow, TypeOK,
         MarkRunning(n, t) \/ \E s \in {"Succeeded", "Failed"} : FinishNode(n, s, t)
  PROVE  /\ node_state' \in [Node -> TaskNodeExecutionState]
         /\ started_at' \in [Node -> Nat] /\ finished_at' \in [Node -> Nat]
         /\ completed_node_count' \in Nat
BY EnvironmentAssumption
   DEF TypeOK, MarkRunning, FinishNode, StartedAt, TaskNodeExecutionState

LEMMA RunWritesType ==
  ASSUME NEW n \in Node, TypeOK,
         Advance(n) \/ StopRun("Failed") \/ StopRun("Paused")
  PROVE  run_state' \in ControlRunState /\ current_node_id' \in Id \cup {NoNode}
BY SuccType DEF TypeOK, Advance, StopRun, ControlRunState

LEMMA ReturnType ==
  ASSUME TypeOK, NEW ok \in BOOLEAN, Return(ok)
  PROVE  result' \in StepResult /\ commanded' \in ActionType
BY DEF TypeOK, Return, Returned, NoEvaluation, Terminal, StepResult, SafetyEvaluation,
       ActionType, SafetyDecision, TriggerType

LEMMA ControlledType ==
  ASSUME TypeOK, NEW n \in Node, NEW r \in Reading, Controlled(n, r)
  PROVE  result' \in StepResult /\ commanded' \in ActionType
<1>1. Judged(n, r) \in SafetyEvaluation
  BY JudgedType
<1> QED
  BY <1>1 DEF TypeOK, Controlled, StepResult, SafetyEvaluation, Rejects

LEMMA InitType == Init => TypeOK
BY GraphAssumption, EnvironmentAssumption
   DEF Init, TypeOK, ControlRunState, TaskNodeExecutionState, Returned, NoEvaluation, Terminal,
       StepResult, SafetyEvaluation, ActionType, SafetyDecision, TriggerType

LEMMA StartType ==
  ASSUME TypeOK, NEW t \in now..MaxNow, Start(t)
  PROVE  TypeOK'
BY GraphAssumption, EnvironmentAssumption
   DEF Start, TypeOK, ControlRunState, TaskNodeExecutionState, Returned, NoEvaluation, Terminal,
       StepResult, SafetyEvaluation, ActionType, SafetyDecision, TriggerType

LEMMA StepType ==
  ASSUME TypeOK, NEW t \in now..MaxNow, NEW r \in Reading, StepOnce(r, t)
  PROVE  TypeOK'
<1>1. t \in 0..MaxNow /\ last_reading' \in ReadingType /\ now' \in 0..MaxNow
  BY EnvironmentAssumption DEF TypeOK, StepOnce
<1>2. CASE StepHalted
  <2>1. result' \in StepResult /\ commanded' \in ActionType
    BY <1>2, ReturnType DEF StepHalted
  <2> QED
    BY <1>1, <1>2, <2>1 DEF StepHalted, TypeOK, progress
<1>3. CASE StepMissingNode
  <2>1. result' \in StepResult /\ commanded' \in ActionType
    BY <1>3, ReturnType DEF StepMissingNode
  <2> QED
    BY <1>1, <1>3, <2>1 DEF StepMissingNode, StopRun, TypeOK, ControlRunState
<1>4. ASSUME NEW n \in Node,
             \/ StepNoState(n, r, t) \/ StepNoPlan(n, r, t) \/ StepArrives(n, r, t)
             \/ StepAdapterFails(n, r, t) \/ StepRejected(n, r, t) \/ StepPaused(n, r, t)
             \/ StepCompletes(n, r, t) \/ StepContinues(n, r, t)
      PROVE  TypeOK'
  <2>1. /\ node_state' \in [Node -> TaskNodeExecutionState]
        /\ started_at' \in [Node -> Nat] /\ finished_at' \in [Node -> Nat]
        /\ completed_node_count' \in Nat
    <3>1. MarkRunning(n, t) \/ \E s \in {"Succeeded", "Failed"} : FinishNode(n, s, t)
      BY <1>4 DEF StepNoState, StepNoPlan, StepArrives, StepAdapterFails, StepRejected,
                  StepPaused, StepCompletes, StepContinues
    <3> QED
      BY <1>1, <3>1, NodeWritesType
  <2>2. run_state' \in ControlRunState /\ current_node_id' \in Id \cup {NoNode}
    <3>1. \/ Advance(n) \/ StopRun("Failed") \/ StopRun("Paused")
          \/ UNCHANGED <<run_state, current_node_id>>
      BY <1>4 DEF StepNoState, StepNoPlan, StepArrives, StepAdapterFails, StepRejected,
                  StepPaused, StepCompletes, StepContinues
    <3> QED
      BY <3>1, RunWritesType DEF TypeOK
  <2>3. result' \in StepResult /\ commanded' \in ActionType
    <3>1. Return(TRUE) \/ Return(FALSE) \/ Controlled(n, r)
      BY <1>4 DEF StepNoState, StepNoPlan, StepArrives, StepAdapterFails, StepRejected,
                  StepPaused, StepCompletes, StepContinues, Undisturbed
    <3> QED
      BY <3>1, ReturnType, ControlledType
  <2> QED
    BY <1>1, <2>1, <2>2, <2>3 DEF TypeOK
<1> QED
  BY <1>2, <1>3, <1>4 DEF StepOnce

(* Every variable keeps its type, on every graph and under every reading.  *)
THEOREM TypeCorrect == Spec => []TypeOK
<1>1. Init => TypeOK
  BY InitType
<1>2. TypeOK /\ [Next]_vars => TypeOK'
  <2> SUFFICES ASSUME TypeOK, [Next]_vars PROVE TypeOK'
    OBVIOUS
  <2>1. CASE Next
    BY <2>1, StartType, StepType DEF Next
  <2>2. CASE UNCHANGED vars
    BY <2>2 DEF vars, TypeOK
  <2> QED
    BY <2>1, <2>2
<1> QED
  BY <1>1, <1>2, PTL DEF Spec

-----------------------------------------------------------------------------
(* Every step that acts on a node either leaves the run where it is and    *)
(* marks or fails the node, or completes the node and moves on.            *)
LEMMA StepShape ==
  ASSUME NEW n \in Node, NEW r \in Reading, NEW t \in now..MaxNow,
         \/ StepNoState(n, r, t) \/ StepNoPlan(n, r, t) \/ StepArrives(n, r, t)
         \/ StepAdapterFails(n, r, t) \/ StepRejected(n, r, t) \/ StepPaused(n, r, t)
         \/ StepCompletes(n, r, t) \/ StepContinues(n, r, t)
  PROVE  /\ run_state = "Running" /\ n = current_node_id
         /\ \/ MarkRunning(n, t) /\ UNCHANGED current_node_id
               /\ run_state' \in {"Running", "Paused", "Failed"}
            \/ FinishNode(n, "Failed", t) /\ StopRun("Failed")
            \/ FinishNode(n, "Succeeded", t) /\ Advance(n)
BY DEF StepNoState, StepNoPlan, StepArrives, StepAdapterFails, StepRejected, StepPaused,
       StepCompletes, StepContinues, Undisturbed, Controlled, Controls, HasPlan, Ready, StopRun

(* RouteIsWhole is inductive as it stands: a step changes the state of the *)
(* node the run stands on only, and leaves it only once it has succeeded.  *)
LEMMA RouteStep ==
  ASSUME TypeOK, RouteIsWhole, [Next]_vars
  PROVE  RouteIsWhole'
<1> USE GraphAssumption
<1>1. ASSUME NEW t \in now..MaxNow, Start(t)
      PROVE  RouteIsWhole'
  BY <1>1 DEF Start, RouteIsWhole, Succeeded
<1>2. CASE StepHalted
  BY <1>2 DEF StepHalted, progress, RouteIsWhole, Succeeded
<1>3. CASE StepMissingNode
  BY <1>3 DEF StepMissingNode, StopRun, RouteIsWhole, Succeeded
<1>4. ASSUME NEW t \in now..MaxNow, NEW n \in Node, run_state = "Running", n = current_node_id,
             MarkRunning(n, t), UNCHANGED current_node_id
      PROVE  RouteIsWhole'
  <2>1. node_state' = [node_state EXCEPT ![n] = IF @ = "Pending" THEN "Running" ELSE @]
    BY <1>4 DEF MarkRunning
  <2>2. \A m \in Node : Succeeded(m)' <=> Succeeded(m)
    BY <2>1 DEF TypeOK, Succeeded
  <2>3. \A m \in Node : node_state'[m] # "Pending" <=> m = n \/ node_state[m] # "Pending"
    BY <2>1 DEF TypeOK
  <2>4. n = Entry \/ \E p \in Node : Succ[p] = n /\ node_state[p] # "Pending"
    BY <1>4 DEF RouteIsWhole
  <2> QED
    BY <1>4, <2>2, <2>3, <2>4 DEF RouteIsWhole
<1>5. ASSUME NEW t \in now..MaxNow, NEW n \in Node, run_state = "Running", n = current_node_id,
             FinishNode(n, "Failed", t), StopRun("Failed")
      PROVE  RouteIsWhole'
  <2>1. node_state' = [node_state EXCEPT ![n] = "Failed"] /\ current_node_id' = n
    BY <1>5 DEF FinishNode, StopRun
  <2>2. \A m \in Node : m # n => node_state'[m] = node_state[m]
    BY <2>1 DEF TypeOK
  <2>3. node_state'[n] = "Failed"
    BY <2>1 DEF TypeOK
  <2> QED
    BY <1>5, <2>1, <2>2, <2>3 DEF RouteIsWhole, Succeeded
<1>6. ASSUME NEW t \in now..MaxNow, NEW n \in Node, run_state = "Running", n = current_node_id,
             FinishNode(n, "Succeeded", t), Advance(n)
      PROVE  RouteIsWhole'
  <2>1. /\ node_state' = [node_state EXCEPT ![n] = "Succeeded"]
        /\ current_node_id' = Succ[n] /\ run_state' # "Created"
    BY <1>6 DEF FinishNode, Advance
  <2>2. \A m \in Node : m # n => node_state'[m] = node_state[m]
    BY <2>1 DEF TypeOK
  <2>3. node_state'[n] = "Succeeded"
    BY <2>1 DEF TypeOK
  <2> QED
    BY <1>6, <2>1, <2>2, <2>3 DEF RouteIsWhole, Succeeded
<1>7. ASSUME NEW t \in now..MaxNow, NEW r \in Reading, StepOnce(r, t)
      PROVE  RouteIsWhole'
  <2>1. ASSUME NEW n \in Node,
               \/ StepNoState(n, r, t) \/ StepNoPlan(n, r, t) \/ StepArrives(n, r, t)
               \/ StepAdapterFails(n, r, t) \/ StepRejected(n, r, t) \/ StepPaused(n, r, t)
               \/ StepCompletes(n, r, t) \/ StepContinues(n, r, t)
        PROVE  RouteIsWhole'
    BY <1>4, <1>5, <1>6, <2>1, StepShape
  <2> QED
    BY <1>2, <1>3, <1>7, <2>1 DEF StepOnce
<1>8. CASE UNCHANGED vars
  BY <1>8 DEF vars, RouteIsWhole, Succeeded
<1> QED
  BY <1>1, <1>7, <1>8 DEF Next

(* A run completes its route without skipping a node, on every graph.      *)
THEOREM RouteCorrect == Spec => []RouteIsWhole
<1>1. Init => RouteIsWhole
  BY GraphAssumption DEF Init, RouteIsWhole, Succeeded
<1>2. TypeOK /\ RouteIsWhole /\ [Next]_vars => RouteIsWhole'
  BY RouteStep
<1> QED
  BY <1>1, <1>2, TypeCorrect, PTL DEF Spec

-----------------------------------------------------------------------------
LEMMA InFlightStep ==
  ASSUME TypeOK, OnlyCurrentInFlight, [Next]_vars
  PROVE  OnlyCurrentInFlight'
<1>1. ASSUME NEW t \in now..MaxNow, Start(t)
      PROVE  OnlyCurrentInFlight'
  BY <1>1 DEF Start, OnlyCurrentInFlight
<1>2. CASE StepHalted
  BY <1>2 DEF StepHalted, progress, OnlyCurrentInFlight
<1>3. CASE StepMissingNode
  BY <1>3 DEF StepMissingNode, StopRun, OnlyCurrentInFlight
<1>4. ASSUME NEW t \in now..MaxNow, NEW r \in Reading, NEW n \in Node,
             \/ StepNoState(n, r, t) \/ StepNoPlan(n, r, t) \/ StepArrives(n, r, t)
             \/ StepAdapterFails(n, r, t) \/ StepRejected(n, r, t) \/ StepPaused(n, r, t)
             \/ StepCompletes(n, r, t) \/ StepContinues(n, r, t)
      PROVE  OnlyCurrentInFlight'
  <2>1. run_state = "Running" /\ n = current_node_id
    BY <1>4, StepShape
  <2>2. \A m \in Node : m # n => node_state[m] \notin {"Running", "Failed"}
    BY <2>1 DEF OnlyCurrentInFlight
  <2>3. node_state[n] # "Failed"
    BY <2>1 DEF OnlyCurrentInFlight
  <2>4. CASE MarkRunning(n, t) /\ UNCHANGED current_node_id
    BY <2>1, <2>2, <2>3, <2>4 DEF MarkRunning, OnlyCurrentInFlight, TypeOK
  <2>5. CASE FinishNode(n, "Failed", t) /\ StopRun("Failed")
    BY <2>1, <2>2, <2>5 DEF FinishNode, StopRun, OnlyCurrentInFlight, TypeOK
  <2>6. CASE FinishNode(n, "Succeeded", t) /\ Advance(n)
    BY <2>1, <2>2, <2>6 DEF FinishNode, OnlyCurrentInFlight, TypeOK
  <2> QED
    BY <1>4, <2>4, <2>5, <2>6, StepShape
<1>5. CASE UNCHANGED vars
  BY <1>5 DEF vars, OnlyCurrentInFlight
<1> QED
  BY <1>1, <1>2, <1>3, <1>4, <1>5 DEF Next, StepOnce

(* Nothing is left running or failed behind the node the run stands on.    *)
THEOREM InFlightCorrect == Spec => []OnlyCurrentInFlight
<1>1. Init => OnlyCurrentInFlight
  BY DEF Init, OnlyCurrentInFlight
<1>2. TypeOK /\ OnlyCurrentInFlight /\ [Next]_vars => OnlyCurrentInFlight'
  BY InFlightStep
<1> QED
  BY <1>1, <1>2, TypeCorrect, PTL DEF Spec

-----------------------------------------------------------------------------
(* A body velocity leaves planner and shield only when nothing that either *)
(* of them looks at forbids it.                                            *)
LEMMA VelocityIsClear ==
  ASSUME NEW n \in Node, NEW r \in ReadingType,
         Judged(n, r).action = "BodyVelocity"
  PROVE  /\ ~StopAsked(r)
         /\ r.stability \in {"Stable", "Unknown"} /\ r.risk = "low"
         /\ r.require_observation => r.observe_ok /\ r.observed
         /\ r.observe_ok => r.obstacle # "hard"
         /\ ~r.in_zone
<1> DEFINE p == Planned(n, r)
           v == View(r)
<1>1. /\ v.stability = r.stability /\ v.risk = r.risk /\ v.in_zone = r.in_zone
      /\ v.emergency_stop = r.emergency_stop /\ v.manual_override = r.manual_override
      /\ v.override = r.override /\ v.require_observation = r.require_observation
      /\ v.observed = (r.observe_ok /\ r.observed)
      /\ r.observe_ok => v.obstacle = r.obstacle
  BY DEF View, ReadingType
<1>2. Evaluate(p, v).action = "BodyVelocity"
  BY DEF Judged
<1>3. /\ ~EmergencyStopAsked(v) /\ ~ManualControlAsked(v) /\ v.override # "SafeStand"
      /\ ~requires_safe_stand(v) /\ ~observation_missing(v) /\ ~collision_risk(v)
      /\ ~v.in_zone /\ p.action = "BodyVelocity"
  BY <1>2 DEF Evaluate, ProposalResult, BodyVelocityResult, Terminal
<1>4. ~RecoveryRequired(v)
  BY <1>3 DEF Planned, Infer, Plan, RecoveryAction
<1> QED
  BY <1>1, <1>3, <1>4 DEF StopAsked, EmergencyAsked, EmergencyStopAsked, ManualControlAsked,
     RecoveryRequired, observation_missing, collision_risk, ReadingType, StabilityState, RiskBand

(* The robot is never given a velocity against what the same step knew.    *)
THEOREM MotionCorrect == Spec => []NoMotionAgainstStop
<1>1. Init => NoMotionAgainstStop
  BY DEF Init, NoMotionAgainstStop, Returned
<1>2. TypeOK /\ NoMotionAgainstStop /\ [Next]_vars => NoMotionAgainstStop'
  <2> SUFFICES ASSUME TypeOK, NoMotionAgainstStop, [Next]_vars PROVE NoMotionAgainstStop'
    OBVIOUS
  <2>1. ASSUME NEW t \in now..MaxNow, Start(t)
        PROVE  NoMotionAgainstStop'
    BY <2>1 DEF Start, Returned, NoMotionAgainstStop
  <2>2. ASSUME NEW r \in Reading, NEW t \in now..MaxNow, StepOnce(r, t)
        PROVE  NoMotionAgainstStop'
    <3>1. CASE result'.stepped = FALSE
      BY <3>1 DEF NoMotionAgainstStop
    <3>2. ASSUME NEW n \in Node, Controlled(n, r)
          PROVE  NoMotionAgainstStop'
      <4>1. r \in ReadingType /\ last_reading' = r
        BY <2>2, EnvironmentAssumption DEF StepOnce
      <4>2. result'.evaluation = Judged(n, r)
        BY <3>2 DEF Controlled
      <4> QED
        BY <4>1, <4>2, VelocityIsClear DEF NoMotionAgainstStop, StopAsked, EmergencyAsked
    <3>3. result'.stepped = FALSE \/ \E n \in Node : Controlled(n, r)
      BY <2>2 DEF StepOnce, StepHalted, StepMissingNode, StepNoState, StepNoPlan, StepArrives,
         StepAdapterFails, StepRejected, StepPaused, StepCompletes, StepContinues, Undisturbed,
         Return, Returned
    <3> QED
      BY <3>1, <3>2, <3>3
  <2>3. CASE UNCHANGED vars
    BY <2>3 DEF vars, NoMotionAgainstStop
  <2> QED
    BY <2>1, <2>2, <2>3 DEF Next
<1> QED
  BY <1>1, <1>2, TypeCorrect, PTL DEF Spec

-----------------------------------------------------------------------------
(* The shield's verdict under an operator's stop comes before any other,   *)
(* and always pauses; under an emergency stop it is Stop.                  *)
LEMMA StopVerdict ==
  ASSUME LimitsValid, NEW n \in Node, NEW r \in ReadingType, StopAsked(r)
  PROVE  /\ should_pause_for_safety(Judged(n, r))
         /\ EmergencyAsked(r) => Judged(n, r).action = "Stop" /\ ~Rejects(Judged(n, r))
<1> DEFINE v == View(r)
<1>1. /\ v.emergency_stop = r.emergency_stop /\ v.manual_override = r.manual_override
      /\ v.override = r.override
  BY DEF View, ReadingType
<1>2. EmergencyStopAsked(v) <=> EmergencyAsked(r)
  BY <1>1 DEF EmergencyStopAsked, EmergencyAsked
<1>3. StopAsked(r) => EmergencyStopAsked(v) \/ ManualControlAsked(v) \/ v.override = "SafeStand"
  BY <1>1, <1>2 DEF StopAsked, ManualControlAsked
<1> QED
  BY <1>2, <1>3 DEF Judged, Evaluate, Terminal, should_pause_for_safety, Rejects

(* A step arrives only with a robot at its target that needs no recovery.  *)
LEMMA ArrivedSteady ==
  ASSUME NEW n \in Node, NEW r \in ReadingType, Arrives(n, r)
  PROVE  AtTargetSteady(n, r)
<1>1. View(r).reached = r.reached /\ View(r).risk = r.risk /\ View(r).stability = r.stability
  BY DEF View, ReadingType
<1>2. NodeType[n] \in MovingType /\ ~RecoveryRequired(View(r)) /\ View(r).reached
  BY DEF Arrives, Planned, Infer, NodePlan, MovePlan, Plan, MovingType
<1> QED
  BY <1>1, <1>2 DEF RecoveryRequired, ReadingType, RiskBand, StabilityState, AtTargetSteady

(* A step under a stop whose control loop runs: the verdict pauses it.     *)
LEMMA ControlledStop ==
  ASSUME TypeOK, NEW t \in now..MaxNow, NEW r \in Reading, StepOnce(r, t),
         result'.invoked, StopAsked(r), LimitsValid
  PROVE  /\ run_state' = "Paused" /\ UNCHANGED {n \in Node : Succeeded(n)}
         /\ EmergencyAsked(r) => result'.stepped /\ commanded' = "Stop"
<1>1. r \in ReadingType
  BY EnvironmentAssumption
<1>2. PICK n \in Node : /\ Controlled(n, r)
                        /\ \/ StepRejected(n, r, t) \/ StepPaused(n, r, t)
                           \/ StepCompletes(n, r, t) \/ StepContinues(n, r, t)
  BY DEF StepOnce, StepHalted, StepMissingNode, StepNoState, StepNoPlan, StepArrives,
     StepAdapterFails, StepRejected, StepPaused, StepCompletes, StepContinues, Undisturbed,
     Return, Returned
<1>3. /\ should_pause_for_safety(Judged(n, r))
      /\ EmergencyAsked(r) => Judged(n, r).action = "Stop" /\ ~Rejects(Judged(n, r))
  BY <1>1, StopVerdict
<1>4. StepRejected(n, r, t) \/ StepPaused(n, r, t)
  BY <1>2, <1>3 DEF StepCompletes, StepContinues, Undisturbed
<1>5. run_state' = "Paused" /\ MarkRunning(n, t)
  BY <1>3, <1>4 DEF StepRejected, StepPaused, StopRun
<1>6. \A m \in Node : Succeeded(m)' <=> Succeeded(m)
  BY <1>5 DEF MarkRunning, Succeeded, TypeOK
<1>7. EmergencyAsked(r) => result'.stepped /\ commanded' = "Stop"
  BY <1>2, <1>3 DEF Controlled
<1> QED
  BY <1>5, <1>6, <1>7

(* What a step whose control loop does not run leaves behind.              *)
Uncontrolled(r) ==
  /\ UNCHANGED commanded
  /\ \A n \in Node : ~Succeeded(n) /\ Succeeded(n)' =>
       n = current_node_id /\ AtTargetSteady(n, r)
  /\ run_state = "Running" /\ run_state' # "Failed" =>
       \E n \in Node : /\ n = current_node_id /\ node_state'[n] = "Succeeded"
                       /\ AtTargetSteady(n, r)

(* Such a step fails, halts or arrives, and a stop lets no arrival in that *)
(* the robot's place does not justify.                                     *)
LEMMA UncontrolledStep ==
  ASSUME TypeOK, NEW t \in now..MaxNow, NEW r \in Reading, StepOnce(r, t), ~result'.invoked
  PROVE  Uncontrolled(r)
<1>1. r \in ReadingType
  BY EnvironmentAssumption
<1>2. CASE StepHalted \/ StepMissingNode
  <2>1. \A m \in Node : Succeeded(m)' <=> Succeeded(m)
    BY <1>2 DEF StepHalted, StepMissingNode, progress, Succeeded
  <2> QED
    BY <1>2, <2>1 DEF StepHalted, StepMissingNode, StopRun, Return, Uncontrolled
<1>3. CASE \E n \in Node : StepNoState(n, r, t) \/ StepNoPlan(n, r, t) \/ StepAdapterFails(n, r, t)
  <2>1. PICK n \in Node : /\ StopRun("Failed") /\ Return(FALSE)
                          /\ MarkRunning(n, t) \/ FinishNode(n, "Failed", t)
    BY <1>3 DEF StepNoState, StepNoPlan, StepAdapterFails
  <2>2. \A m \in Node : Succeeded(m)' => Succeeded(m)
    BY <2>1 DEF MarkRunning, FinishNode, Succeeded, TypeOK
  <2> QED
    BY <2>1, <2>2 DEF StopRun, Return, Uncontrolled
<1>4. ASSUME NEW n \in Node, StepArrives(n, r, t)
      PROVE  Uncontrolled(r)
  <2>1. n = current_node_id /\ AtTargetSteady(n, r) /\ Return(TRUE) /\ FinishNode(n, "Succeeded", t)
    BY <1>1, <1>4, ArrivedSteady DEF StepArrives, HasPlan, Ready
  <2>2. node_state'[n] = "Succeeded" /\ \A m \in Node : m # n => node_state'[m] = node_state[m]
    BY <2>1 DEF FinishNode, TypeOK
  <2> QED
    BY <2>1, <2>2 DEF Return, Succeeded, Uncontrolled
<1> QED
  BY <1>2, <1>3, <1>4 DEF StepOnce, StepRejected, StepPaused, StepCompletes, StepContinues,
     Undisturbed, Controlled

(* What an operator's stop lets a step do, on every graph and whatever     *)
(* else the step meets: its control loop pauses the run, and without it    *)
(* only an arrival completes a node or keeps the run going.                *)
THEOREM OperatorStopCorrect == Spec => OperatorStopHolds
<1> DEFINE Held == StopAsked(last_reading') /\ LimitsValid =>
       /\ result'.invoked =>
            /\ run_state' = "Paused" /\ UNCHANGED {n \in Node : Succeeded(n)}
            /\ EmergencyAsked(last_reading') => result'.stepped /\ commanded' = "Stop"
       /\ ~result'.invoked =>
            /\ UNCHANGED commanded
            /\ \A n \in Node : ~Succeeded(n) /\ Succeeded(n)' =>
                 n = current_node_id /\ AtTargetSteady(n, last_reading')
            /\ run_state = "Running" /\ run_state' # "Failed" =>
                 \/ \A n \in Node : node_state'[n] = "Pending"
                 \/ \E n \in Node : /\ n = current_node_id /\ node_state'[n] = "Succeeded"
                                    /\ AtTargetSteady(n, last_reading')
<1>1. TypeOK /\ [Next]_vars => [Held]_vars
  <2> SUFFICES ASSUME TypeOK, Next, StopAsked(last_reading'), LimitsValid
               PROVE  Held
    BY DEF vars
  <2>1. CASE \E t \in now..MaxNow : Start(t)
    BY <2>1 DEF Start, Returned, Succeeded
  <2>2. ASSUME NEW t \in now..MaxNow, NEW r \in Reading, StepOnce(r, t)
        PROVE  Held
    <3>1. last_reading' = r
      BY <2>2 DEF StepOnce
    <3>2. CASE result'.invoked
      BY <2>2, <3>1, <3>2, ControlledStop
    <3>3. CASE ~result'.invoked
      BY <2>2, <3>1, <3>3, UncontrolledStep DEF Uncontrolled
    <3> QED
      BY <3>2, <3>3
  <2> QED
    BY <2>1, <2>2 DEF Next
<1> QED
  BY <1>1, TypeCorrect, PTL DEF Spec, OperatorStopHolds

-----------------------------------------------------------------------------
(* A moving node is completed by a robot at its target that needs no       *)
(* recovery.                                                               *)
THEOREM ArrivalCorrect == Spec => ArrivesSteady
<1> DEFINE A == \A n \in Node :
       NodeType[n] \in MovingType /\ ~Succeeded(n) /\ node_state'[n] = "Succeeded" =>
         /\ last_reading'.reached /\ last_reading'.risk = "low"
         /\ last_reading'.stability \in {"Stable", "Unknown"}
<1>1. TypeOK /\ [Next]_vars => [A]_vars
  <2> SUFFICES ASSUME TypeOK, Next, NEW m \in Node, NodeType[m] \in MovingType,
                      ~Succeeded(m), node_state'[m] = "Succeeded"
               PROVE  /\ last_reading'.reached /\ last_reading'.risk = "low"
                      /\ last_reading'.stability \in {"Stable", "Unknown"}
    OBVIOUS
  <2>1. PICK t \in now..MaxNow, r \in Reading : StepOnce(r, t)
    BY DEF Next, Start
  <2>2. last_reading' = r /\ r \in ReadingType
    BY <2>1, EnvironmentAssumption DEF StepOnce
  <2>3. PICK n \in Node : StepArrives(n, r, t) \/ StepCompletes(n, r, t)
                          \/ MarkRunning(n, t) \/ FinishNode(n, "Failed", t)
    BY <2>1 DEF StepOnce, StepHalted, StepMissingNode, StepNoState, StepNoPlan, StepAdapterFails,
       StepRejected, StepPaused, StepContinues, progress, Succeeded
  <2>4. m = n /\ ~MarkRunning(n, t) /\ ~FinishNode(n, "Failed", t)
    BY <2>3 DEF StepArrives, StepCompletes, MarkRunning, FinishNode, Succeeded, TypeOK
  <2>5. StepArrives(n, r, t)
    BY <2>3, <2>4 DEF StepCompletes, Completes, MovingType
  <2>6. AtTargetSteady(n, r)
    BY <2>2, <2>5, ArrivedSteady DEF StepArrives
  <2> QED
    BY <2>2, <2>6 DEF AtTargetSteady
<1> QED
  BY <1>1, TypeCorrect, PTL DEF Spec, ArrivesSteady

-----------------------------------------------------------------------------
(* The refinement: a step of the executor is a step of TaskRoute.          *)
LEMMA RouteSimulation ==
  ASSUME TypeOK, [Next]_vars
  PROVE  [Route!Next]_<<run_state, current_node_id, {n \in Node : Succeeded(n)}>>
<1> DEFINE done == {n \in Node : Succeeded(n)}
<1>1. ASSUME NEW t \in now..MaxNow, Start(t)
      PROVE  Route!Begin
  <2>1. done' = {}
    BY <1>1 DEF Start, Succeeded
  <2> QED
    BY <1>1, <2>1 DEF Start, Route!Begin
<1>2. CASE StepHalted
  <2>1. done' = done
    BY <1>2 DEF StepHalted, progress, Succeeded
  <2> QED
    BY <1>2, <2>1 DEF StepHalted, progress
<1>3. CASE StepMissingNode
  <2>1. done' = done
    BY <1>3 DEF StepMissingNode, Succeeded
  <2> QED
    BY <1>3, <2>1 DEF StepMissingNode, StopRun, Route!Next, Route!Halt
<1>4. ASSUME NEW t \in now..MaxNow, NEW r \in Reading, NEW n \in Node,
             \/ StepNoState(n, r, t) \/ StepNoPlan(n, r, t) \/ StepArrives(n, r, t)
             \/ StepAdapterFails(n, r, t) \/ StepRejected(n, r, t) \/ StepPaused(n, r, t)
             \/ StepCompletes(n, r, t) \/ StepContinues(n, r, t)
      PROVE  [Route!Next]_<<run_state, current_node_id, done>>
  <2>1. run_state = "Running" /\ n = current_node_id
    BY <1>4, StepShape
  <2>2. CASE MarkRunning(n, t) /\ UNCHANGED current_node_id
             /\ run_state' \in {"Running", "Paused", "Failed"}
    <3>1. done' = done
      BY <2>2 DEF MarkRunning, Succeeded, TypeOK
    <3> QED
      BY <2>1, <2>2, <3>1 DEF Route!Next, Route!Halt
  <2>3. CASE FinishNode(n, "Failed", t) /\ StopRun("Failed")
    <3>1. done' = done \ {n}
      BY <2>3 DEF FinishNode, Succeeded, TypeOK
    <3> QED
      BY <2>1, <2>3, <3>1 DEF StopRun, Route!Next, Route!Halt
  <2>4. CASE FinishNode(n, "Succeeded", t) /\ Advance(n)
    <3>1. done' = done \cup {n}
      BY <2>4 DEF FinishNode, Succeeded, TypeOK
    <3> QED
      BY <2>1, <2>4, <3>1 DEF Advance, Route!Next, Route!Complete
  <2> QED
    BY <1>4, <2>2, <2>3, <2>4, StepShape
<1>5. CASE UNCHANGED vars
  <2>1. done' = done
    BY <1>5 DEF vars, Succeeded
  <2> QED
    BY <1>5, <2>1 DEF vars
<1> QED
  BY <1>1, <1>2, <1>3, <1>4, <1>5 DEF Next, StepOnce, Route!Next

(* The executor implements TaskRoute: it completes only the node it stands *)
(* on, and once halted moves only by a new start.                          *)
THEOREM RouteImplemented == Spec => WalksItsRoute
<1>1. Init => Route!Init
  BY DEF Init, Route!Init, Succeeded
<1>2. TypeOK /\ [Next]_vars
        => [Route!Next]_<<run_state, current_node_id, {n \in Node : Succeeded(n)}>>
  BY RouteSimulation
<1> QED
  BY <1>1, <1>2, TypeCorrect, PTL DEF Spec, WalksItsRoute, Route!Spec

-----------------------------------------------------------------------------
(* A proposal that is no velocity does not become one in the shield.       *)
LEMMA NoVelocityMade ==
  ASSUME NEW p, NEW c, p.action # "BodyVelocity"
  PROVE  Evaluate(p, c).action # "BodyVelocity"
BY DEF Evaluate, ProposalResult, Terminal

LEMMA StandingPlan ==
  ASSUME NEW type, NEW v, type \notin MovingType
  PROVE  Infer(type, v).action # "BodyVelocity"
BY DEF Infer, NodePlan, Plan, RecoveryAction

(* A run whose last node is not a moving one succeeds with the robot       *)
(* stopped, on every graph that ends so.                                   *)
THEOREM StillCorrect == Spec => []SucceededRunIsStill
<1>1. Init => SucceededRunIsStill BY DEF Init, SucceededRunIsStill
<1>2. SucceededRunIsStill /\ [Next]_vars => SucceededRunIsStill'
  <2> SUFFICES ASSUME SucceededRunIsStill, [Next]_vars, EndsStill, run_state' = "Succeeded"
               PROVE  commanded' # "BodyVelocity"
    BY DEF SucceededRunIsStill, EndsStill
  <2>1. CASE run_state = "Succeeded" /\ UNCHANGED commanded BY <2>1 DEF SucceededRunIsStill
  <2>2. CASE UNCHANGED vars BY <2>1, <2>2 DEF vars
  <2>3. ASSUME NEW t \in now..MaxNow, Start(t) PROVE FALSE BY <2>3 DEF Start
  <2>4. ASSUME NEW r \in Reading, NEW t \in now..MaxNow, NEW n \in Node,
               \/ StepNoState(n, r, t) \/ StepNoPlan(n, r, t) \/ StepArrives(n, r, t)
               \/ StepAdapterFails(n, r, t) \/ StepRejected(n, r, t) \/ StepPaused(n, r, t)
               \/ StepCompletes(n, r, t) \/ StepContinues(n, r, t)
        PROVE  commanded' # "BodyVelocity"
    <3>1. run_state = "Running" BY <2>4, StepShape
    <3>2. (StepArrives(n, r, t) \/ StepCompletes(n, r, t)) /\ Succ[n] = NoNode
      BY <2>4, <3>1 DEF StepNoState, StepNoPlan, StepArrives, StepAdapterFails, StepRejected,
         StepPaused, StepCompletes, StepContinues, StopRun, Advance
    <3>3. NodeType[n] \notin MovingType BY <3>2 DEF EndsStill
    <3>4. Undisturbed(n, r)
      BY <3>2, <3>3 DEF StepArrives, HasPlan, Arrives, StepCompletes
    <3>5. commanded' = Judged(n, r).action BY <3>4 DEF Undisturbed, Controlled
    <3>6. Planned(n, r).action # "BodyVelocity" BY <3>3, StandingPlan DEF Planned
    <3> QED BY <3>5, <3>6, NoVelocityMade DEF Judged
  <2>5. CASE StepHalted BY <2>1, <2>5 DEF StepHalted, Return
  <2>6. CASE StepMissingNode BY <2>6 DEF StepMissingNode, StopRun
  <2> QED BY <2>2, <2>3, <2>4, <2>5, <2>6 DEF Next, StepOnce
<1> QED BY <1>1, <1>2, PTL DEF Spec

-----------------------------------------------------------------------------
(* The books.  A graph without cycles has a rank that grows along every    *)
(* edge, so the run stands on a node of a higher rank than any it has been *)
(* to: it has not been there before, and no node has been met ahead of it. *)
Ascends(rank) == \A n \in Node : Succ[n] \in Node => rank[n] < rank[Succ[n]]

Acyclic == \E rank \in [Node -> Nat] : Ascends(rank)

Met(n) == node_state[n] # "Pending"

NeverBack(rank) ==
  current_node_id \in Node =>
    /\ ~Succeeded(current_node_id)
    /\ \A n \in Node : Met(n) => n = current_node_id \/ rank[n] < rank[current_node_id]

Counted == completed_node_count = Cardinality({n \in Node : Succeeded(n)})

(* Nothing is written with a time that has not come.                       *)
Timed == \A n \in Node : /\ Met(n) => started_at[n] <= now
                         /\ Succeeded(n) => finished_at[n] <= now

(* What the books say of a node that succeeded, and of the next one.       *)
Lasted(n) == /\ started_at[n] <= finished_at[n]
             /\ NodeType[n] = "Dwell" => finished_at[n] - started_at[n] >= dwell_duration(n)

Ordered == \A n \in Node : Succeeded(n) =>
             /\ Lasted(n)
             /\ \A m \in Node : m = Succ[n] /\ Met(m) => finished_at[n] <= started_at[m]

BooksInv(rank) == NeverBack(rank) /\ Counted /\ Timed /\ Ordered

(* A node that is marked, fails or succeeds, seen from its books.          *)
LEMMA Marked ==
  ASSUME TypeOK, NEW n \in Node, NEW t \in now..MaxNow, MarkRunning(n, t)
  PROVE  /\ \A m \in Node : Succeeded(m)' <=> Succeeded(m)
         /\ \A m \in Node : Met(m)' <=> Met(m) \/ m = n
         /\ started_at'[n] = StartedAt(n, t)
         /\ \A m \in Node \ {n} : started_at'[m] = started_at[m]
         /\ UNCHANGED <<finished_at, completed_node_count>>
BY DEF TypeOK, MarkRunning, Succeeded, Met

LEMMA Finished ==
  ASSUME TypeOK, NEW n \in Node, NEW t \in now..MaxNow, NEW s \in {"Succeeded", "Failed"},
         FinishNode(n, s, t)
  PROVE  /\ \A m \in Node \ {n} : Succeeded(m)' <=> Succeeded(m)
         /\ Succeeded(n)' <=> s = "Succeeded"
         /\ \A m \in Node : Met(m)' <=> Met(m) \/ m = n
         /\ started_at'[n] = StartedAt(n, t) /\ finished_at'[n] = t
         /\ \A m \in Node \ {n} : /\ started_at'[m] = started_at[m]
                                  /\ finished_at'[m] = finished_at[m]
BY DEF TypeOK, FinishNode, Succeeded, Met

(* Whatever a step does to the node the run stands on, if it is given a    *)
(* time of its own and lasted if it succeeded, the times stay in order.    *)
LEMMA TimesStep ==
  ASSUME TypeOK, TypeOK', NEW rank \in [Node -> Nat], Ascends(rank), BooksInv(rank),
         NEW n \in Node, n = current_node_id, NEW t \in now..MaxNow, now' = t,
         \A m \in Node \ {n} : Succeeded(m)' <=> Succeeded(m),
         \A m \in Node : Met(m)' <=> Met(m) \/ m = n,
         started_at'[n] = StartedAt(n, t),
         \A m \in Node \ {n} : /\ started_at'[m] = started_at[m]
                              /\ finished_at'[m] = finished_at[m],
         Succeeded(n)' => Lasted(n)' /\ finished_at'[n] = t
  PROVE  Timed' /\ Ordered'
<1>1. now \in Nat /\ t \in Nat /\ now <= t BY EnvironmentAssumption DEF TypeOK
<1>2. started_at'[n] <= t /\ started_at'[n] \in Nat
  BY <1>1 DEF StartedAt, BooksInv, Timed, Met, TypeOK
<1>3. \A m \in Node : started_at[m] \in Nat /\ finished_at[m] \in Nat BY DEF TypeOK
<1>4. Timed' BY <1>1, <1>2, <1>3 DEF BooksInv, Timed
<1>5. ASSUME NEW m \in Node, Succeeded(m)' PROVE Lasted(m)'
  <2>1. CASE m = n BY <1>5, <2>1
  <2>2. CASE m # n BY <1>5, <2>2 DEF BooksInv, Ordered, Lasted
  <2> QED BY <2>1, <2>2
<1>6. ASSUME NEW m \in Node, Succeeded(m)', NEW k \in Node, k = Succ[m], Met(k)'
      PROVE  finished_at'[m] <= started_at'[k]
  <2>1. rank[m] \in Nat /\ rank[k] \in Nat /\ rank[n] \in Nat /\ rank[m] < rank[k]
    BY <1>6 DEF Ascends
  <2>2. CASE m = n
    <3>1. k # n /\ Met(k) BY <1>6, <2>1, <2>2
    <3>2. rank[k] < rank[n] BY <3>1 DEF BooksInv, NeverBack
    <3> QED BY <2>1, <2>2, <3>2
  <2>3. CASE m # n /\ k # n BY <1>6, <2>3 DEF BooksInv, Ordered
  <2>4. CASE m # n /\ k = n
    <3>1. Succeeded(m) /\ finished_at'[m] = finished_at[m] /\ finished_at[m] <= now
      BY <1>6, <2>4 DEF BooksInv, Timed
    <3>2. Met(n) => finished_at[m] <= started_at[n]
      BY <1>6, <2>4, <3>1 DEF BooksInv, Ordered
    <3> QED BY <1>1, <1>3, <2>4, <3>1, <3>2 DEF StartedAt, Met
  <2> QED BY <2>2, <2>3, <2>4
<1> QED BY <1>4, <1>5, <1>6 DEF Ordered

LEMMA BooksStep ==
  ASSUME TypeOK, TypeOK', NEW rank \in [Node -> Nat], Ascends(rank), BooksInv(rank), [Next]_vars
  PROVE  BooksInv(rank)'
<1>1. ASSUME NEW t \in now..MaxNow, Start(t) PROVE BooksInv(rank)'
  <2>1. \A n \in Node : ~Succeeded(n)' /\ ~Met(n)' BY <1>1 DEF Start, Succeeded, Met
  <2>2. {n \in Node : Succeeded(n)}' = {} BY <2>1
  <2>3. Counted' BY <1>1, <2>2, FS_EmptySet DEF Start, Counted
  <2> QED BY <2>1, <2>3 DEF BooksInv, NeverBack, Timed, Ordered
<1>2. ASSUME UNCHANGED <<node_state, started_at, finished_at, completed_node_count,
                         current_node_id>>, now' \in now..MaxNow
      PROVE  BooksInv(rank)'
  <2>1. now <= now' /\ now \in Nat /\ now' \in Nat BY <1>2, EnvironmentAssumption DEF TypeOK
  <2>2. \A n \in Node : started_at[n] \in Nat /\ finished_at[n] \in Nat BY DEF TypeOK
  <2>3. Timed' BY <1>2, <2>1, <2>2 DEF BooksInv, Timed, Met, Succeeded
  <2> QED
    BY <1>2, <2>3 DEF BooksInv, NeverBack, Met, Counted, Succeeded, Ordered, Lasted
<1>3. ASSUME NEW t \in now..MaxNow, NEW r \in Reading, now' = t, NEW n \in Node,
             \/ StepNoState(n, r, t) \/ StepNoPlan(n, r, t) \/ StepArrives(n, r, t)
             \/ StepAdapterFails(n, r, t) \/ StepRejected(n, r, t) \/ StepPaused(n, r, t)
             \/ StepCompletes(n, r, t) \/ StepContinues(n, r, t)
      PROVE  BooksInv(rank)'
  <2>1. n = current_node_id BY <1>3, StepShape
  <2>2. ~Succeeded(n) /\ \A m \in Node : Met(m) => m = n \/ rank[m] < rank[n]
    BY <2>1 DEF BooksInv, NeverBack
  <2>3. now \in Nat /\ t \in Nat /\ now <= t BY EnvironmentAssumption DEF TypeOK
  <2>4. CASE MarkRunning(n, t) /\ UNCHANGED current_node_id
    <3>1. /\ \A m \in Node : Succeeded(m)' <=> Succeeded(m)
          /\ \A m \in Node : Met(m)' <=> Met(m) \/ m = n
          /\ started_at'[n] = StartedAt(n, t)
          /\ \A m \in Node \ {n} : started_at'[m] = started_at[m]
          /\ UNCHANGED <<finished_at, completed_node_count>>
      BY <2>4, Marked
    <3>2. Timed' /\ Ordered' BY <1>3, <2>1, <2>2, <3>1, TimesStep
    <3>3. {m \in Node : Succeeded(m)}' = {m \in Node : Succeeded(m)} BY <3>1
    <3>4. Counted' BY <3>1, <3>3 DEF BooksInv, Counted
    <3>5. NeverBack(rank)' BY <2>1, <2>2, <2>4, <3>1 DEF NeverBack
    <3> QED BY <3>2, <3>4, <3>5 DEF BooksInv
  <2>5. CASE FinishNode(n, "Failed", t) /\ StopRun("Failed")
    <3>1. /\ \A m \in Node \ {n} : Succeeded(m)' <=> Succeeded(m)
          /\ ~Succeeded(n)'
          /\ \A m \in Node : Met(m)' <=> Met(m) \/ m = n
          /\ started_at'[n] = StartedAt(n, t)
          /\ \A m \in Node \ {n} : /\ started_at'[m] = started_at[m]
                                   /\ finished_at'[m] = finished_at[m]
      BY <2>5, Finished
    <3>2. Timed' /\ Ordered' BY <1>3, <2>1, <3>1, TimesStep
    <3>3. {m \in Node : Succeeded(m)}' = {m \in Node : Succeeded(m)} BY <2>2, <3>1
    <3>4. completed_node_count' = completed_node_count BY <2>5 DEF FinishNode, TypeOK
    <3>5. Counted' BY <3>3, <3>4 DEF BooksInv, Counted
    <3>6. NeverBack(rank)' BY <2>1, <2>2, <2>5, <3>1 DEF StopRun, NeverBack
    <3> QED BY <3>2, <3>5, <3>6 DEF BooksInv
  <2>6. CASE FinishNode(n, "Succeeded", t) /\ Advance(n)
    <3>1. /\ \A m \in Node \ {n} : Succeeded(m)' <=> Succeeded(m)
          /\ Succeeded(n)'
          /\ \A m \in Node : Met(m)' <=> Met(m) \/ m = n
          /\ started_at'[n] = StartedAt(n, t) /\ finished_at'[n] = t
          /\ \A m \in Node \ {n} : /\ started_at'[m] = started_at[m]
                                   /\ finished_at'[m] = finished_at[m]
      BY <2>6, Finished
    <3>2. StartedAt(n, t) <= t /\ StartedAt(n, t) \in Nat
      BY <2>3 DEF StartedAt, BooksInv, Timed, Met, TypeOK
    <3>3. NodeType[n] = "Dwell" => t - StartedAt(n, t) >= dwell_duration(n)
      <4>1. StepArrives(n, r, t) \/ StepCompletes(n, r, t)
        BY <1>3, <2>2, <2>6, <3>1, Marked, Finished
           DEF StepNoState, StepNoPlan, StepAdapterFails, StepRejected, StepPaused, StepContinues
      <4>2. NodeType[n] = "Dwell" => StepCompletes(n, r, t)
        BY <4>1 DEF StepArrives, Arrives, MovingType
      <4> QED BY <4>2 DEF StepCompletes, Completes
    <3>4. Lasted(n)' BY <3>1, <3>2, <3>3 DEF Lasted, dwell_duration
    <3>5. Timed' /\ Ordered' BY <1>3, <2>1, <3>1, <3>4, TimesStep
    <3>6. {m \in Node : Succeeded(m)}' = {m \in Node : Succeeded(m)} \cup {n} BY <3>1
    <3>7. IsFiniteSet({m \in Node : Succeeded(m)})
      BY GraphAssumption, FS_Subset
    <3>8. Cardinality({m \in Node : Succeeded(m)}') = Cardinality({m \in Node : Succeeded(m)}) + 1
      BY <2>2, <3>6, <3>7, FS_AddElement
    <3>9. completed_node_count' = completed_node_count + 1
      BY <2>2, <2>6 DEF FinishNode, Succeeded
    <3>10. Counted' BY <3>8, <3>9 DEF BooksInv, Counted
    <3>11. NeverBack(rank)'
      <4>1. current_node_id' \in Node => current_node_id' = Succ[n]
        BY <2>6, GraphAssumption DEF Advance
      <4>2. ASSUME Succ[n] \in Node
            PROVE  /\ rank[n] < rank[Succ[n]] /\ Succ[n] # n /\ ~Succeeded(Succ[n])'
                   /\ \A m \in Node : Met(m)' => rank[m] < rank[Succ[n]]
        <5>1. rank[n] < rank[Succ[n]] /\ \A m \in Node : rank[m] \in Nat BY <4>2 DEF Ascends
        <5>2. ~Met(Succ[n]) /\ Succ[n] # n BY <2>2, <4>2, <5>1
        <5>3. ~Succeeded(Succ[n])' BY <3>1, <4>2, <5>2 DEF Succeeded, Met
        <5> QED BY <2>2, <3>1, <4>2, <5>1, <5>2, <5>3
      <4> QED BY <4>1, <4>2 DEF NeverBack
    <3> QED BY <3>5, <3>10, <3>11 DEF BooksInv
  <2> QED BY <1>3, <2>4, <2>5, <2>6, StepShape
<1>4. CASE UNCHANGED vars
  BY <1>4 DEF vars, BooksInv, NeverBack, Met, Counted, Timed, Succeeded, Ordered, Lasted
<1>5. ASSUME NEW t \in now..MaxNow, NEW r \in Reading, StepOnce(r, t) PROVE BooksInv(rank)'
  <2>1. now' = t BY <1>5 DEF StepOnce
  <2>2. CASE StepHalted BY <1>2, <2>1, <2>2 DEF StepHalted, progress
  <2>3. CASE StepMissingNode BY <1>2, <2>1, <2>3 DEF StepMissingNode, StopRun
  <2> QED BY <1>3, <1>5, <2>1, <2>2, <2>3 DEF StepOnce
<1> QED BY <1>1, <1>4, <1>5 DEF Next

(* On every graph without cycles the books agree with the route: the count *)
(* is right, times do not go back, and no dwell is cut short.              *)
THEOREM BooksCorrect == ASSUME Acyclic PROVE Spec => []BooksAgree
<1>1. PICK rank \in [Node -> Nat] : Ascends(rank) BY DEF Acyclic
<1>2. Init => BooksInv(rank)
  <2> SUFFICES ASSUME Init PROVE BooksInv(rank) OBVIOUS
  <2>1. \A n \in Node : ~Succeeded(n) /\ ~Met(n) BY DEF Init, Succeeded, Met
  <2>2. {n \in Node : Succeeded(n)} = {} BY <2>1
  <2>3. Counted BY <2>2, FS_EmptySet DEF Init, Counted
  <2> QED BY <2>1, <2>3 DEF BooksInv, NeverBack, Timed, Ordered
<1>3. TypeOK /\ TypeOK' /\ BooksInv(rank) /\ [Next]_vars => BooksInv(rank)'
  BY <1>1, BooksStep
<1>4. BooksInv(rank) => BooksAgree BY DEF BooksInv, Counted, Ordered, Lasted, Met, BooksAgree
<1> QED BY <1>2, <1>3, <1>4, TypeCorrect, PTL DEF Spec
=============================================================================
