---------------------------- MODULE LocalPlanner ----------------------------
(***************************************************************************)
(* What RuleBasedPolicyRuntime proposes for a task node: the recovery      *)
(* controller first, then the path tracker with obstacle avoidance for the *)
(* nodes that move, and a stopping action for the others.                  *)
(*                                                                         *)
(* A view of the robot is a record with the body state (stability, risk),  *)
(* whether its position is within the target tolerance (reached), and the  *)
(* observed obstacle band.                                                 *)
(***************************************************************************)
TaskNodeType == {"MoveTo", "Dwell", "Inspect", "ReturnHome", "Stop"}

MovingType == {"MoveTo", "ReturnHome"}

Plan(action, over_limit, reached) ==
  [action |-> action, over_limit |-> over_limit, target_reached |-> reached]

-----------------------------------------------------------------------------
(* RecoveryController::evaluate: does the body state call for recovery,    *)
(* and with which action.                                                  *)
RecoveryRequired(v) == v.stability \in {"Fallen", "Unstable", "Recovering"}
                       \/ v.risk \in {"elevated", "high", "extreme"}

RecoveryAction(v) ==
  IF v.stability \in {"Fallen", "Unstable"} THEN "SafeStand"
  ELSE IF v.stability = "Recovering" THEN "Stop"
  ELSE IF v.risk \in {"high", "extreme"} THEN "SafeStand" ELSE "Stop"

(* SimpleObstacleAvoidance::apply on a body velocity: inside the hard stop *)
(* distance it becomes Replan; at distance zero it is left as it was.      *)
AvoidanceAction(v) == IF v.obstacle = "hard" THEN "Replan" ELSE "BodyVelocity"

MovePlan(v) ==
  IF v.reached THEN Plan("Stop", FALSE, TRUE)
               ELSE Plan(AvoidanceAction(v), v.over_limit, FALSE)

NodePlan(type, v) ==
  IF type \in MovingType THEN MovePlan(v)
  ELSE IF type = "Inspect" THEN Plan("SafeStand", FALSE, FALSE)
  ELSE Plan("Stop", FALSE, type = "Stop")

(* Arrival decided before recovery is asked. *)
InferArrivalFirst(type, v) ==
  IF type \in MovingType /\ v.reached THEN MovePlan(v)
  ELSE IF RecoveryRequired(v) THEN Plan(RecoveryAction(v), FALSE, FALSE)
  ELSE NodePlan(type, v)

Infer(type, v) ==
  IF RecoveryRequired(v) THEN Plan(RecoveryAction(v), FALSE, FALSE)
                         ELSE NodePlan(type, v)
=============================================================================
