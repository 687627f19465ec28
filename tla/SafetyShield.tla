---------------------------- MODULE SafetyShield ----------------------------
(***************************************************************************)
(* The gate every action passes through: BasicSafetyShield::evaluate turns *)
(* an action proposal and a safety context into a safe action with a       *)
(* decision, and at most one safety event.                                 *)
(*                                                                         *)
(* Distances, speeds and risk scores are abstracted to the bands that the  *)
(* thresholds of SafetyLimits, RecoveryControllerConfig and                *)
(* ObstacleAvoidanceConfig (default values) tell apart.                    *)
(***************************************************************************)
CONSTANTS LimitsValid,         \* limits_are_valid() of the shield's SafetyLimits
          AllowJointCommands   \* SafetyLimits::allow_joint_commands

ASSUME LimitsAssumption == LimitsValid \in BOOLEAN /\ AllowJointCommands \in BOOLEAN

ActionType == {"BodyVelocity", "JointPosition", "JointVelocity", "Stop", "SafeStand", "Replan"}

SafetyDecision == {"Accepted", "Clipped", "Rejected", "SafeStand", "EmergencyStop", "Replan"}

TriggerType == {"None", "OrientationLimit", "VelocityLimit", "CollisionRisk", "ForbiddenZone",
                "ActionLimit", "EmergencyStop", "ManualOverride", "PolicyInvalid",
                "ObservationMissing"}

OverrideCommandType == {"Pause", "Resume", "EmergencyStop", "SafeStand", "ManualControl"}

StabilityState == {"Stable", "Recovering", "Unstable", "Fallen", "Unknown"}

(* risk_score: below 0.45, below 0.65, up to max_risk_score 0.8, above it. *)
RiskBand == {"low", "elevated", "high", "extreme"}

(* obstacle_state: not detected, detected at distance 0, within 0.25 m     *)
(* (min_obstacle_distance_m), within 0.80 m (warning distance), beyond.    *)
ObstacleBand == {"none", "contact", "hard", "warning", "far"}

Proposal == [action : ActionType, over_limit : BOOLEAN]

SafetyContext == [stability : StabilityState, risk : RiskBand,
                  observed : BOOLEAN, obstacle : ObstacleBand, in_zone : BOOLEAN,
                  require_observation : BOOLEAN, emergency_stop : BOOLEAN,
                  manual_override : BOOLEAN, override : OverrideCommandType]

SafetyEvaluation == [action : ActionType, decision : SafetyDecision, event : TriggerType]

Terminal(decision, action, event) == [action |-> action, decision |-> decision, event |-> event]

-----------------------------------------------------------------------------
(* Only the flag of the context is looked at, not the override command. *)
EmergencyFlagOnly(c) == c.emergency_stop

EmergencyStopAsked(c) == c.emergency_stop \/ c.override = "EmergencyStop"

ManualControlAsked(c) == c.manual_override \/ c.override = "ManualControl"

requires_safe_stand(c) == c.stability \in {"Fallen", "Unstable"} \/ c.risk = "extreme"

observation_missing(c) == c.require_observation /\ ~c.observed

(* A detected obstacle at distance exactly zero is not a collision risk:   *)
(* the code asks for nearest_distance_m > 0.                               *)
collision_risk(c) == c.obstacle = "hard"

(* Proposals that reach the switch: velocities are clipped to the limits,  *)
(* stopping actions are taken as they are, joint commands need permission. *)
BodyVelocityResult(p) ==
  IF p.over_limit THEN Terminal("Clipped", "BodyVelocity", "VelocityLimit")
                  ELSE Terminal("Accepted", "BodyVelocity", "None")

ProposalResult(p) ==
  IF p.action = "BodyVelocity" THEN BodyVelocityResult(p)
  ELSE IF p.action \in {"Stop", "SafeStand", "Replan"} \/ AllowJointCommands
    THEN Terminal("Accepted", p.action, "None")
    ELSE Terminal("Rejected", "Stop", "ActionLimit")

(* Manual control checked before the emergency stop. *)
EvaluateManualFirst(p, c) ==
  IF ManualControlAsked(c) THEN Terminal("Rejected", "Stop", "ManualOverride")
  ELSE IF EmergencyStopAsked(c) THEN Terminal("EmergencyStop", "Stop", "EmergencyStop")
  ELSE IF requires_safe_stand(c) THEN Terminal("SafeStand", "SafeStand", "OrientationLimit")
  ELSE ProposalResult(p)

(* The checks in the order the code makes them: the first that applies     *)
(* decides.                                                                *)
Evaluate(p, c) ==
  IF ~LimitsValid THEN Terminal("Rejected", "Stop", "ActionLimit")
  ELSE IF EmergencyStopAsked(c) THEN Terminal("EmergencyStop", "Stop", "EmergencyStop")
  ELSE IF ManualControlAsked(c) THEN Terminal("Rejected", "Stop", "ManualOverride")
  ELSE IF c.override = "SafeStand" THEN Terminal("SafeStand", "SafeStand", "ManualOverride")
  ELSE IF requires_safe_stand(c) THEN Terminal("SafeStand", "SafeStand", "OrientationLimit")
  ELSE IF observation_missing(c) THEN Terminal("Rejected", "Stop", "ObservationMissing")
  ELSE IF collision_risk(c) THEN Terminal("Replan", "Replan", "CollisionRisk")
  ELSE IF c.in_zone THEN Terminal("Replan", "Replan", "ForbiddenZone")
  ELSE ProposalResult(p)
=============================================================================
