------------------------------ MODULE MCLocalRun ------------------------------
(* One target a metre ahead, with a dwell, on every kind of ground.        *)
EXTENDS LocalRun

MCPath == <<[target_id |-> "A", at |-> 100000, dwell |-> 10, is_task_target |-> TRUE]>>
MCRequest ==
  {[valid |-> TRUE, plan_only |-> FALSE, terrain_pack |-> t, zone |-> <<1, 0>>, max_steps |-> 5,
    auto_extend |-> TRUE, cap |-> 1200, evidence |-> FALSE] :
     t \in DOMAIN terrain_speed_limit \cup {"mixed"}}
=============================================================================
