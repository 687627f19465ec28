--------------------------- MODULE MCTaskExecutor ---------------------------
(***************************************************************************)
(* The chain a plan has, move - dwell - return - stop, and a graph whose   *)
(* last edge names an id without a node, which start() takes as well.      *)
(* Readings differ from the nominal one in at most Deviations fields.      *)
(***************************************************************************)
EXTENDS TaskExecutor, TLC

CONSTANTS move, dwell, home, stop, ghost, Deviations

Nominal == [state_ok |-> TRUE, observe_ok |-> TRUE, policy_ok |-> TRUE, step_ok |-> TRUE,
            stability |-> "Stable", risk |-> "low", reached |-> FALSE, over_limit |-> FALSE,
            observed |-> TRUE, obstacle |-> "none", in_zone |-> FALSE,
            require_observation |-> TRUE, emergency_stop |-> FALSE,
            manual_override |-> FALSE, override |-> "Pause"]

FieldType == [stability |-> StabilityState, risk |-> RiskBand, obstacle |-> ObstacleBand,
              override |-> OverrideCommandType]
ValuesOf(f) == IF f \in DOMAIN FieldType THEN FieldType[f] ELSE BOOLEAN

OneAway(r) == UNION {{[r EXCEPT ![f] = v] : v \in ValuesOf(f)} : f \in DOMAIN Nominal}
MCReading == IF Deviations = 1 THEN OneAway(Nominal)
                               ELSE UNION {OneAway(r) : r \in OneAway(Nominal)}

ChainNode == {move, dwell, home, stop}
ChainType == (move :> "MoveTo") @@ (dwell :> "Dwell") @@ (home :> "ReturnHome") @@ (stop :> "Stop")
ChainSucc == (move :> dwell) @@ (dwell :> home) @@ (home :> stop) @@ (stop :> NoNode)
ChainDwell == (move :> 1) @@ (dwell :> 1) @@ (home :> 0) @@ (stop :> 0)
ChainTarget == {move, dwell, home}

(* The shortest route: a moving node and a stop, whose edge in the graph   *)
(* with a gap names an id without a node.                                  *)
ShortNode == {move, stop}
ShortType == (move :> "MoveTo") @@ (stop :> "Stop")
ShortSucc == (move :> stop) @@ (stop :> NoNode)
GapSucc == (move :> stop) @@ (stop :> ghost)
GapId == {move, stop, ghost}
ShortTarget == {move}
ShortDwell == (move :> 0) @@ (stop :> 0)
=============================================================================
