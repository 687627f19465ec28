--------------------------- MODULE PresentationWindow ---------------------------
(***************************************************************************)
(* The loops of the two presentation windows: the MuJoCo viewer script and *)
(* the Webots supervisor controller.  In each frame a window lists the     *)
(* command files it has not consumed, takes them one after the other in    *)
(* the order of their names, and then moves its robot once; files may be   *)
(* written meanwhile.  The plane is a line here, and a frame's way one     *)
(* unit of it; MuJoCo's physics may keep the robot from moving.            *)
(***************************************************************************)
EXTENDS Integers, Sequences

CONSTANTS Window,     \* the kinds of window
          Path,       \* the routes that are sent, sequences of places
          StepCount,  \* step budgets of a route
          Threshold,  \* how near a target on the way must be to go for the next
          MaxCommands \* bound on the commands sent

VARIABLES window,
          pending,  \* command files not consumed, in the order of their names
          sent,     \* commands sent so far
          frame,    \* where the loop is: before a frame, or in one
          listed,   \* how many of the pending commands the frame has yet to take
          active_targets, active_target_index, active_remaining_steps,
          active_forward, \* does the active command have a velocity
          position,
          last,     \* history: the last command consumed
          passed    \* history: the places at which the targets of it were left

vars == <<window, pending, sent, frame, listed, active_targets, active_target_index,
          active_remaining_steps, active_forward, position, last, passed>>

Command == [command_type : {"run_path"}, path : Path, step_count : StepCount]
             \cup [command_type : {"stop", "safe_stand"}]
NoCommand == [command_type |-> "none"]

Init ==
  /\ window \in Window /\ pending = <<>> /\ sent = 0 /\ frame = "before" /\ listed = 0
  /\ active_targets = <<>> /\ active_target_index = 1 /\ active_remaining_steps = 0
  /\ active_forward = FALSE /\ position = 0 /\ last = NoCommand /\ passed = <<>>

-----------------------------------------------------------------------------
(* write_presentation_command                                              *)
Sends ==
  /\ sent < MaxCommands /\ sent' = sent + 1
  /\ \E c \in Command : pending' = Append(pending, c)
  /\ UNCHANGED <<window, frame, listed, active_targets, active_target_index,
                 active_remaining_steps, active_forward, position, last, passed>>

(* A frame begins with the list of the files there are.                    *)
Lists ==
  /\ frame = "before" /\ frame' = "in" /\ listed' = Len(pending)
  /\ UNCHANGED <<window, pending, sent, active_targets, active_target_index,
                 active_remaining_steps, active_forward, position, last, passed>>

(* What the robot follows: a state of the loop's local variables.          *)
Active == [targets |-> active_targets, index |-> active_target_index,
           remaining |-> active_remaining_steps, forward |-> active_forward, passed |-> passed]

(* A stop ends the route of the command after the frame. *)
TakesStopLate(a, c) ==
  IF c.command_type = "run_path"
    THEN [targets |-> c.path, index |-> 1, remaining |-> c.step_count, forward |-> TRUE,
          passed |-> <<>>]
    ELSE [a EXCEPT !.remaining = 1, !.forward = FALSE]

(* What a command makes of it.                                             *)
Takes(a, c) ==
  IF c.command_type = "run_path"
    THEN [targets |-> c.path, index |-> 1, remaining |-> c.step_count, forward |-> TRUE,
          passed |-> <<>>]
    ELSE [a EXCEPT !.targets = <<>>, !.remaining = 1, !.forward = FALSE]

Becomes(a) ==
  /\ active_targets' = a.targets /\ active_target_index' = a.index
  /\ active_remaining_steps' = a.remaining /\ active_forward' = a.forward /\ passed' = a.passed

TakesOne ==
  /\ frame = "in" /\ listed > 0 /\ listed' = listed - 1
  /\ pending' = Tail(pending) /\ last' = Head(pending) /\ Becomes(Takes(Active, Head(pending)))
  /\ UNCHANGED <<window, sent, frame, position>>

Abs(n) == IF n < 0 THEN -n ELSE n
Toward(p, target) == p + (IF target > p THEN 1 ELSE IF target < p THEN -1 ELSE 0)

(* The next target, when the one in hand is not the last and is near.      *)
GoesForNext(a) ==
  IF a.index < Len(a.targets) /\ Abs(a.targets[a.index] - position) <= Threshold
    THEN [a EXCEPT !.index = @ + 1, !.passed = Append(@, position)] ELSE a

Remains(a) == IF a.remaining > 0 THEN a.remaining - 1 ELSE 0

(* The viewer: it stays at its last target until its steps are used up,    *)
(* and without targets it walks straight on.                               *)
MujocoMoves(a) ==
  LET b == GoesForNext(a)
  IN IF a.targets # <<>>
       THEN {<<[b EXCEPT !.remaining = Remains(a)], p>> :
               p \in {position, Toward(position, b.targets[b.index])}}
       ELSE {<<[a EXCEPT !.remaining = Remains(a)], p>> :
               p \in {position, IF a.forward THEN position + 1 ELSE position}}

(* The controller: within a frame's way of a target it is put there, and   *)
(* at the last one the route is over; without targets it turns.            *)
WebotsMoves(a) ==
  LET b == GoesForNext(a)
      target == b.targets[b.index]
      arrived == IF b.index = Len(b.targets) THEN [b EXCEPT !.targets = <<>>, !.remaining = 0]
                 ELSE [b EXCEPT !.index = @ + 1, !.passed = Append(@, target),
                                !.remaining = Remains(a)]
  IN IF a.targets = <<>> THEN {<<[a EXCEPT !.remaining = Remains(a)], position>>}
     ELSE IF Abs(target - position) <= 1 THEN {<<arrived, target>>}
     ELSE {<<[b EXCEPT !.remaining = Remains(a)], Toward(position, target)>>}

Moves ==
  /\ frame = "in" /\ listed = 0 /\ frame' = "before"
  /\ \E next \in IF Active.remaining = 0 THEN {<<Active, position>>}
                 ELSE IF window = "mujoco" THEN MujocoMoves(Active) ELSE WebotsMoves(Active) :
       Becomes(next[1]) /\ position' = next[2]
  /\ UNCHANGED <<window, pending, sent, listed, last>>

Next == Sends \/ Lists \/ TakesOne \/ Moves

Spec == Init /\ [][Next]_vars

-----------------------------------------------------------------------------
(* PROPERTIES *)

(* Every variable has its type.                                            *)
TypeOK ==
  /\ window \in Window /\ pending \in Seq(Command) /\ sent \in 0..MaxCommands
  /\ frame \in {"before", "in"} /\ listed \in 0..Len(pending)
  /\ active_targets \in Path \cup {<<>>} /\ active_remaining_steps \in Nat
  /\ active_target_index \in Nat \ {0}
  /\ active_forward \in BOOLEAN /\ position \in Int /\ last \in Command \cup {NoCommand}

(* From the moment a stop is taken, the robot stands until another route   *)
(* is taken; a route is followed from its first target, each target on the *)
(* way was within reach when the next one was gone for, and none was left  *)
(* out.                                                                    *)
WindowObeys ==
  /\ [][last'.command_type # "run_path" => position' = position]_vars
  /\ [](last.command_type = "run_path" =>
         \A i \in DOMAIN passed : Abs(passed[i] - last.path[i]) <= Threshold)
  /\ [](last.command_type = "run_path" => active_target_index = Len(passed) + 1)
=============================================================================
