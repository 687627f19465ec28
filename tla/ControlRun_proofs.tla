------------------------- MODULE ControlRun_proofs -------------------------
(***************************************************************************)
(* One control run under any number of overrides: the statuses the threads *)
(* carry between a read and a write, and the commands on their way to the  *)
(* window, are part of each invariant.                                     *)
(***************************************************************************)
EXTENDS ControlRun, FiniteSetTheorems, NaturalsInduction, WellFoundedInduction, TLAPS

(* The first status comes with the handoff, and whoever is under way holds *)
(* one.                                                                    *)
StatusesHeld ==
  /\ control = NoStatus <=> handoff.pc = "off"
  /\ progress.pc # "off" => handoff.pc # "off"
  /\ progress.pc = "write" => progress.seen \in Status
  /\ handoff.pc = "save" => handoff.result \in Status
  /\ \A o \in Operator : operator[o].pc # "idle" => /\ operator[o].seen \in Status
                                                    /\ handoff.pc # "off"

(* A window is launched at most once, and a command file is named at most  *)
(* once by every override and once by the handoff.                         *)
NotPresented == handoff.pc \in {"off", "core", "present"}

At(pc) == {o \in Operator : operator[o].pc = pc}

Named == stamps + Cardinality(At("dispatch")) <= begun + (IF NotPresented THEN 0 ELSE 1)

(* A command that is about to be written has its name.                     *)
CommandsNamed ==
  /\ handoff.pc = "write" => handoff.stamp \in 1..stamps
  /\ \A o \in Operator : operator[o].pc = "write" => operator[o].stamp \in 1..stamps

TypeInv == TypeOK /\ StatusesHeld /\ Named /\ CommandsNamed /\ (NotPresented => window.dir = 0)

(* An arrival anyone has read is the one the handoff has saved; an         *)
(* estimate starts from a status without one.                              *)
Arrived == handoff.pc \in {"replay", "done"} /\ handoff.result.arrived

ArrivalsReported ==
  /\ progress.pc = "write" => progress.seen.state = "running" /\ ~progress.seen.arrived
  /\ handoff.pc = "save" /\ handoff.result.state = "succeeded" => handoff.result.arrived
  /\ \A o \in Operator : operator[o].pc # "idle" /\ operator[o].seen.arrived => Arrived

ArrivalInv == TypeInv /\ NoInventedArrival /\ ArrivalsReported

(* The path has one stamp, and a stop named after it was written a later   *)
(* one; such a stop is still in the directory, or nothing that could move  *)
(* the window is.                                                          *)
StopsLater ==
  /\ path_written => ~NotPresented /\ handoff.pc # "write"
  /\ stop_due => path_written
  /\ \A c \in pending : c.type = "run_path" => path_written /\ c.stamp = handoff.stamp
  /\ \A o \in Operator : operator[o].pc = "write" /\ operator[o].after
                           => path_written /\ operator[o].stamp > handoff.stamp
  /\ stop_due => \/ \E c \in pending : c.type = "stop" /\ c.stamp > handoff.stamp
                 \/ ~window.moving /\ \A c \in pending : c.type = "stop"

StopInv == TypeInv /\ StopsLater

(* The overrides saved are those audited and those about to be.            *)
Unaudited(c) == {o \in Operator : operator[o].pc = "audit" /\ operator[o].command = c}

AuditBehind ==
  \A c \in Override : Count(ordered, c) = Count(audit, c) + Cardinality(Unaudited(c))

AuditInv == TypeInv /\ AuditBehind

-----------------------------------------------------------------------------
OperatorState == [pc : {"idle", "dispatch", "write", "save", "audit"}, command : Override,
                  seen : Status \cup {NoStatus}, stamp : 0..stamps, dir : 0..1, after : BOOLEAN]

HandoffState ==
  [pc : {"off", "core", "present", "write", "simulate", "save", "replay", "done"},
   result : Status \cup {NoStatus}, replay : BOOLEAN, stamp : 0..stamps]

LEMMA FalseIsBoolean == {FALSE} \subseteq BOOLEAN
OBVIOUS

(* What the operations make of a status is a status.                       *)
LEMMA NoStatusIsNone == NoStatus \notin Status
BY DEF NoStatus, Status, RunState

LEMMA LoadedIsStatus ==
  ASSUME control \in Status
  PROVE  /\ Loaded \in Status
         /\ Loaded.state = control.state /\ Loaded.arrived = control.arrived
BY NoStatusIsNone DEF Loaded, Status

LEMMA EstimateIsStatus ==
  ASSUME NEW s \in Status, NEW i \in 0..StepCount
  PROVE  /\ Estimate(s, i) \in Status
         /\ Estimate(s, i).state = "running" /\ Estimate(s, i).arrived = s.arrived
BY ControlRunAssumption DEF Estimate, Status, RunState

LEMMA OverriddenIsStatus ==
  ASSUME NEW s \in Status, NEW c \in Override
  PROVE  /\ Overridden(s, c) \in Status
         /\ Overridden(s, c).state \in {"running", "paused"}
         /\ Overridden(s, c).arrived = s.arrived
BY DEF Overridden, Status, RunState

LEMMA ResultIsStatus ==
  ASSUME NEW outcome \in Outcome
  PROVE  /\ ResultOf(outcome) \in Status
         /\ ResultOf(outcome).state = "succeeded" => ResultOf(outcome).arrived
<1>1. /\ ResultOf(outcome).state \in {"succeeded", "running", "failed"}
      /\ ResultOf(outcome).state = "succeeded" <=> outcome = "arrived"
  BY DEF ResultOf, Outcome
<1>2. ResultOf(outcome).action \in {"safe_stand", "body_velocity", "stop"}
  BY DEF ResultOf, Outcome
<1>3. ResultOf(outcome).arrived = (outcome = "arrived") BY DEF ResultOf
<1>4. ResultOf(outcome).steps \in 0..StepCount BY ControlRunAssumption DEF ResultOf
<1>5. ResultOf(outcome) \in Status BY <1>1, <1>2, <1>4 DEF ResultOf, Status, RunState
<1>. QED BY <1>1, <1>3, <1>5

LEMMA FailedIsStatus ==
  ASSUME NEW s \in Status
  PROVE  /\ [s EXCEPT !.state = "failed", !.action = "stop", !.told = TRUE] \in Status
         /\ [s EXCEPT !.state = "failed", !.action = "stop", !.told = TRUE].state = "failed"
BY DEF Status, RunState

LEMMA AcceptedIsStatus == Accepted \in Status
BY ControlRunAssumption DEF Accepted, Status, RunState

LEMMA IdleIsOperator == ASSUME stamps \in Nat PROVE Idle \in OperatorState
BY DEF Idle, OperatorState, Override

-----------------------------------------------------------------------------
(* The threads at a step are finitely many; one that comes to the step     *)
(* makes them one more, one that leaves it one less.                       *)
LEMMA AtCount ==
  ASSUME NEW pc
  PROVE  IsFiniteSet(At(pc)) /\ Cardinality(At(pc)) \in Nat
<1>1. IsFiniteSet(At(pc)) BY ControlRunAssumption, FS_Subset, At(pc) \subseteq Operator DEF At
<1>. QED BY <1>1, FS_CardinalityType

LEMMA AtMoves ==
  ASSUME TypeOK, NEW o \in Operator, NEW q, operator' = [operator EXCEPT ![o] = q], NEW pc
  PROVE  Cardinality(At(pc))' =
           IF operator[o].pc = pc THEN IF q.pc = pc THEN Cardinality(At(pc))
                                                    ELSE Cardinality(At(pc)) - 1
                                  ELSE IF q.pc = pc THEN Cardinality(At(pc)) + 1
                                                    ELSE Cardinality(At(pc))
<1>1. o \in At(pc) <=> operator[o].pc = pc BY DEF At
<1>2. At(pc)' = IF q.pc = pc THEN At(pc) \cup {o} ELSE At(pc) \ {o} BY DEF TypeOK, At
<1>3. Cardinality(At(pc) \cup {o}) = IF o \in At(pc) THEN Cardinality(At(pc))
                                                     ELSE Cardinality(At(pc)) + 1
  BY AtCount, FS_AddElement
<1>4. Cardinality(At(pc) \ {o}) = IF o \in At(pc) THEN Cardinality(At(pc)) - 1
                                                  ELSE Cardinality(At(pc))
  BY AtCount, FS_RemoveElement
<1>. QED BY <1>1, <1>2, <1>3, <1>4

LEMMA AtStays == ASSUME UNCHANGED operator, NEW pc PROVE Cardinality(At(pc))' = Cardinality(At(pc))
BY DEF At

(* Nothing but Accept makes the first status.                              *)
LEMMA UnderWay ==
  ASSUME TypeInv
  PROVE  /\ handoff.pc # "off" => control \in Status
         /\ stamps \in Nat /\ begun \in Nat /\ MaxOverrides \in Nat
         /\ \A o \in Operator : operator[o] \in OperatorState
         /\ handoff \in HandoffState
BY ControlRunAssumption DEF TypeInv, TypeOK, StatusesHeld, OperatorState, HandoffState

-----------------------------------------------------------------------------
(* TYPES *)

LEMMA AcceptType == ASSUME TypeInv, Accept PROVE TypeInv'
<1>1. TypeOK'
  BY AcceptedIsStatus, ControlRunAssumption DEF TypeInv, TypeOK, Accept, shown
<1>2. StatusesHeld'
  BY AcceptedIsStatus, NoStatusIsNone DEF TypeInv, TypeOK, StatusesHeld, Accept
<1>3. Named' /\ (NotPresented => window.dir = 0)'
  <2>1. NotPresented /\ NotPresented' /\ UNCHANGED <<stamps, begun, window>>
    BY DEF TypeInv, TypeOK, Accept, NotPresented, shown
  <2>. QED BY <2>1, AtStays DEF TypeInv, Named, Accept
<1>4. CommandsNamed' BY DEF TypeInv, TypeOK, CommandsNamed, Accept, shown
<1>. QED BY <1>1, <1>2, <1>3, <1>4 DEF TypeInv

LEMMA ProgressType == ASSUME TypeInv, ProgressStep PROVE TypeInv'
<1>1. UNCHANGED <<handoff, operator, begun, replay, audit, ordered, shown>>
  BY DEF ProgressStep, ProgressRead, ProgressWrite, ProgressEnd
<1>2. progress.pc # "off" /\ progress'.pc # "off"
  <2>1. progress \in [pc : {"off", "sleep", "write", "done"}, index : 0..StepCount,
                      seen : Status \cup {NoStatus}]
    BY DEF TypeInv, TypeOK
  <2>2. CASE ProgressRead BY <2>1, <2>2 DEF ProgressRead
  <2>3. CASE ProgressWrite BY <2>1, <2>3 DEF ProgressWrite
  <2>4. CASE ProgressEnd BY <2>1, <2>4 DEF ProgressEnd
  <2>. QED BY <2>2, <2>3, <2>4 DEF ProgressStep
<1>3. control \in Status /\ Loaded \in Status /\ control # NoStatus
  BY <1>2, LoadedIsStatus, NoStatusIsNone DEF TypeInv, TypeOK, StatusesHeld
<1>4. /\ control' \in Status
      /\ progress' \in [pc : {"off", "sleep", "write", "done"}, index : 0..StepCount,
                        seen : Status \cup {NoStatus}]
      /\ progress'.pc = "write" => progress'.seen \in Status
  <2>1. CASE ProgressRead
    <3>1. /\ progress \in [pc : {"off", "sleep", "write", "done"}, index : 0..StepCount,
                           seen : Status \cup {NoStatus}]
          /\ StepCount \in Nat /\ progress.index < StepCount /\ UNCHANGED control
      BY <2>1, ControlRunAssumption DEF TypeInv, TypeOK, ProgressRead
    <3>2. progress.index + 1 \in 0..StepCount BY <3>1
    <3>3. \/ progress' = [progress EXCEPT !.pc = "done"]
          \/ progress' = [pc |-> "write", index |-> progress.index + 1, seen |-> Loaded]
      BY <2>1 DEF ProgressRead
    <3>. QED BY <1>3, <3>1, <3>2, <3>3
  <2>2. CASE ProgressWrite
    BY <2>2, EstimateIsStatus DEF TypeInv, TypeOK, StatusesHeld, ProgressWrite
  <2>3. CASE ProgressEnd BY <2>3, <1>3 DEF TypeInv, TypeOK, ProgressEnd
  <2>. QED BY <2>1, <2>2, <2>3 DEF ProgressStep
<1>5. TypeOK' BY <1>1, <1>4 DEF TypeInv, TypeOK, shown
<1>6. StatusesHeld' BY <1>1, <1>2, <1>4, <1>3, NoStatusIsNone DEF TypeInv, StatusesHeld
<1>7. Named' /\ (NotPresented => window.dir = 0)'
  BY <1>1, AtStays DEF TypeInv, Named, NotPresented, shown
<1>8. CommandsNamed' BY <1>1 DEF TypeInv, CommandsNamed, shown
<1>. QED BY <1>5, <1>6, <1>7, <1>8 DEF TypeInv

LEMMA WindowType == ASSUME TypeInv, WindowStep PROVE TypeInv'
<1>1. UNCHANGED <<control, progress, handoff, operator, begun, replay, audit, ordered,
                  stamps, path_written, stop_due>> /\ window'.dir = window.dir
  BY DEF TypeInv, TypeOK, WindowStep, WindowConsumes, WindowFinishesPath, WindowCloses
<1>2. window' \in [open : BOOLEAN, moving : BOOLEAN, dir : 0..1] /\ pending' \subseteq pending
  BY DEF TypeInv, TypeOK, WindowStep, WindowConsumes, WindowFinishesPath, WindowCloses
<1>3. TypeOK' BY <1>1, <1>2 DEF TypeInv, TypeOK
<1>4. StatusesHeld' BY <1>1 DEF TypeInv, StatusesHeld
<1>5. Named' /\ (NotPresented => window.dir = 0)'
  BY <1>1, AtStays DEF TypeInv, Named, NotPresented
<1>6. CommandsNamed' BY <1>1 DEF TypeInv, CommandsNamed
<1>. QED BY <1>3, <1>4, <1>5, <1>6 DEF TypeInv

(* A step of the handoff that names no command and launches no window.     *)
LEMMA HandoffQuietType ==
  ASSUME TypeInv, UNCHANGED <<progress, operator, begun, audit, ordered, window, stamps,
                              stop_due>>,
         control' \in Status, replay' \in BOOLEAN, path_written' \in BOOLEAN,
         handoff' \in HandoffState, handoff.pc # "off", handoff'.pc # "off",
         handoff'.pc = "save" => handoff'.result \in Status,
         NotPresented' => NotPresented, handoff'.pc # "write",
         pending' \subseteq [type : {"run_path", "stop"}, stamp : 1..stamps]
  PROVE  TypeInv'
<1>1. TypeOK' BY DEF TypeInv, TypeOK, HandoffState
<1>2. StatusesHeld' BY NoStatusIsNone DEF TypeInv, StatusesHeld
<1>3. Named'
  <2>1. Cardinality(At("dispatch")) \in Nat BY AtCount
  <2>. QED BY <2>1, AtStays, UnderWay DEF TypeInv, Named
<1>4. CommandsNamed' BY DEF TypeInv, CommandsNamed
<1>. QED BY <1>1, <1>2, <1>3, <1>4 DEF TypeInv

LEMMA HandoffType == ASSUME TypeInv, HandoffStep PROVE TypeInv'
<1>1. handoff.pc # "off" /\ control \in Status /\ Loaded \in Status /\ handoff \in HandoffState
  <2>1. handoff.pc # "off"
    BY DEF HandoffStep, HandoffCore, HandoffPresents, HandoffWritesPath, HandoffSimulates,
           HandoffRaises, HandoffSaves, HandoffSavesReplay
  <2>. QED BY <2>1, UnderWay, LoadedIsStatus
<1>2. CASE HandoffCore
  <2>1. handoff' \in HandoffState /\ handoff'.pc = "present" /\ NotPresented
    BY <1>1, <1>2 DEF HandoffCore, HandoffState, NotPresented, shown
  <2>. QED BY <1>1, <1>2, <2>1, HandoffQuietType DEF HandoffCore, TypeInv, TypeOK, shown
<1>3. CASE HandoffPresents
  <2>1. CASE UNCHANGED shown /\ handoff' = [handoff EXCEPT !.pc = "simulate"]
    <3>1. handoff' \in HandoffState /\ handoff'.pc = "simulate"
      BY <1>1, <2>1 DEF HandoffState, shown
    <3>. QED BY <1>1, <1>3, <2>1, <3>1, HandoffQuietType
             DEF HandoffPresents, TypeInv, TypeOK, shown, NotPresented
  <2>2. CASE /\ Stamp /\ handoff' = [handoff EXCEPT !.pc = "write", !.stamp = stamps + 1]
             /\ \/ window.open /\ UNCHANGED <<window, pending>>
                \/ /\ window' = [open |-> TRUE, moving |-> FALSE, dir |-> window.dir + 1]
                   /\ pending' = {}
             /\ UNCHANGED <<path_written, stop_due>>
    <3>1. stamps' = stamps + 1 /\ stamps \in Nat /\ NotPresented /\ ~NotPresented'
      BY <1>1, <1>3, <2>2, UnderWay DEF Stamp, HandoffState, NotPresented, HandoffPresents
    <3>2. handoff' \in HandoffState' /\ handoff'.stamp = stamps'
      <4>1. handoff' = [handoff EXCEPT !.pc = "write", !.stamp = stamps + 1] BY <2>2
      <4>2. handoff'.stamp = stamps' /\ handoff'.stamp \in 0..stamps'
        BY <1>1, <4>1, <3>1 DEF HandoffState
      <4>3. handoff' \in [pc : {"write"}, result : {handoff.result}, replay : {handoff.replay},
                          stamp : {stamps'}]
        BY <1>1, <4>1, <3>1 DEF HandoffState
      <4>. QED BY <1>1, <4>2, <4>3 DEF HandoffState
    <3>3. operator' \in [Operator -> OperatorState']
      BY <1>3, <3>1 DEF TypeInv, TypeOK, OperatorState, HandoffPresents
    <3>4. /\ window' \in [open : BOOLEAN, moving : BOOLEAN, dir : 0..1]
          /\ pending' \subseteq [type : {"run_path", "stop"}, stamp : 1..stamps']
      <4>1. /\ window \in [open : BOOLEAN, moving : BOOLEAN, dir : 0..1] /\ window.dir = 0
            /\ pending \subseteq [type : {"run_path", "stop"}, stamp : 1..stamps]
        BY <3>1 DEF TypeInv, TypeOK
      <4>2. 1..stamps \subseteq 1..stamps' BY <3>1
      <4>3. CASE UNCHANGED <<window, pending>> BY <4>1, <4>2, <4>3
      <4>4. CASE /\ window' = [open |-> TRUE, moving |-> FALSE, dir |-> window.dir + 1]
                 /\ pending' = {}
        BY <4>1, <4>4
      <4>. QED BY <2>2, <4>3, <4>4
    <3>5. Named'
      <4>1. Cardinality(At("dispatch")) \in Nat BY AtCount
      <4>. QED BY <4>1, <1>3, <3>1, AtStays, UnderWay DEF TypeInv, Named, HandoffPresents
    <3>6. stamps' \in 0..(MaxOverrides + 1)
      <4>1. Cardinality(At("dispatch")) \in Nat BY AtCount
      <4>. QED BY <4>1, <3>1, UnderWay DEF TypeInv, TypeOK, Named
    <3>7. TypeOK'
      BY <1>3, <2>2, <3>2, <3>3, <3>4, <3>6
      DEF TypeInv, TypeOK, HandoffState, OperatorState, HandoffPresents
    <3>8. StatusesHeld'
      BY <1>1, <1>3, <2>2 DEF TypeInv, StatusesHeld, HandoffPresents, HandoffState
    <3>9. CommandsNamed'
      BY <1>3, <3>1, <3>2 DEF TypeInv, TypeOK, CommandsNamed, HandoffPresents, OperatorState
    <3>. QED BY <3>1, <3>5, <3>7, <3>8, <3>9 DEF TypeInv
  <2>. QED BY <1>3, <2>1, <2>2 DEF HandoffPresents
<1>4. CASE HandoffWritesPath
  <2>1. handoff' \in HandoffState /\ handoff'.pc = "simulate"
    BY <1>1, <1>4 DEF HandoffWritesPath, HandoffState
  <2>2. pending' \subseteq [type : {"run_path", "stop"}, stamp : 1..stamps]
    BY <1>1, <1>4 DEF TypeInv, TypeOK, CommandsNamed, HandoffWritesPath, HandoffState
  <2>. QED BY <1>1, <1>4, <2>1, <2>2, HandoffQuietType
           DEF HandoffWritesPath, TypeInv, TypeOK, NotPresented
<1>5. CASE HandoffSimulates
  <2>1. handoff' \in HandoffState /\ handoff'.pc = "save" /\ handoff'.result \in Status
    <3>1. PICK outcome \in Outcome :
            handoff' = [handoff EXCEPT !.pc = "save", !.result = ResultOf(outcome),
                                       !.replay = outcome # "error"]
      BY <1>5 DEF HandoffSimulates
    <3>2. ResultOf(outcome) \in Status /\ (outcome # "error") \in BOOLEAN BY ResultIsStatus
    <3>3. UNCHANGED stamps BY <1>5 DEF HandoffSimulates, shown
    <3>. QED BY <1>1, <3>1, <3>2, <3>3 DEF HandoffState
  <2>. QED BY <1>1, <1>5, <2>1, HandoffQuietType
           DEF HandoffSimulates, TypeInv, TypeOK, NotPresented, shown
<1>6. CASE HandoffRaises
  <2>. DEFINE failed == [Loaded EXCEPT !.state = "failed", !.action = "stop", !.told = TRUE]
  <2>0. failed \in Status BY <1>1, FailedIsStatus
  <2>1. handoff' \in HandoffState /\ handoff'.pc = "save" /\ handoff'.result \in Status
    <3>1. handoff' = [handoff EXCEPT !.pc = "save", !.replay = FALSE, !.result = failed]
      BY <1>6 DEF HandoffRaises
    <3>2. UNCHANGED stamps BY <1>6 DEF HandoffRaises, shown
    <3>. HIDE DEF failed
    <3>. QED BY <1>1, <2>0, <3>1, <3>2 DEF HandoffState
  <2>. QED BY <1>1, <1>6, <2>1, HandoffQuietType
           DEF HandoffRaises, TypeInv, TypeOK, NotPresented, shown
<1>7. CASE HandoffSaves
  <2>1. handoff' \in HandoffState /\ handoff'.pc \in {"replay", "done"} /\ control' \in Status
    BY <1>1, <1>7 DEF HandoffSaves, HandoffState, TypeInv, StatusesHeld, shown
  <2>. QED BY <1>1, <1>7, <2>1, HandoffQuietType
           DEF HandoffSaves, TypeInv, TypeOK, NotPresented, shown
<1>8. CASE HandoffSavesReplay
  <2>1. handoff' \in HandoffState /\ handoff'.pc = "done"
    BY <1>1, <1>8 DEF HandoffSavesReplay, HandoffState, shown
  <2>. QED BY <1>1, <1>8, <2>1, HandoffQuietType
           DEF HandoffSavesReplay, TypeInv, TypeOK, NotPresented, shown
<1>. QED BY <1>2, <1>3, <1>4, <1>5, <1>6, <1>7, <1>8 DEF HandoffStep

(* A name is taken by an override in its dispatch and by no other step.     *)
LEMMA OverrideNamed ==
  ASSUME TypeInv, NEW o \in Operator, NEW q, UNCHANGED <<progress, handoff>>,
         operator' = [operator EXCEPT ![o] = q],
         begun' \in Nat, begun' >= begun, stamps' \in Nat, stamps' <= stamps + 1,
         \/ /\ q.pc = "dispatch" /\ operator[o].pc # "dispatch" /\ begun' = begun + 1
            /\ UNCHANGED stamps
         \/ q.pc # "dispatch" /\ (stamps' = stamps \/ operator[o].pc = "dispatch")
  PROVE  Named'
<1>. DEFINE before == Cardinality(At("dispatch"))
            after == Cardinality(At("dispatch"))'
            handed == IF NotPresented THEN 0 ELSE 1
<1>1. before \in Nat /\ after \in Nat /\ handed \in Nat
  <2>1. IsFiniteSet(At("dispatch")') /\ IsFiniteSet(At("dispatch"))
    BY ControlRunAssumption, FS_Subset, At("dispatch") \subseteq Operator,
       At("dispatch")' \subseteq Operator DEF At
  <2>. QED BY <2>1, FS_CardinalityType
<1>2. after = IF operator[o].pc = "dispatch"
                THEN IF q.pc = "dispatch" THEN before ELSE before - 1
                ELSE IF q.pc = "dispatch" THEN before + 1 ELSE before
  <2>1. TypeOK BY DEF TypeInv
  <2>. QED BY <2>1, AtMoves
<1>3. /\ stamps \in Nat /\ begun \in Nat /\ stamps + before <= begun + handed
      /\ (NotPresented' <=> NotPresented)
  BY UnderWay DEF TypeInv, Named, NotPresented
<1>. HIDE DEF before, after, handed
<1>. DEFINE names == stamps  namesAfter == stamps'  grants == begun  grantsAfter == begun'
<1>4. /\ names \in Nat /\ namesAfter \in Nat /\ grants \in Nat /\ grantsAfter \in Nat
      /\ names + before <= grants + handed
      /\ \/ after = before + 1 /\ grantsAfter = grants + 1 /\ namesAfter = names
         \/ after = before - 1 /\ grantsAfter >= grants /\ namesAfter <= names + 1
         \/ after = before /\ grantsAfter >= grants /\ namesAfter = names
  BY <1>2, <1>3
<1>. HIDE DEF names, namesAfter, grants, grantsAfter
<1>5. namesAfter + after <= grantsAfter + handed BY <1>1, <1>4
<1>. QED BY <1>3, <1>5 DEF Named, after, handed, namesAfter, grantsAfter

(* A step of one override: what it does to the operator's record q, which  *)
(* may be stamped, and to what the override saves.                         *)
LEMMA OverrideType ==
  ASSUME TypeInv, NEW o \in Operator, NEW q,
         UNCHANGED <<progress, handoff, replay, window, path_written>>,
         operator' = [operator EXCEPT ![o] = q], q \in OperatorState', handoff.pc # "off",
         q.pc # "idle" => q.seen \in Status,
         q.pc = "write" => q.stamp \in 1..stamps',
         stop_due' \in BOOLEAN, control' \in Status, begun' \in begun..MaxOverrides,
         stamps' \in stamps..(stamps + 1), audit' \in Seq(Override), ordered' \in Seq(Override),
         pending' \subseteq [type : {"run_path", "stop"}, stamp : 1..stamps'],
         \/ /\ q.pc = "dispatch" /\ operator[o].pc # "dispatch" /\ begun' = begun + 1
            /\ UNCHANGED stamps
         \/ q.pc # "dispatch" /\ (stamps' = stamps \/ operator[o].pc = "dispatch")
  PROVE  TypeInv'
<1>1. /\ stamps \in Nat /\ stamps' \in Nat /\ stamps' >= stamps /\ begun' \in 0..MaxOverrides
      /\ begun' >= begun
  BY UnderWay DEF TypeInv, TypeOK
<1>2. Cardinality(At("dispatch"))' \in Nat
  <2>1. IsFiniteSet(At("dispatch")')
    BY ControlRunAssumption, FS_Subset, At("dispatch")' \subseteq Operator DEF At
  <2>. QED BY <2>1, FS_CardinalityType
<1>4. Named'
  <2>1. begun' \in Nat /\ begun' >= begun /\ stamps' \in Nat /\ stamps' <= stamps + 1
    BY <1>1, UnderWay
  <2>2. UNCHANGED <<progress, handoff>> OBVIOUS
  <2>. QED BY <2>1, <2>2, OverrideNamed
<1>5. stamps' \in 0..(MaxOverrides + 1) BY <1>1, <1>2, <1>4, UnderWay DEF Named
<1>6. operator' \in [Operator -> OperatorState']
  <2>1. OperatorState \subseteq OperatorState' BY <1>1 DEF OperatorState
  <2>2. operator \in [Operator -> OperatorState] BY DEF TypeInv, TypeOK, OperatorState
  <2>. QED BY <2>1, <2>2
<1>7. handoff' \in HandoffState' BY <1>1 DEF TypeInv, TypeOK, HandoffState
<1>8. TypeOK'
  <2>1. /\ control' \in Status \cup {NoStatus} /\ begun' \in 0..MaxOverrides
        /\ stamps' \in 0..(MaxOverrides + 1)
        /\ pending' \subseteq [type : {"run_path", "stop"}, stamp : 1..stamps']
    BY <1>1, <1>5
  <2>. QED BY <2>1, <1>6, <1>7 DEF TypeInv, TypeOK, OperatorState, HandoffState
<1>9. \A p \in Operator : operator'[p] = IF p = o THEN q ELSE operator[p]
  BY DEF TypeInv, TypeOK
<1>10. StatusesHeld' BY <1>9, NoStatusIsNone DEF TypeInv, StatusesHeld
<1>11. CommandsNamed' BY <1>1, <1>9 DEF TypeInv, CommandsNamed
<1>. QED BY <1>4, <1>8, <1>10, <1>11 DEF TypeInv, NotPresented

LEMMA OverrideBeginsType ==
  ASSUME TypeInv, NEW o \in Operator, OverrideBegins(o) PROVE TypeInv'
<1>1. PICK c \in Command :
        operator' = [operator EXCEPT ![o] = [Idle EXCEPT !.pc = "dispatch", !.command = c,
                                                        !.seen = Loaded]]
  BY DEF OverrideBegins
<1>. DEFINE q == [Idle EXCEPT !.pc = "dispatch", !.command = c, !.seen = Loaded]
<1>2. control \in Status /\ Loaded \in Status /\ handoff.pc # "off"
  BY UnderWay, LoadedIsStatus DEF OverrideBegins, TypeInv, StatusesHeld
<1>3. q \in OperatorState' /\ q.pc = "dispatch" /\ q.seen \in Status
  <2>1. stamps' = stamps /\ stamps \in Nat /\ c \in Override
    BY UnderWay, ControlRunAssumption DEF OverrideBegins, shown
  <2>2. Idle \in OperatorState' /\ Idle.stamp = 0
    BY <2>1 DEF Idle, OperatorState, Override
  <2>. QED BY <1>2, <2>1, <2>2 DEF OperatorState
<1>4. begun' = begun + 1 /\ begun' \in begun..MaxOverrides
  BY UnderWay DEF OverrideBegins, TypeInv, TypeOK
<1>6. operator' = [operator EXCEPT ![o] = q] BY <1>1
<1>. HIDE DEF q
<1>5. /\ UNCHANGED <<progress, handoff, replay, window, path_written>>
      /\ stop_due' \in BOOLEAN /\ begun' \in begun..MaxOverrides
      /\ stamps' \in stamps..(stamps + 1) /\ control' \in Status
      /\ audit' \in Seq(Override) /\ ordered' \in Seq(Override)
      /\ UNCHANGED stamps /\ operator[o].pc # "dispatch"
      /\ pending' \subseteq [type : {"run_path", "stop"}, stamp : 1..stamps']
  BY <1>2, <1>4, UnderWay DEF OverrideBegins, TypeInv, TypeOK, shown
<1>. QED BY <1>2, <1>3, <1>4, <1>5, <1>6, OverrideType

LEMMA OverrideDispatchesType ==
  ASSUME TypeInv, NEW o \in Operator, OverrideDispatches(o) PROVE TypeInv'
<1>1. /\ operator[o] \in OperatorState /\ operator[o].pc = "dispatch" /\ handoff.pc # "off"
      /\ operator[o].seen \in Status /\ control \in Status /\ stamps \in Nat
      /\ window.dir \in 0..1 /\ path_written \in BOOLEAN
  BY UnderWay DEF OverrideDispatches, TypeInv, TypeOK, StatusesHeld
<1>2. CASE operator[o].command # "resume" /\ window.open
  <2>. DEFINE q == [operator[o] EXCEPT !.pc = "write", !.stamp = stamps + 1,
                                      !.dir = window.dir, !.after = path_written]
  <2>1. operator' = [operator EXCEPT ![o] = q] /\ stamps' = stamps + 1
    BY <1>2 DEF OverrideDispatches, Stamp, TypeInv, TypeOK
  <2>2. q \in OperatorState' /\ q.pc = "write" /\ q.seen \in Status /\ q.stamp = stamps'
    <3>1. q \in [pc : {"write"}, command : Override, seen : {operator[o].seen},
                 stamp : {stamps'}, dir : {window.dir}, after : {path_written}]
      BY <1>1, <2>1 DEF OperatorState
    <3>. HIDE DEF q
    <3>2. stamps' \in 0..stamps' BY <1>1, <2>1
    <3>. QED BY <1>1, <3>1, <3>2 DEF OperatorState
  <2>. HIDE DEF q
  <2>3. /\ UNCHANGED <<progress, handoff, replay, window, path_written>>
        /\ stop_due' \in BOOLEAN /\ begun' \in begun..MaxOverrides
        /\ stamps' \in stamps..(stamps + 1) /\ control' \in Status
        /\ audit' \in Seq(Override) /\ ordered' \in Seq(Override)
        /\ pending' \subseteq [type : {"run_path", "stop"}, stamp : 1..stamps']
    BY <1>1, <2>1, UnderWay DEF OverrideDispatches, TypeInv, TypeOK
  <2>4. q.pc # "dispatch" /\ q.stamp \in 1..stamps' BY <1>1, <2>1, <2>2
  <2>. QED BY <1>1, <2>1, <2>2, <2>3, <2>4, OverrideType
<1>3. CASE ~(operator[o].command # "resume" /\ window.open)
  <2>. DEFINE q == [operator[o] EXCEPT !.pc = "save"]
  <2>1. operator' = [operator EXCEPT ![o] = q] /\ stamps' = stamps
    BY <1>3 DEF OverrideDispatches, TypeInv, TypeOK
  <2>2. q \in OperatorState' /\ q.pc = "save" /\ q.seen \in Status
    BY <1>1, <2>1 DEF OperatorState
  <2>. HIDE DEF q
  <2>3. /\ UNCHANGED <<progress, handoff, replay, window, path_written>>
        /\ stop_due' \in BOOLEAN /\ begun' \in begun..MaxOverrides
        /\ stamps' \in stamps..(stamps + 1) /\ control' \in Status
        /\ audit' \in Seq(Override) /\ ordered' \in Seq(Override)
        /\ pending' \subseteq [type : {"run_path", "stop"}, stamp : 1..stamps']
    BY <1>1, <2>1, UnderWay DEF OverrideDispatches, TypeInv, TypeOK
  <2>4. q.pc # "dispatch" /\ q.pc # "write" /\ UNCHANGED stamps BY <2>1, <2>2
  <2>. QED BY <1>1, <2>1, <2>2, <2>3, <2>4, OverrideType
<1>. QED BY <1>2, <1>3

LEMMA OverrideWritesType ==
  ASSUME TypeInv, NEW o \in Operator, OverrideWrites(o) PROVE TypeInv'
<1>. DEFINE q == [operator[o] EXCEPT !.pc = "save"]
<1>1. /\ operator[o] \in OperatorState /\ operator[o].pc = "write" /\ handoff.pc # "off"
      /\ operator[o].seen \in Status /\ control \in Status /\ stamps \in Nat
      /\ operator[o].stamp \in 1..stamps /\ operator[o].after \in BOOLEAN
  BY UnderWay DEF OverrideWrites, TypeInv, StatusesHeld, CommandsNamed, OperatorState
<1>2. operator' = [operator EXCEPT ![o] = q] /\ stamps' = stamps
  BY DEF OverrideWrites, TypeInv, TypeOK
<1>3. q \in OperatorState' /\ q.pc = "save" /\ q.seen \in Status
  BY <1>1, <1>2 DEF OperatorState
<1>4. /\ pending' \subseteq [type : {"run_path", "stop"}, stamp : 1..stamps']
      /\ stop_due' \in BOOLEAN
  BY <1>1, <1>2 DEF OverrideWrites, TypeInv, TypeOK
<1>. HIDE DEF q
<1>5. /\ UNCHANGED <<progress, handoff, replay, window, path_written>>
      /\ stop_due' \in BOOLEAN /\ begun' \in begun..MaxOverrides
      /\ stamps' \in stamps..(stamps + 1) /\ control' \in Status
      /\ audit' \in Seq(Override) /\ ordered' \in Seq(Override)
  BY <1>1, <1>2, <1>4, UnderWay DEF OverrideWrites, TypeInv, TypeOK
<1>. QED BY <1>1, <1>2, <1>3, <1>4, <1>5, OverrideType

LEMMA OverrideSavesType ==
  ASSUME TypeInv, NEW o \in Operator, OverrideSaves(o) PROVE TypeInv'
<1>. DEFINE q == [operator[o] EXCEPT !.pc = "audit"]
<1>1. /\ operator[o] \in OperatorState /\ operator[o].pc = "save" /\ handoff.pc # "off"
      /\ operator[o].seen \in Status /\ operator[o].command \in Override /\ stamps \in Nat
  BY UnderWay DEF OverrideSaves, TypeInv, StatusesHeld, OperatorState
<1>2. operator' = [operator EXCEPT ![o] = q] /\ stamps' = stamps
  BY DEF OverrideSaves, TypeInv, TypeOK, shown
<1>3. q \in OperatorState' /\ q.pc = "audit" /\ q.seen \in Status
  BY <1>1, <1>2 DEF OperatorState
<1>4. control' \in Status /\ ordered' \in Seq(Override)
  BY <1>1, OverriddenIsStatus DEF OverrideSaves, TypeInv, TypeOK
<1>. HIDE DEF q
<1>5. /\ UNCHANGED <<progress, handoff, replay, window, path_written>>
      /\ stop_due' \in BOOLEAN /\ begun' \in begun..MaxOverrides
      /\ stamps' \in stamps..(stamps + 1) /\ control' \in Status
      /\ audit' \in Seq(Override) /\ ordered' \in Seq(Override)
      /\ pending' \subseteq [type : {"run_path", "stop"}, stamp : 1..stamps']
  BY <1>1, <1>2, <1>4, UnderWay DEF OverrideSaves, TypeInv, TypeOK, shown
<1>. QED BY <1>1, <1>2, <1>3, <1>4, <1>5, OverrideType

LEMMA OverrideAuditsType ==
  ASSUME TypeInv, NEW o \in Operator, OverrideAudits(o) PROVE TypeInv'
<1>1. /\ operator[o] \in OperatorState /\ operator[o].pc = "audit" /\ handoff.pc # "off"
      /\ operator[o].command \in Override /\ stamps \in Nat /\ control \in Status
  BY UnderWay DEF OverrideAudits, TypeInv, StatusesHeld, OperatorState
<1>2. Idle \in OperatorState' /\ Idle.pc = "idle"
  BY <1>1 DEF OverrideAudits, shown, Idle, OperatorState, Override
<1>3. audit' \in Seq(Override) BY <1>1 DEF OverrideAudits, TypeInv, TypeOK
<1>4. /\ UNCHANGED <<progress, handoff, replay, window, path_written>>
      /\ stop_due' \in BOOLEAN /\ begun' \in begun..MaxOverrides
      /\ stamps' \in stamps..(stamps + 1) /\ control' \in Status
      /\ audit' \in Seq(Override) /\ ordered' \in Seq(Override)
      /\ pending' \subseteq [type : {"run_path", "stop"}, stamp : 1..stamps']
      /\ operator' = [operator EXCEPT ![o] = Idle] /\ UNCHANGED stamps
  BY <1>1, <1>3, UnderWay DEF OverrideAudits, TypeInv, TypeOK, shown
<1>. QED BY <1>1, <1>2, <1>3, <1>4, OverrideType

LEMMA TypeStep == ASSUME TypeInv, [Next]_vars PROVE TypeInv'
<1>1. CASE Next
  <2>1. ASSUME NEW o \in Operator, OverrideBegins(o) \/ OverrideContinues(o) PROVE TypeInv'
    BY <2>1, OverrideBeginsType, OverrideDispatchesType, OverrideWritesType,
       OverrideSavesType, OverrideAuditsType DEF OverrideContinues
  <2>. QED BY <1>1, <2>1, AcceptType, ProgressType, HandoffType, WindowType DEF Next
<1>2. CASE UNCHANGED vars
  <2>1. TypeOK' BY <1>2 DEF TypeInv, TypeOK, vars, shown
  <2>2. StatusesHeld' /\ CommandsNamed'
    BY <1>2 DEF TypeInv, StatusesHeld, CommandsNamed, vars, shown
  <2>3. Named' /\ (NotPresented => window.dir = 0)'
    BY <1>2, AtStays DEF TypeInv, Named, NotPresented, vars, shown
  <2>. QED BY <2>1, <2>2, <2>3 DEF TypeInv
<1>. QED BY <1>1, <1>2

LEMMA InitType == Init => TypeInv
<1>. SUFFICES ASSUME Init PROVE TypeInv OBVIOUS
<1>1. TypeOK
  <2>1. stamps = 0 /\ StepCount \in Nat /\ MaxOverrides \in Nat
    BY ControlRunAssumption DEF Init
  <2>2. operator \in [Operator -> OperatorState] BY <2>1, IdleIsOperator DEF Init
  <2>3. audit \in Seq(Override) /\ ordered \in Seq(Override) BY DEF Init
  <2>4. window \in [open : BOOLEAN, moving : BOOLEAN, dir : 0..1]
    <3>1. {0} \subseteq 0..1 OBVIOUS
    <3>. QED BY <3>1, FalseIsBoolean DEF Init
  <2>5. handoff \in HandoffState BY <2>1 DEF Init, HandoffState
  <2>6. /\ progress \in [pc : {"off", "sleep", "write", "done"}, index : 0..StepCount,
                         seen : Status \cup {NoStatus}]
        /\ begun \in 0..MaxOverrides /\ stamps \in 0..(MaxOverrides + 1)
    BY <2>1 DEF Init
  <2>. QED BY <2>2, <2>3, <2>4, <2>5, <2>6 DEF Init, TypeOK, OperatorState, HandoffState
<1>2. StatusesHeld /\ CommandsNamed BY DEF Init, StatusesHeld, CommandsNamed, Idle
<1>3. At("dispatch") = {} BY DEF Init, At, Idle
<1>4. Named /\ window.dir = 0
  <2>1. /\ stamps = 0 /\ begun = 0 /\ handoff.pc = "off" /\ window.dir = 0
    BY DEF Init
  <2>2. Cardinality(At("dispatch")) = 0 BY <1>3, FS_EmptySet
  <2>. QED BY <2>1, <2>2 DEF Named, NotPresented
<1>. QED BY <1>1, <1>2, <1>4 DEF TypeInv

(* Types hold whatever overlaps: a run that has been accepted always has a *)
(* status, a window directory is used by one run, and no override writes a *)
(* command without a name of its own.                                      *)
THEOREM TypeInvariant == Spec => []TypeInv
BY InitType, TypeStep, PTL DEF Spec

(* Every variable has its type.                                            *)
THEOREM TypeCorrect == Spec => []TypeOK
BY TypeInvariant, PTL DEF TypeInv

-----------------------------------------------------------------------------
(* NO INVENTED ARRIVAL *)

(* What an override changes in the operator's record.                      *)
LEMMA OverrideMoves ==
  ASSUME TypeInv, NEW o \in Operator, OverrideContinues(o)
  PROVE  /\ UNCHANGED <<progress, handoff, replay, window, path_written>>
         /\ \A p \in Operator : p # o => operator'[p] = operator[p]
         /\ operator[o].pc # "idle" /\ operator[o] \in OperatorState
         /\ operator'[o].pc # "idle" => operator'[o].seen = operator[o].seen
<1>1. operator \in [Operator -> OperatorState] BY DEF TypeInv, TypeOK, OperatorState
<1>2. CASE OverrideDispatches(o) BY <1>1, <1>2 DEF OverrideDispatches, OperatorState
<1>3. CASE OverrideWrites(o) BY <1>1, <1>3 DEF OverrideWrites, OperatorState
<1>4. CASE OverrideSaves(o) BY <1>1, <1>4 DEF OverrideSaves, OperatorState, shown
<1>5. CASE OverrideAudits(o) BY <1>1, <1>5 DEF OverrideAudits, OperatorState, Idle, shown
<1>. QED BY <1>2, <1>3, <1>4, <1>5 DEF OverrideContinues

(* What the handoff has reported, it reports for good.                     *)
LEMMA HandoffKeepsArrival ==
  ASSUME TypeInv, HandoffStep, Arrived PROVE Arrived'
<1>1. handoff \in HandoffState /\ handoff.pc \in {"replay", "done"} BY UnderWay DEF Arrived
<1>2. HandoffSavesReplay
  BY <1>1 DEF HandoffStep, HandoffCore, HandoffPresents, HandoffWritesPath, HandoffSimulates,
              HandoffRaises, HandoffSaves
<1>. QED BY <1>1, <1>2 DEF HandoffSavesReplay, Arrived, HandoffState

LEMMA AcceptArrival == ASSUME ArrivalInv, Accept PROVE NoInventedArrival' /\ ArrivalsReported'
<1>1. /\ handoff.pc = "off" /\ handoff' = [handoff EXCEPT !.pc = "core"] /\ UNCHANGED operator
      /\ control' = Accepted /\ progress'.pc \in {"sleep", "done"} /\ handoff \in HandoffState
  BY UnderWay DEF ArrivalInv, Accept, TypeInv, TypeOK
<1>2. NoInventedArrival' BY <1>1 DEF NoInventedArrival, Accepted
<1>3. ArrivalsReported' BY <1>1 DEF ArrivalInv, TypeInv, StatusesHeld, ArrivalsReported, HandoffState
<1>. QED BY <1>2, <1>3

LEMMA ProgressArrival ==
  ASSUME ArrivalInv, ProgressStep PROVE NoInventedArrival' /\ ArrivalsReported'
<1>1. UNCHANGED <<handoff, operator>> /\ (Arrived' <=> Arrived)
  BY DEF ProgressStep, ProgressRead, ProgressWrite, ProgressEnd, Arrived
<1>2. CASE ProgressRead
  <2>1. UNCHANGED control BY <1>2 DEF ProgressRead
  <2>2. progress'.pc = "write" => progress'.seen.state = "running" /\ ~progress'.seen.arrived
    BY <1>2 DEF ProgressRead, is_authoritative, ArrivalInv, TypeInv, TypeOK
  <2>. QED BY <1>1, <2>1, <2>2 DEF ArrivalInv, NoInventedArrival, ArrivalsReported
<1>3. CASE ProgressWrite
  <2>1. control'.state = "running" /\ ~control'.arrived /\ progress'.pc = "sleep"
    BY <1>3, EstimateIsStatus
       DEF ProgressWrite, ArrivalInv, TypeInv, TypeOK, StatusesHeld, ArrivalsReported
  <2>. QED BY <1>1, <2>1 DEF ArrivalInv, NoInventedArrival, ArrivalsReported
<1>4. CASE ProgressEnd
  <2>1. UNCHANGED control /\ progress'.pc = "done"
    BY <1>4 DEF ProgressEnd, ArrivalInv, TypeInv, TypeOK
  <2>. QED BY <1>1, <2>1 DEF ArrivalInv, NoInventedArrival, ArrivalsReported
<1>. QED BY <1>2, <1>3, <1>4 DEF ProgressStep

LEMMA HandoffArrival ==
  ASSUME ArrivalInv, HandoffStep PROVE NoInventedArrival' /\ ArrivalsReported'
<1>1. handoff \in HandoffState /\ TypeInv BY UnderWay DEF ArrivalInv
<1>2. UNCHANGED <<progress, operator>>
  BY DEF HandoffStep, HandoffCore, HandoffPresents, HandoffWritesPath, HandoffSimulates,
         HandoffRaises, HandoffSaves, HandoffSavesReplay
<1>3. handoff'.pc = "save" /\ handoff'.result.state = "succeeded" => handoff'.result.arrived
  <2>1. CASE HandoffSimulates
    <3>1. PICK outcome \in Outcome :
            handoff' = [handoff EXCEPT !.pc = "save", !.result = ResultOf(outcome),
                                       !.replay = outcome # "error"]
      BY <2>1 DEF HandoffSimulates
    <3>2. handoff'.result = ResultOf(outcome) BY <1>1, <3>1 DEF HandoffState
    <3>. QED BY <3>2, ResultIsStatus
  <2>2. CASE HandoffRaises
    <3>1. handoff.pc # "off" /\ Loaded \in Status
      BY <2>2, <1>1, UnderWay, LoadedIsStatus DEF HandoffRaises
    <3>. DEFINE failed == [Loaded EXCEPT !.state = "failed", !.action = "stop", !.told = TRUE]
    <3>2. failed.state = "failed" BY <3>1, FailedIsStatus
    <3>3. handoff' = [handoff EXCEPT !.pc = "save", !.replay = FALSE, !.result = failed]
      BY <2>2 DEF HandoffRaises
    <3>. HIDE DEF failed
    <3>. QED BY <1>1, <3>2, <3>3 DEF HandoffState
  <2>3. CASE HandoffCore \/ HandoffWritesPath \/ HandoffSaves \/ HandoffSavesReplay
    BY <2>3, <1>1 DEF HandoffCore, HandoffWritesPath, HandoffSaves,
                      HandoffSavesReplay, HandoffState
  <2>4. CASE HandoffPresents BY <2>4, <1>1 DEF HandoffPresents, HandoffState
  <2>. QED BY <2>1, <2>2, <2>3, <2>4 DEF HandoffStep
<1>4. ArrivalsReported' BY <1>1, <1>2, <1>3, HandoffKeepsArrival DEF ArrivalInv, ArrivalsReported
<1>5. NoInventedArrival'
  <2>1. CASE HandoffSaves
    <3>1. /\ control' = handoff.result /\ handoff'.result = handoff.result
          /\ handoff'.pc \in {"replay", "done"} /\ handoff.pc = "save"
      BY <2>1, <1>1 DEF HandoffSaves, HandoffState
    <3>. QED BY <3>1 DEF ArrivalInv, ArrivalsReported, NoInventedArrival
  <2>2. CASE ~HandoffSaves
    <3>1. UNCHANGED control
      BY <2>2 DEF HandoffStep, HandoffCore, HandoffPresents, HandoffWritesPath,
                  HandoffSimulates, HandoffRaises, HandoffSavesReplay
    <3>. QED BY <1>1, <3>1, HandoffKeepsArrival DEF ArrivalInv, NoInventedArrival, Arrived
  <2>. QED BY <2>1, <2>2
<1>. QED BY <1>4, <1>5

LEMMA OverrideArrival ==
  ASSUME ArrivalInv, NEW o \in Operator, OverrideBegins(o) \/ OverrideContinues(o)
  PROVE  NoInventedArrival' /\ ArrivalsReported'
<1>0. TypeInv BY DEF ArrivalInv
<1>1. CASE OverrideBegins(o)
  <2>1. UNCHANGED <<control, progress, handoff>> /\ (Arrived' <=> Arrived)
    BY <1>1 DEF OverrideBegins, Arrived
  <2>2. /\ \A p \in Operator : p # o => operator'[p] = operator[p]
        /\ operator'[o].seen = Loaded
    <3>1. PICK c \in Command :
            operator' = [operator EXCEPT ![o] = [Idle EXCEPT !.pc = "dispatch", !.command = c,
                                                            !.seen = Loaded]]
      BY <1>1 DEF OverrideBegins
    <3>. DEFINE q == [Idle EXCEPT !.pc = "dispatch", !.command = c, !.seen = Loaded]
    <3>2. operator' = [operator EXCEPT ![o] = q] /\ q.seen = Loaded BY <3>1 DEF Idle
    <3>. HIDE DEF q
    <3>. QED BY <1>0, <3>2 DEF TypeInv, TypeOK
  <2>3. Loaded.arrived = control.arrived /\ control # NoStatus
    BY <1>0, <1>1, LoadedIsStatus DEF OverrideBegins, TypeInv, TypeOK
  <2>4. Loaded.arrived => Arrived BY <2>3 DEF ArrivalInv, NoInventedArrival, Arrived
  <2>. QED BY <2>1, <2>2, <2>4 DEF ArrivalInv, NoInventedArrival, ArrivalsReported
<1>2. CASE OverrideContinues(o)
  <2>1. /\ UNCHANGED <<progress, handoff>> /\ (Arrived' <=> Arrived)
        /\ operator[o].pc # "idle" /\ operator[o] \in OperatorState
        /\ \A p \in Operator : operator'[p].pc # "idle" =>
             operator[p].pc # "idle" /\ operator'[p].seen = operator[p].seen
    BY <1>0, <1>2, OverrideMoves DEF Arrived
  <2>2. ArrivalsReported' BY <2>1 DEF ArrivalInv, ArrivalsReported
  <2>3. CASE OverrideSaves(o)
    <3>1. /\ control'.state \in {"running", "paused"}
          /\ control'.arrived = operator[o].seen.arrived
      BY <1>0, <2>1, <2>3, OverriddenIsStatus DEF OverrideSaves, TypeInv, StatusesHeld,
         OperatorState
    <3>. QED BY <2>1, <2>2, <3>1 DEF ArrivalInv, ArrivalsReported, NoInventedArrival, Arrived
  <2>4. CASE ~OverrideSaves(o)
    <3>1. UNCHANGED control
      BY <1>2, <2>4 DEF OverrideContinues, OverrideDispatches, OverrideWrites, OverrideAudits
    <3>. QED BY <2>1, <2>2, <3>1 DEF ArrivalInv, NoInventedArrival
  <2>. QED BY <2>3, <2>4
<1>. QED BY <1>1, <1>2

LEMMA ArrivalStep == ASSUME ArrivalInv, [Next]_vars PROVE ArrivalInv'
<1>1. CASE WindowStep \/ UNCHANGED vars
  <2>1. UNCHANGED <<control, progress, handoff, operator>>
    BY <1>1 DEF WindowStep, WindowConsumes, WindowFinishesPath, WindowCloses, vars
  <2>2. NoInventedArrival' /\ ArrivalsReported'
    BY <2>1 DEF ArrivalInv, NoInventedArrival, ArrivalsReported, Arrived
  <2>. QED BY <2>2, TypeStep DEF ArrivalInv
<1>2. CASE Next /\ ~WindowStep
  <2>1. NoInventedArrival' /\ ArrivalsReported'
    BY <1>2, AcceptArrival, ProgressArrival, HandoffArrival, OverrideArrival DEF Next
  <2>. QED BY <2>1, TypeStep DEF ArrivalInv
<1>. QED BY <1>1, <1>2

LEMMA ArrivalInvariant == Spec => []ArrivalInv
<1>1. Init => ArrivalInv
  BY InitType DEF Init, ArrivalInv, NoInventedArrival, ArrivalsReported, Idle
<1>. QED BY <1>1, ArrivalStep, PTL DEF Spec

(* However reads and writes interleave, a status shows no arrival that the *)
(* handoff has not reported: whatever a thread still carries was read when *)
(* there was none, or when there was one already.                          *)
THEOREM ArrivalsAreReported == Spec => []NoInventedArrival
BY ArrivalInvariant, PTL DEF ArrivalInv

LEMMA AppendIsLonger == ASSUME NEW S, NEW s \in Seq(S), NEW x \in S PROVE Append(s, x) # s
<1>1. Len(Append(s, x)) = Len(s) + 1 OBVIOUS
<1>. QED BY <1>1

(* A pause is undone without a resume only by the handoff's result or by   *)
(* an estimate made from a status read before the pause.                   *)
THEOREM PausesAreKept == Spec => PauseUndoneOnlyFromBefore
<1>. DEFINE A == control.state = "paused" /\ control'.state # "paused" /\ ordered' = ordered =>
                   \/ handoff.pc = "save"
                   \/ progress.pc = "write" /\ progress.seen.state = "running"
<1>1. ArrivalInv /\ [Next]_vars => [A]_vars
  <2>. SUFFICES ASSUME ArrivalInv, Next, UNCHANGED control => FALSE PROVE A OBVIOUS
  <2>0. TypeInv BY DEF ArrivalInv
  <2>1. CASE Accept BY <2>1 DEF Accept, NoStatus
  <2>2. CASE ProgressStep
    <3>1. ProgressWrite BY <2>2 DEF ProgressStep, ProgressRead, ProgressEnd
    <3>. QED BY <3>1 DEF ProgressWrite, ArrivalInv, ArrivalsReported
  <2>3. CASE HandoffStep
    <3>1. HandoffSaves
      BY <2>3 DEF HandoffStep, HandoffCore, HandoffPresents, HandoffWritesPath,
                  HandoffSimulates, HandoffRaises, HandoffSavesReplay
    <3>. QED BY <3>1 DEF HandoffSaves
  <2>4. CASE WindowStep
    BY <2>4 DEF WindowStep, WindowConsumes, WindowFinishesPath, WindowCloses
  <2>5. ASSUME NEW o \in Operator, OverrideBegins(o) \/ OverrideContinues(o) PROVE A
    <3>1. OverrideSaves(o)
      BY <2>5 DEF OverrideBegins, OverrideContinues, OverrideDispatches, OverrideWrites,
                  OverrideAudits
    <3>2. ordered \in Seq(Override) /\ operator[o].command \in Override
      BY <2>0, UnderWay DEF TypeInv, TypeOK, OperatorState
    <3>. QED BY <3>1, <3>2, AppendIsLonger DEF OverrideSaves
  <2>. QED BY <2>1, <2>2, <2>3, <2>4, <2>5 DEF Next
<1>. QED BY <1>1, ArrivalInvariant, PTL DEF Spec, PauseUndoneOnlyFromBefore

-----------------------------------------------------------------------------
(* THE STOP WINS *)

LEMMA HasMax ==
  ASSUME NEW n \in Nat, NEW S, S \subseteq 0..n, S # {}
  PROVE  \E m \in S : \A k \in S : k <= m
<1>. DEFINE T == {n - k : k \in S}
<1>1. T \subseteq Nat
  <2>1. \A k \in S : n - k \in Nat OBVIOUS
  <2>. QED BY <2>1
<1>2. T # {} OBVIOUS
<1>3. PICK t \in T : \A u \in T : ~(<<u, t>> \in OpToRel(<, Nat))
  BY <1>1, <1>2, WFMin, NatLessThanWellFounded
<1>4. \A u \in T : ~(u < t) BY <1>1, <1>3 DEF OpToRel
<1>5. PICK m \in S : t = n - m OBVIOUS
<1>6. \A k \in S : k <= m
  <2>. TAKE k \in S
  <2>1. ~(n - k < t) BY <1>4
  <2>. QED BY <2>1, <1>5
<1>. QED BY <1>6

(* Among the commands in the directory there is a last one.                *)
LEMMA LastIsThere ==
  ASSUME TypeInv, pending # {}
  PROVE  LastOf(pending) \in pending /\ \A d \in pending : d.stamp <= LastOf(pending).stamp
<1>1. pending \subseteq [type : {"run_path", "stop"}, stamp : 1..stamps] /\ stamps \in Nat
  BY UnderWay DEF TypeInv, TypeOK
<1>. DEFINE S == {c.stamp : c \in pending}
<1>2. S \subseteq 0..stamps /\ S # {} BY <1>1
<1>3. PICK m \in S : \A k \in S : k <= m
  <2>. HIDE DEF S
  <2>. QED BY <1>1, <1>2, HasMax
<1>4. PICK c \in pending : c.stamp = m OBVIOUS
<1>5. \A d \in pending : d.stamp <= c.stamp BY <1>3, <1>4
<1>. QED BY <1>5 DEF LastOf

LEMMA WindowStops == ASSUME StopInv, WindowStep PROVE StopsLater'
<1>0. /\ UNCHANGED <<handoff, operator, path_written, stop_due>> /\ TypeInv
      /\ window \in [open : BOOLEAN, moving : BOOLEAN, dir : 0..1]
  BY DEF WindowStep, WindowConsumes, WindowFinishesPath, WindowCloses, StopInv, TypeInv, TypeOK
<1>1. CASE WindowConsumes
  <2>1. pending' = {} /\ window'.moving = (LastOf(pending).type = "run_path") /\ pending # {}
    BY <1>0, <1>1 DEF WindowConsumes
  <2>2. stop_due => LastOf(pending).type # "run_path"
    <3>. SUFFICES ASSUME stop_due, LastOf(pending).type = "run_path" PROVE FALSE OBVIOUS
    <3>1. LastOf(pending) \in pending /\ \A d \in pending : d.stamp <= LastOf(pending).stamp
      BY <1>0, <2>1, LastIsThere
    <3>2. LastOf(pending).stamp = handoff.stamp BY <3>1 DEF StopInv, StopsLater
    <3>3. PICK c \in pending : c.stamp > handoff.stamp BY <3>1 DEF StopInv, StopsLater
    <3>4. c.stamp \in Nat /\ handoff.stamp \in Nat
      BY <1>0, UnderWay DEF TypeInv, TypeOK, HandoffState
    <3>. QED BY <3>1, <3>2, <3>3, <3>4
  <2>. QED BY <1>0, <2>1, <2>2 DEF StopInv, StopsLater, NotPresented
<1>2. CASE WindowFinishesPath \/ WindowCloses
  <2>1. window'.moving = FALSE /\ UNCHANGED pending
    BY <1>0, <1>2 DEF WindowFinishesPath, WindowCloses
  <2>. QED BY <1>0, <2>1 DEF StopInv, StopsLater, NotPresented
<1>. QED BY <1>1, <1>2 DEF WindowStep

LEMMA HandoffStops == ASSUME StopInv, HandoffStep PROVE StopsLater'
<1>0. UNCHANGED operator /\ handoff \in HandoffState /\ TypeInv
  BY UnderWay
  DEF HandoffStep, HandoffCore, HandoffPresents, HandoffWritesPath, HandoffSimulates,
      HandoffRaises, HandoffSaves, HandoffSavesReplay, StopInv
<1>1. CASE HandoffPresents
  <2>1. ~path_written /\ ~stop_due /\ UNCHANGED <<path_written, stop_due>>
        /\ pending' \subseteq pending
    BY <1>1 DEF HandoffPresents, StopInv, StopsLater, NotPresented, shown
  <2>. QED BY <1>0, <2>1 DEF StopInv, StopsLater
<1>2. CASE HandoffWritesPath
  <2>1. /\ ~path_written /\ ~stop_due /\ path_written' /\ ~stop_due'
        /\ handoff'.pc = "simulate" /\ handoff'.stamp = handoff.stamp
        /\ \A c \in pending' : c \in pending \/ c.stamp = handoff.stamp
    BY <1>0, <1>2 DEF HandoffWritesPath, StopInv, StopsLater, HandoffState
  <2>. QED BY <1>0, <2>1 DEF StopInv, StopsLater, NotPresented
<1>3. CASE HandoffCore \/ HandoffSimulates \/ HandoffRaises \/ HandoffSaves \/ HandoffSavesReplay
  <2>1. UNCHANGED <<window, pending, path_written, stop_due>>
    BY <1>3 DEF HandoffCore, HandoffSimulates, HandoffRaises, HandoffSaves,
                HandoffSavesReplay, shown
  <2>2. handoff'.stamp = handoff.stamp
    BY <1>0, <1>3 DEF HandoffCore, HandoffSimulates, HandoffRaises, HandoffSaves,
                HandoffSavesReplay, HandoffState
  <2>3. handoff'.pc # "write" /\ (NotPresented' => NotPresented)
    BY <1>0, <1>3 DEF HandoffCore, HandoffSimulates, HandoffRaises, HandoffSaves,
                HandoffSavesReplay, HandoffState, NotPresented
  <2>. QED BY <1>0, <2>1, <2>2, <2>3 DEF StopInv, StopsLater
<1>. QED BY <1>1, <1>2, <1>3 DEF HandoffStep

LEMMA OverrideStops ==
  ASSUME StopInv, NEW o \in Operator, OverrideBegins(o) \/ OverrideContinues(o)
  PROVE  StopsLater'
<1>0. /\ operator \in [Operator -> OperatorState] /\ handoff \in HandoffState /\ stamps \in Nat
      /\ TypeInv
  BY UnderWay DEF StopInv, TypeInv, TypeOK, OperatorState
<1>1. CASE OverrideWrites(o)
  <2>1. /\ UNCHANGED <<handoff, window, path_written>>
        /\ \A p \in Operator : operator'[p].pc = "write" => p # o /\ operator'[p] = operator[p]
        /\ operator[o].pc = "write"
    BY <1>0, <1>1 DEF OverrideWrites, OperatorState
  <2>2. CASE UNCHANGED <<pending, stop_due>>
    BY <2>1, <2>2 DEF StopInv, StopsLater, NotPresented
  <2>3. CASE /\ pending' = pending \cup {[type |-> "stop", stamp |-> operator[o].stamp]}
             /\ stop_due' = (stop_due \/ operator[o].after)
    <3>. DEFINE stop == [type |-> "stop", stamp |-> operator[o].stamp]
    <3>1. stop.type = "stop" /\ stop.stamp = operator[o].stamp OBVIOUS
    <3>. HIDE DEF stop
    <3>2. pending' = pending \cup {stop} BY <2>3 DEF stop
    <3>3. operator[o].after \in BOOLEAN /\ stop_due \in BOOLEAN
      BY <1>0 DEF OperatorState, TypeInv, TypeOK
    <3>4. stop_due' => stop_due \/ operator[o].after BY <2>3
    <3>5. operator[o].after => path_written /\ operator[o].stamp > handoff.stamp
      BY <2>1 DEF StopInv, StopsLater
    <3>6. stop_due' => path_written' BY <2>1, <3>4, <3>5 DEF StopInv, StopsLater
    <3>7. stop_due' => \/ \E c \in pending' : c.type = "stop" /\ c.stamp > handoff'.stamp
                       \/ ~window'.moving /\ \A c \in pending' : c.type = "stop"
      BY <2>1, <3>1, <3>2, <3>4, <3>5 DEF StopInv, StopsLater
    <3>8. \A c \in pending' : c.type = "run_path" => path_written' /\ c.stamp = handoff'.stamp
      BY <2>1, <3>1, <3>2 DEF StopInv, StopsLater
    <3>. QED BY <2>1, <3>6, <3>7, <3>8 DEF StopInv, StopsLater, NotPresented
  <2>. QED BY <1>1, <2>2, <2>3 DEF OverrideWrites
<1>2. CASE ~OverrideWrites(o)
  <2>1. UNCHANGED <<handoff, window, pending, path_written, stop_due>>
    BY <1>2 DEF OverrideBegins, OverrideContinues, OverrideDispatches, OverrideSaves,
                OverrideAudits, shown
  <2>2. \A p \in Operator : operator'[p].pc = "write" /\ operator'[p].after =>
          \/ operator'[p] = operator[p]
          \/ path_written /\ operator'[p].stamp = stamps + 1
    <3>1. CASE OverrideBegins(o)
      <4>1. \A p \in Operator : p # o => operator'[p] = operator[p] BY <3>1, <1>0 DEF OverrideBegins
      <4>2. operator'[o].pc = "dispatch"
        <5>1. PICK c \in Command :
                operator' = [operator EXCEPT ![o] = [Idle EXCEPT !.pc = "dispatch",
                                                       !.command = c, !.seen = Loaded]]
          BY <3>1 DEF OverrideBegins
        <5>. DEFINE q == [Idle EXCEPT !.pc = "dispatch", !.command = c, !.seen = Loaded]
        <5>2. operator' = [operator EXCEPT ![o] = q] /\ q.pc = "dispatch" BY <5>1 DEF Idle
        <5>. HIDE DEF q
        <5>. QED BY <1>0, <5>2
      <4>. QED BY <4>1, <4>2
    <3>2. CASE OverrideDispatches(o) BY <3>2, <1>0 DEF OverrideDispatches, OperatorState
    <3>3. CASE OverrideSaves(o) BY <3>3, <1>0 DEF OverrideSaves, OperatorState
    <3>4. CASE OverrideAudits(o) BY <3>4, <1>0 DEF OverrideAudits, Idle
    <3>. QED BY <1>2, <3>1, <3>2, <3>3, <3>4 DEF OverrideContinues
  <2>3. handoff.stamp < stamps + 1 BY <1>0 DEF HandoffState
  <2>. QED BY <2>1, <2>2, <2>3 DEF StopInv, StopsLater, NotPresented
<1>. QED BY <1>1, <1>2

(* A stop named after the path was written wins: with no command left in   *)
(* the directory, the window does not move.                                *)
THEOREM LaterStopWins == Spec => []StopAfterPathWins
<1>1. Init => StopInv
  BY InitType DEF Init, StopInv, StopsLater, Idle
<1>2. StopInv /\ [Next]_vars => StopInv'
  <2>. SUFFICES ASSUME StopInv, [Next]_vars PROVE StopsLater'
    BY TypeStep DEF StopInv
  <2>1. CASE Accept
    <3>1. UNCHANGED <<operator, shown>> /\ NotPresented /\ handoff'.stamp = handoff.stamp
      BY <2>1, UnderWay DEF Accept, StopInv, HandoffState, NotPresented
    <3>. QED BY <3>1 DEF StopInv, StopsLater, shown
  <2>2. CASE ProgressStep \/ UNCHANGED vars
    <3>1. UNCHANGED <<handoff, operator, shown>>
      BY <2>2 DEF ProgressStep, ProgressRead, ProgressWrite, ProgressEnd, vars
    <3>. QED BY <3>1 DEF StopInv, StopsLater, NotPresented, shown
  <2>. QED BY <2>1, <2>2, HandoffStops, WindowStops, OverrideStops DEF Next
<1>3. StopInv => StopAfterPathWins BY DEF StopInv, StopsLater, StopAfterPathWins
<1>. QED BY <1>1, <1>2, <1>3, PTL DEF Spec

-----------------------------------------------------------------------------
(* EVERY OVERRIDE AUDITED *)

LEMMA CountAppend ==
  ASSUME NEW s \in Seq(Override), NEW x \in Override, NEW c \in Override
  PROVE  /\ Count(s, c) \in Nat
         /\ Count(Append(s, x), c) = IF x = c THEN Count(s, c) + 1 ELSE Count(s, c)
<1>. DEFINE I == {i \in DOMAIN s : s[i] = c}
            J == {i \in DOMAIN Append(s, x) : Append(s, x)[i] = c}
<1>1. /\ Len(s) \in Nat /\ DOMAIN s = 1..Len(s)
      /\ DOMAIN Append(s, x) = 1..(Len(s) + 1)
      /\ \A i \in 1..Len(s) : Append(s, x)[i] = s[i]
      /\ Append(s, x)[Len(s) + 1] = x
  OBVIOUS
<1>2. IsFiniteSet(I) /\ Cardinality(I) \in Nat
  <2>1. IsFiniteSet(1..Len(s)) BY <1>1, FS_Interval
  <2>2. I \in SUBSET (1..Len(s)) BY <1>1
  <2>3. IsFiniteSet(I)
    <3>. HIDE DEF I
    <3>. QED BY <2>1, <2>2, FS_Subset
  <2>. HIDE DEF I
  <2>. QED BY <2>3, FS_CardinalityType
<1>3. J = IF x = c THEN I \cup {Len(s) + 1} ELSE I BY <1>1
<1>4. Len(s) + 1 \notin I BY <1>1
<1>5. Cardinality(J) = IF x = c THEN Cardinality(I) + 1 ELSE Cardinality(I)
  <2>. HIDE DEF I, J
  <2>. QED BY <1>2, <1>3, <1>4, FS_AddElement
<1>. QED BY <1>2, <1>5 DEF Count

LEMMA UnauditedCount ==
  ASSUME NEW c
  PROVE  IsFiniteSet(Unaudited(c)) /\ Cardinality(Unaudited(c)) \in Nat
<1>1. IsFiniteSet(Unaudited(c))
  BY ControlRunAssumption, FS_Subset, Unaudited(c) \subseteq Operator DEF Unaudited
<1>. QED BY <1>1, FS_CardinalityType

LEMMA UnauditedStays ==
  ASSUME \A p \in Operator : /\ operator'[p].pc = "audit" <=> operator[p].pc = "audit"
                             /\ operator[p].pc = "audit" =>
                                  operator'[p].command = operator[p].command,
         NEW c
  PROVE  Cardinality(Unaudited(c))' = Cardinality(Unaudited(c))
BY DEF Unaudited

LEMMA OverrideAudited ==
  ASSUME AuditInv, NEW o \in Operator, OverrideBegins(o) \/ OverrideContinues(o)
  PROVE  AuditBehind'
<1>0. /\ operator \in [Operator -> OperatorState] /\ operator[o].command \in Override
      /\ audit \in Seq(Override) /\ ordered \in Seq(Override) /\ TypeInv
  BY DEF AuditInv, TypeInv, TypeOK, OperatorState
<1>1. CASE OverrideBegins(o) \/ OverrideDispatches(o) \/ OverrideWrites(o)
  <2>1. UNCHANGED <<audit, ordered>>
    BY <1>1 DEF OverrideBegins, OverrideDispatches, OverrideWrites
  <2>2. /\ operator[o].pc # "audit" /\ operator'[o].pc # "audit"
        /\ \A p \in Operator : p # o => operator'[p] = operator[p]
    <3>1. CASE OverrideBegins(o)
      <4>1. PICK c \in Command :
              operator' = [operator EXCEPT ![o] = [Idle EXCEPT !.pc = "dispatch",
                                                     !.command = c, !.seen = Loaded]]
        BY <3>1 DEF OverrideBegins
      <4>. DEFINE q == [Idle EXCEPT !.pc = "dispatch", !.command = c, !.seen = Loaded]
      <4>2. operator' = [operator EXCEPT ![o] = q] /\ q.pc = "dispatch" BY <4>1 DEF Idle
      <4>3. operator[o].pc = "idle" BY <3>1 DEF OverrideBegins
      <4>. HIDE DEF q
      <4>. QED BY <1>0, <4>2, <4>3
    <3>2. CASE OverrideDispatches(o)
      <4>1. operator[o].pc = "dispatch" /\ operator'[o].pc \in {"write", "save"}
        <5>. DEFINE q == [operator[o] EXCEPT !.pc = "write", !.stamp = stamps + 1,
                                            !.dir = window.dir, !.after = path_written]
        <5>1. CASE operator' = [operator EXCEPT ![o] = q]
          <6>1. q.pc = "write" BY <1>0 DEF OperatorState
          <6>. HIDE DEF q
          <6>. QED BY <1>0, <3>2, <5>1, <6>1 DEF OverrideDispatches
        <5>2. CASE operator' = [operator EXCEPT ![o].pc = "save"]
          BY <1>0, <3>2, <5>2 DEF OverrideDispatches, OperatorState
        <5>. QED BY <1>0, <3>2, <5>1, <5>2 DEF OverrideDispatches
      <4>. QED BY <1>0, <3>2, <4>1, OverrideMoves DEF OverrideContinues
    <3>3. CASE OverrideWrites(o)
      <4>1. operator[o].pc = "write" /\ operator' = [operator EXCEPT ![o].pc = "save"]
        BY <3>3 DEF OverrideWrites
      <4>. QED BY <1>0, <4>1 DEF OperatorState
    <3>. QED BY <1>1, <3>1, <3>2, <3>3
  <2>3. \A c : Cardinality(Unaudited(c))' = Cardinality(Unaudited(c))
    BY <2>2, UnauditedStays
  <2>. QED BY <2>1, <2>3 DEF AuditInv, AuditBehind, Count
<1>2. CASE OverrideSaves(o)
  <2>1. /\ UNCHANGED audit /\ ordered' = Append(ordered, operator[o].command)
        /\ operator[o].pc = "save" /\ operator'[o].pc = "audit"
        /\ operator'[o].command = operator[o].command
        /\ \A p \in Operator : p # o => operator'[p] = operator[p]
    BY <1>0, <1>2 DEF OverrideSaves, OperatorState
  <2>. SUFFICES ASSUME NEW c \in Override
                PROVE  Count(ordered, c)' = Count(audit, c)' + Cardinality(Unaudited(c))'
    BY DEF AuditBehind
  <2>2. Unaudited(c)' = IF operator[o].command = c THEN Unaudited(c) \cup {o} ELSE Unaudited(c)
    BY <2>1 DEF Unaudited
  <2>3. o \notin Unaudited(c) BY <2>1 DEF Unaudited
  <2>4. Cardinality(Unaudited(c))' = IF operator[o].command = c
                                       THEN Cardinality(Unaudited(c)) + 1
                                       ELSE Cardinality(Unaudited(c))
    BY <2>2, <2>3, UnauditedCount, FS_AddElement
  <2>5. Count(ordered', c) = IF operator[o].command = c THEN Count(ordered, c) + 1
                                                        ELSE Count(ordered, c)
    BY <1>0, <2>1, CountAppend
  <2>6. Count(ordered, c) = Count(audit, c) + Cardinality(Unaudited(c))
    BY DEF AuditInv, AuditBehind
  <2>7. Count(audit, c) \in Nat /\ Cardinality(Unaudited(c)) \in Nat
    BY <1>0, CountAppend, UnauditedCount
  <2>8. Count(ordered, c)' = Count(ordered', c) /\ Count(audit, c)' = Count(audit, c)
    BY <2>1 DEF Count
  <2>. QED BY <2>4, <2>5, <2>6, <2>7, <2>8
<1>3. CASE OverrideAudits(o)
  <2>1. /\ UNCHANGED ordered /\ audit' = Append(audit, operator[o].command)
        /\ operator[o].pc = "audit" /\ operator'[o].pc = "idle"
        /\ \A p \in Operator : p # o => operator'[p] = operator[p]
    BY <1>0, <1>3 DEF OverrideAudits, OperatorState, Idle
  <2>. SUFFICES ASSUME NEW c \in Override
                PROVE  Count(ordered, c)' = Count(audit, c)' + Cardinality(Unaudited(c))'
    BY DEF AuditBehind
  <2>2. Unaudited(c)' = IF operator[o].command = c THEN Unaudited(c) \ {o} ELSE Unaudited(c)
    BY <2>1 DEF Unaudited
  <2>3. operator[o].command = c => o \in Unaudited(c) BY <2>1 DEF Unaudited
  <2>4. Cardinality(Unaudited(c))' = IF operator[o].command = c
                                       THEN Cardinality(Unaudited(c)) - 1
                                       ELSE Cardinality(Unaudited(c))
    BY <2>2, <2>3, UnauditedCount, FS_RemoveElement
  <2>5. Count(audit', c) = IF operator[o].command = c THEN Count(audit, c) + 1
                                                      ELSE Count(audit, c)
    BY <1>0, <2>1, CountAppend
  <2>6. Count(ordered, c) = Count(audit, c) + Cardinality(Unaudited(c))
    BY DEF AuditInv, AuditBehind
  <2>7. Count(audit, c) \in Nat /\ Cardinality(Unaudited(c)) \in Nat
    BY <1>0, CountAppend, UnauditedCount
  <2>8. Count(ordered, c)' = Count(ordered, c) /\ Count(audit, c)' = Count(audit', c)
    BY <2>1 DEF Count
  <2>. QED BY <2>4, <2>5, <2>6, <2>7, <2>8
<1>. QED BY <1>1, <1>2, <1>3 DEF OverrideContinues

(* Every override saved is audited: at any time the audit log lacks, of    *)
(* each command, as many records as there are requests about to write one. *)
THEOREM AuditComplete == Spec => []OverridesAudited
<1>1. Init => AuditInv
  <2>. SUFFICES ASSUME Init PROVE AuditBehind BY InitType DEF AuditInv
  <2>1. \A c : Unaudited(c) = {} BY DEF Init, Unaudited, Idle
  <2>2. ordered = audit /\ audit \in Seq(Override) BY DEF Init
  <2>3. \A c \in Override : Count(audit, c) \in Nat BY <2>2, CountAppend
  <2>4. \A c : Cardinality(Unaudited(c)) = 0 BY <2>1, FS_EmptySet
  <2>. QED BY <2>2, <2>3, <2>4 DEF AuditBehind
<1>2. AuditInv /\ [Next]_vars => AuditInv'
  <2>. SUFFICES ASSUME AuditInv, [Next]_vars PROVE AuditBehind'
    BY TypeStep DEF AuditInv
  <2>1. CASE Accept \/ ProgressStep \/ HandoffStep \/ WindowStep \/ UNCHANGED vars
    <3>1. UNCHANGED <<operator, audit, ordered>>
      <4>1. CASE Accept \/ ProgressStep \/ UNCHANGED vars
        BY <4>1 DEF Accept, ProgressStep, ProgressRead, ProgressWrite, ProgressEnd, vars
      <4>2. CASE HandoffStep
        BY <4>2 DEF HandoffStep, HandoffCore, HandoffPresents, HandoffWritesPath,
                    HandoffSimulates, HandoffRaises, HandoffSaves, HandoffSavesReplay
      <4>3. CASE WindowStep
        BY <4>3 DEF WindowStep, WindowConsumes, WindowFinishesPath, WindowCloses
      <4>. QED BY <2>1, <4>1, <4>2, <4>3
    <3>. QED BY <3>1 DEF AuditInv, AuditBehind, Count, Unaudited
  <2>. QED BY <2>1, OverrideAudited DEF Next
<1>3. AuditInv => OverridesAudited
  <2>. SUFFICES ASSUME AuditInv, Quiet, NEW c \in Override PROVE Count(audit, c) = Count(ordered, c)
    BY DEF OverridesAudited
  <2>1. Unaudited(c) = {} BY DEF Quiet, Unaudited
  <2>2. Cardinality(Unaudited(c)) = 0 BY <2>1, FS_EmptySet
  <2>3. audit \in Seq(Override) BY DEF AuditInv, TypeInv, TypeOK
  <2>4. Count(audit, c) \in Nat BY <2>3, CountAppend
  <2>. QED BY <2>2, <2>4 DEF AuditInv, AuditBehind
<1>. QED BY <1>1, <1>2, <1>3, PTL DEF Spec
=============================================================================
