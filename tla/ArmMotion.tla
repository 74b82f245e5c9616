------------------------------ MODULE ArmMotion ------------------------------
(***************************************************************************)
(* The commands of the console that move the arm, on top of the motor      *)
(* drivers.                                                                *)
(*                                                                         *)
(* The main thread is one sequential program.  What is left of the command *)
(* in progress is its plan, a sequence of steps: run a macro, wait until   *)
(* drives stand still, ask for a rotation, wait for a pattern, compute a   *)
(* place, note the place reached.  The waiting loops poll check_status     *)
(* and trust the verdict; a wait has no timeout (the one in move_by_command *)
(* is commented out).                                                      *)
(***************************************************************************)
EXTENDS MotorDriver

CONSTANTS
  Base, Elbow,   \* motor 1 and motor 2
  Gear,          \* Gear[d]: _gear_ratio
  Places,        \* the points (x, y) a command may name or compute
  Pose,          \* Pose[p][d]: the steps set_target makes of the point
  Nowhere,       \* (0, 0), what sg_current_x and sg_current_y start from
  Edges,         \* SPD: the points (0, current_r), from the inside out
  HalfTurn,      \* SPD: base_steps, half of CANISTER_STEP
  Field, Arcs,   \* SPR: base_steps, and m, the FIELD_ARC_PARTITIONS
  Rows, Turn     \* SPR: n, and ELBOW_STEP

VARIABLES
  command,       \* the last command of the console, or None
  plan,          \* the steps left of it
  round,         \* in a waiting loop: the drives to check in this round
  in_motion,     \* in a waiting loop: whether the round has seen motion
  steps,         \* steps[d]: _canister_current_steps, _elbow_current_steps
  believed       \* the point sg_current_x, sg_current_y

armVars == <<command, plan, round, in_motion, steps, believed>>
allVars == <<vars, armVars>>

Motors == {Base, Elbow}

Camera == 0     \* in a round, after the drives: look at the targets

ASSUME MotorsAssumption == Base # Elbow /\ Motors = Drives
ASSUME GearAssumption == Gear \in [Drives -> Nat \ {0}]
ASSUME PoseAssumption ==
  /\ Pose \in [Places -> [Drives -> Int]]
  /\ 0 \in Steps
  /\ \A p \in Places, d \in Drives : Gear[d] * Pose[p][d] \in Steps
ASSUME NowhereAssumption == Nowhere \notin Places
ASSUME NoneCommandAssumption ==
  None \notin {"move", "home", "scan", "directed", "sweep", "pattern", "target"}

\* SPR: base_steps_delta, and where the raster's columns may be.
Delta == Field \div Arcs
Reach == -(Field + Delta - 1)..(Field + Delta - 1)

\* SPR: elbow_steps in row i when the sweep began with elbow_current_steps() = s.
\* The conversion to int cuts the fraction off.
RowSteps(i, s) ==
  LET n == i * (Turn - s) + 2 * Rows * s
  IN IF n >= 0 THEN -(n \div (2 * Rows)) ELSE (-n) \div (2 * Rows)

ElbowSteps == {StartSteps[Elbow]} \union {Pose[p][Elbow] : p \in Places}

ASSUME EdgesAssumption == Edges \in Seq(Places)
ASSUME SweepAssumption ==
  /\ {HalfTurn, Field, Turn} \subseteq Nat
  /\ Arcs \in 1..Field      \* else base_steps_delta is 0, and SPR never ends
  /\ Rows \in Nat \ {0}
  /\ Gear[Base] * HalfTurn \in Steps
  /\ \A at \in Reach : Gear[Base] * at \in Steps
  /\ \A i \in 0..Rows, s \in ElbowSteps : Gear[Elbow] * RowSteps(i, s) \in Steps

-----------------------------------------------------------------------------
(* Plans *)

\* run_action of a macro that takes no number.
Run(d, key) == [do |-> "run", drive |-> d, key |-> key, n |-> 0]

\* step_n_motion: the number is in steps of the joint, the drive turns the gear.
\* Gear is an integer, for which (int)(n*gear) truncates nothing.
StepN(d, n) ==
  [do |-> "run", drive |-> d, key |-> "single_motion_var", n |-> Gear[d] * n]

Ask(d) == [do |-> "ask", drive |-> d]

\* Poll the drives, in this order, until a round sees none of them in motion.
Wait(ds) == [do |-> "wait", drives |-> ds]

\* The last lines of move_by_command.
Note(p) == [do |-> "note", place |-> p]

\* Poll drive d, and look at the targets after each poll.
Watch(d) == [do |-> "watch", drive |-> d]

Sight == [do |-> "sight"]    \* wait until a pattern is in view
Locate == [do |-> "locate"]  \* go to the place the rotations give
Aim == [do |-> "aim"]        \* go to the place a sighting gives
Cell == [do |-> "cell"]      \* the loop of to_target
Fault == [do |-> "fault"]    \* t_acquired is NULL when SPR uses it

\* The loops of SPD and SPR, before round i, and in row i past column "at" on the
\* way "down" to -Field or "up" to Field.
Edge(i) == [do |-> "edge", i |-> i]
Raster(i, at, way) == [do |-> "raster", row |-> i, at |-> at, way |-> way]

\* Mutant of StepperPlan: the command does not wait.
StepperPlanNoWait(d, n) == <<StepN(d, n)>>

\* stepper_by_command
StepperPlan(d, n) == <<StepN(d, n), Wait(<<d>>)>>

\* move_by_command, after set_target
MovePlan(p) ==
  <<StepN(Base, Pose[p][Base]), StepN(Elbow, Pose[p][Elbow]),
    Wait(<<Base, Elbow>>), Note(p)>>

\* arm_to_home
HomePlan == StepperPlan(Base, 0) \o StepperPlan(Elbow, 0)

\* Mutant of ScanPlan: the rotations are asked for before the arm is stopped.
ScanPlanAskFirst ==
  <<Run(Base, "scan_jog_action"), Run(Elbow, "scan_jog_action"), Sight,
    Ask(Base), Ask(Elbow),
    Run(Base, "stop_motion"), Run(Elbow, "stop_motion"), Locate>>

\* scan_for_pattern, up to the move to where the pattern is
ScanPlan ==
  <<Run(Base, "scan_jog_action"), Run(Elbow, "scan_jog_action"), Sight,
    Run(Base, "stop_motion"), Run(Elbow, "stop_motion"),
    Ask(Base), Ask(Elbow), Locate>>

\* What follows the loops.  SPD goes on alike whether it has seen a pattern or
\* not.
EdgeEnd == <<Ask(Base), Ask(Elbow), Locate>>
SweepFound == EdgeEnd \o <<Aim>>
SweepMissed == EdgeEnd \o <<Fault>>

\* Row i of SPR, begun at column "at".
Row(i, at, way) ==
  StepperPlan(Elbow, RowSteps(i, steps[Elbow])) \o <<Raster(i, at, way)>>

\* scan_for_pattern_with_rotation_motion.  elbow_start is what set_target left,
\* although the elbow has been sent to zero.
SweepPlan ==
  HomePlan \o StepperPlan(Base, Field) \o Row(0, Field, "down")

-----------------------------------------------------------------------------
ArmInit ==
  /\ Init
  /\ command = None /\ plan = <<>>
  /\ round = <<>> /\ in_motion = TRUE
  /\ steps = [d \in Drives |-> StartSteps[d]]
  /\ believed = Nowhere

(* main: the console gives one command after the other *)

Console(name, steplist) ==
  /\ started = Drives /\ call = None /\ plan = <<>>
  /\ command' = name
  /\ plan' = steplist
  /\ UNCHANGED <<vars, round, in_motion, believed>>

\* MV, and each point of ML and WL
MoveTo(p) ==
  /\ Console("move", MovePlan(p))
  /\ steps' = Pose[p]

Home == Console("home", HomePlan) /\ UNCHANGED steps

Scan == Console("scan", ScanPlan) /\ UNCHANGED steps

\* SPD
Directed == Console("directed", <<Edge(1)>>) /\ UNCHANGED steps

\* SPR
Sweep == Console("sweep", SweepPlan) /\ UNCHANGED steps

\* MP and MR wait for their pattern, TA asks whether it is there.
ToPattern ==
  /\ \E known \in BOOLEAN :
       Console("pattern", IF known THEN <<Aim>> ELSE <<Sight, Aim>>)
  /\ UNCHANGED steps

\* T: to_target, when there is a goal
ToTarget == Console("target", <<Cell>>) /\ UNCHANGED steps

-----------------------------------------------------------------------------
(* The steps of a plan *)

At(do) == plan # <<>> /\ Head(plan).do = do

Done == plan' = Tail(plan)

\* init_motor_descriptions
StartUp ==
  /\ \E d \in Drives : ProcessParameters(d)
  /\ UNCHANGED armVars

RunStep ==
  /\ At("run")
  /\ RunAction(Head(plan).drive, Head(plan).key, Head(plan).n)
  /\ Done
  /\ UNCHANGED <<command, round, in_motion, steps, believed>>

\* Mutant of AskStep: the macro is run as any other.
AskStepRaw ==
  /\ At("ask")
  /\ RunAction(Head(plan).drive, "rotation_query", 0)
  /\ Done
  /\ UNCHANGED <<command, round, in_motion, steps, believed>>

AskStep ==
  /\ At("ask")
  /\ CurrentRotation(Head(plan).drive)
  /\ Done
  /\ UNCHANGED <<command, round, in_motion, steps, believed>>

\* Mutant of BeginRound: in_motion is not computed afresh.
BeginRoundSticky ==
  /\ call = None /\ round = <<>> /\ in_motion /\ ~Simulation
  /\ \/ At("wait") /\ round' = Head(plan).drives
     \/ At("watch") /\ round' = <<Head(plan).drive, Camera>>
  /\ UNCHANGED <<vars, command, plan, in_motion, steps, believed>>

\* A round of a waiting loop begins ...
BeginRound ==
  /\ call = None /\ round = <<>> /\ in_motion /\ ~Simulation
  /\ \/ At("wait") /\ round' = Head(plan).drives
     \/ At("watch") /\ round' = <<Head(plan).drive, Camera>>
  /\ in_motion' = FALSE
  /\ UNCHANGED <<vars, command, plan, steps, believed>>

\* ... asks each drive ...
CheckNext ==
  /\ call = None /\ round # <<>> /\ Head(round) # Camera
  /\ CheckStatus(Head(round))
  /\ round' = Tail(round)
  /\ UNCHANGED <<command, plan, in_motion, steps, believed>>

\* Mutant of Judged: the status of motor 2 overwrites the one of motor 1.
JudgedLast == ~IsIdle(parameter[call.drive])

\* in_motion = in_motion_1 || in_motion_2
Judged == in_motion \/ ~IsIdle(parameter[call.drive])

ReturnToPlan ==
  /\ Return
  /\ in_motion' = IF call.fn = "check_status" THEN Judged ELSE in_motion
  /\ UNCHANGED <<command, plan, round, steps, believed>>

\* ... looks at the targets, if it watches for them: the loops end with the
\* first sighting, and motor 1 is stopped if it was not idle ...
Look ==
  /\ call = None /\ round # <<>> /\ Head(round) = Camera
  /\ round' = Tail(round)
  /\ \/ UNCHANGED <<plan, in_motion>>
     \/ /\ plan' = (IF in_motion THEN <<Run(Base, "stop_motion")>> ELSE <<>>)
                     \o (IF command = "sweep" THEN SweepFound ELSE EdgeEnd)
        /\ in_motion' = TRUE
  /\ UNCHANGED <<vars, command, steps, believed>>

\* Mutant of EndWait: the next loop starts from the verdict of this one.
EndWaitStale ==
  /\ At("wait") \/ At("watch")
  /\ call = None /\ round = <<>>
  /\ Simulation \/ ~in_motion
  /\ Done
  /\ UNCHANGED <<vars, command, round, in_motion, steps, believed>>

\* ... and the loop ends with the first that saw no motion.  In simulation
\* there is no loop, only a sleep.
EndWait ==
  /\ At("wait") \/ At("watch")
  /\ call = None /\ round = <<>>
  /\ Simulation \/ ~in_motion
  /\ in_motion' = TRUE
  /\ Done
  /\ UNCHANGED <<vars, command, round, steps, believed>>

NoteStep ==
  /\ At("note") /\ call = None
  /\ believed' = Head(plan).place
  /\ Done
  /\ UNCHANGED <<vars, command, round, in_motion, steps>>

\* wait_for_any_pattern: some pattern comes into view.  The function has no
\* return statement, so which target it gives is undefined; scan_for_pattern
\* uses it for the camera's offset only, which LocateStep leaves open.  (It
\* may also never return, or crash the program: then nothing follows.)
SightStep ==
  /\ At("sight") /\ call = None
  /\ Done
  /\ UNCHANGED <<vars, command, round, in_motion, steps, believed>>

\* move_by_command to p, and then the rest.
GoTo(p, rest) ==
  /\ plan' = MovePlan(p) \o rest
  /\ steps' = Pose[p]
  /\ UNCHANGED <<vars, command, round, in_motion, believed>>

\* rotation_to_cartesian and the offset in the field of view give some point.
LocateStep ==
  /\ At("locate") /\ call = None
  /\ \E p \in Places : GoTo(p, Tail(plan))

\* So do the offset of the target and the point at which the arm should be.
AimStep ==
  /\ At("aim") /\ call = None
  /\ \E p \in Places : GoTo(p, Tail(plan))

\* locate_in_cell gives some point, the arm moves there, and target_accuracy is
\* satisfied; at_goal never is.
CellStep ==
  /\ At("cell") /\ call = None
  /\ \E p \in Places : GoTo(p, plan)

\* Undefined: the program ends here, or reads some id and goes where that gives.
FaultStep ==
  /\ At("fault") /\ call = None
  /\ plan' = <<Aim>>
  /\ UNCHANGED <<vars, command, round, in_motion, steps, believed>>

-----------------------------------------------------------------------------
(* The loops of SPD and SPR *)

\* Out to the next edge, and half a turn from there.
EdgeStep ==
  /\ At("edge") /\ call = None
  /\ LET i == Head(plan).i
     IN \/ /\ i \in DOMAIN Edges
           /\ GoTo(Edges[i], <<StepN(Base, HalfTurn), Watch(Base), Edge(i + 1)>>)
        \/ /\ i \notin DOMAIN Edges
           /\ plan' = EdgeEnd
           /\ UNCHANGED <<vars, command, round, in_motion, steps, believed>>

RowDone(r) == IF r.way = "down" THEN r.at <= -Field ELSE r.at >= Field

\* Mutant of Column: the column is counted before it is driven to.
ColumnAhead ==
  /\ At("raster") /\ call = None
  /\ LET r == Head(plan)
         at == IF r.way = "down" THEN r.at - Delta ELSE r.at + Delta
     IN /\ ~RowDone(r)
        /\ plan' = <<StepN(Base, r.at), Watch(Base), Raster(r.row, at, r.way)>>
  /\ UNCHANGED <<vars, command, round, in_motion, steps, believed>>

\* One column on, while there is one.
Column ==
  /\ At("raster") /\ call = None
  /\ LET r == Head(plan)
         at == IF r.way = "down" THEN r.at - Delta ELSE r.at + Delta
     IN /\ ~RowDone(r)
        /\ plan' = <<StepN(Base, at), Watch(Base), Raster(r.row, at, r.way)>>
  /\ UNCHANGED <<vars, command, round, in_motion, steps, believed>>

\* The next row, in the other direction; only after a row upwards is the count
\* of rows looked at.
NextRow ==
  /\ At("raster") /\ call = None
  /\ LET r == Head(plan)
     IN /\ RowDone(r)
        /\ plan' = CASE r.way = "down" -> Row(r.row + 1, r.at, "up")
                     [] r.way = "up" /\ r.row + 1 < Rows -> Row(r.row + 1, r.at, "down")
                     [] OTHER -> SweepMissed
  /\ UNCHANGED <<vars, command, round, in_motion, steps, believed>>

-----------------------------------------------------------------------------
Commands ==
  \/ \E p \in Places : MoveTo(p)
  \/ Home \/ Scan \/ Directed \/ Sweep \/ ToPattern \/ ToTarget

Main ==
  \/ StartUp
  \/ RunStep \/ AskStep
  \/ BeginRound \/ CheckNext \/ ReturnToPlan \/ Look \/ EndWait
  \/ NoteStep \/ LocateStep \/ AimStep \/ CellStep
  \/ EdgeStep \/ Column \/ NextRow
  \/ (NextMacro \/ RunCommand \/ ReadLine \/ PollEmpty) /\ UNCHANGED armVars

ArmNext ==
  \/ Commands
  \/ Main
  \/ SightStep \/ FaultStep
  \/ External /\ UNCHANGED armVars

ArmSpec == ArmInit /\ [][ArmNext]_allVars

\* The main thread runs, drives execute and move, lines arrive.  Nothing makes
\* the operator type or a pattern come into view.
ArmFairness ==
  /\ WF_allVars(Main)
  /\ \A d \in Drives : /\ WF_allVars(Execute(d) /\ UNCHANGED armVars)
                       /\ WF_allVars(Travel(d) /\ UNCHANGED armVars)
  /\ WF_allVars(Arrive /\ UNCHANGED armVars)

ArmFairSpec == ArmSpec /\ ArmFairness

-----------------------------------------------------------------------------
(* Properties *)

RunSteps ==
  [do : {"run"}, drive : Drives, key : {"single_motion_var"}, n : Steps]
    \union [do : {"run"}, drive : Drives,
            key : {"stop_motion", "scan_jog_action"}, n : {0}]
AskSteps == [do : {"ask"}, drive : Drives]
WaitSteps == [do : {"wait"}, drives : Seq(Drives)]
WatchSteps == [do : {"watch"}, drive : Drives]
NoteSteps == [do : {"note"}, place : Places]
EdgeSteps == [do : {"edge"}, i : Nat]
RasterSteps ==
  [do : {"raster"}, row : 0..Rows - 1, at : Reach, way : {"down"}]
    \union [do : {"raster"}, row : 0..Rows, at : Reach, way : {"up"}]
BareSteps == [do : {"sight", "locate", "aim", "cell", "fault"}]

PlanSteps ==
  RunSteps \union AskSteps \union WaitSteps \union WatchSteps \union NoteSteps
    \union EdgeSteps \union RasterSteps \union BareSteps

ArmTypeOK ==
  /\ TypeOK
  /\ command \in {None, "move", "home", "scan", "directed", "sweep", "pattern",
                  "target"}
  /\ plan \in Seq(PlanSteps)
  /\ round \in Seq(Drives \union {Camera})
  /\ in_motion \in BOOLEAN
  /\ steps \in [Drives -> Int] /\ steps[Elbow] \in ElbowSteps
  /\ believed \in Places \union {Nowhere}

\* The main thread's calls are calls of MotorDriver, so all that is shown of
\* MotorDriver holds of the arm.
DriverSpec == Init /\ [][Next]_vars

\* When move_by_command notes the new position, both motors stand where
\* set_target wanted them: no status verdict has come from the other motor,
\* from before the motion, or from between the two commands.
MoveArrives ==
  At("note") /\ call = None =>
    \A d \in Drives : AtRest(d) /\ pos[d] = Gear[d] * steps[d]

\* "wait for motor 1 to zero" (arm_2d.cpp:2407): the elbow is not sent home
\* before the base is there, and the command ends with both at zero.
HomeInOrder ==
  command = "home" /\ call = None =>
    /\ Len(plan) <= Len(StepperPlan(Elbow, 0)) => pos[Base] = 0
    /\ plan = <<>> => pos[Elbow] = 0

\* The rotations from which S, SPD and SPR compute where they saw the pattern are
\* those of the arm as it stands, both motors stopped, also when the sighting
\* came in the middle of a motion.
ScanLocates ==
  At("locate") /\ call = None =>
    \A d \in Drives : AtRest(d) /\ reported_steps[d] = pos[d]

\* "Report the position of the arm right now" (arm_2d.cpp:1803): between two
\* commands sg_current is the point at which the arm stands.
ReportIsActual ==
  plan = <<>> /\ call = None /\ believed \in Places =>
    \A d \in Drives : pos[d] = Gear[d] * Pose[believed][d]

\* In a sweep (SPR) the joints move one at a time, from the way home to the
\* last column: each of its motions is waited for.
OneJointMoves ==
  plan # <<>> /\ plan[Len(plan)].do = "raster" => AtRest(Base) \/ AtRest(Elbow)

\* Whenever a sweep goes on to its next column or row the arm stands still, the
\* base at the column counted and the elbow in the row: no look was cut short.
SweepInStep ==
  At("raster") /\ call = None =>
    LET r == Head(plan)
    IN /\ \A d \in Drives : AtRest(d)
       /\ pos[Base] = Gear[Base] * r.at
       /\ pos[Elbow] = Gear[Elbow] * RowSteps(r.row, steps[Elbow])

\* A command ends, but for the wait for a pattern, a sweep that has found
\* nothing, and the planner, whose at_goal is always false.
CommandEnds ==
  plan # <<>> ~> plan = <<>> \/ At("sight") \/ At("fault") \/ command = "target"
=============================================================================
