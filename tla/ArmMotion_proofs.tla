--------------------------- MODULE ArmMotion_proofs ---------------------------
(***************************************************************************)
(* The commands of the console use the drivers as MotorDriver describes    *)
(* them, so the theorems about the serial line hold of the whole arm.      *)
(* With prompt answers MotionInv is inductive; so moves arrive, HOME goes  *)
(* in order, scans locate and sweeps keep in step with the arm.            *)
(***************************************************************************)
EXTENDS ArmInvariant, MotorDriver_proofs

-----------------------------------------------------------------------------
(* Plans *)

LEMMA MotorsAreDrives == Base \in Drives /\ Elbow \in Drives
  BY MotorsAssumption DEF Motors

\* A step of a plan is of the kind that its name says.
LEMMA StepKind ==
  ASSUME NEW s \in PlanSteps
  PROVE  /\ s.do = "run" => s \in RunSteps
         /\ s.do = "ask" => s \in AskSteps
         /\ s.do = "wait" => s \in WaitSteps
         /\ s.do = "watch" => s \in WatchSteps
         /\ s.do = "note" => s \in NoteSteps
         /\ s.do = "edge" => s \in EdgeSteps
         /\ s.do = "raster" => s \in RasterSteps
<1>1. s \in RunSteps => s.do = "run"
  BY DEF RunSteps
<1>2. s \in AskSteps => s.do = "ask"
  BY DEF AskSteps
<1>3. s \in WaitSteps => s.do = "wait"
  BY DEF WaitSteps
<1>4. s \in WatchSteps => s.do = "watch"
  BY DEF WatchSteps
<1>5. s \in NoteSteps => s.do = "note"
  BY DEF NoteSteps
<1>6. s \in EdgeSteps => s.do = "edge"
  BY DEF EdgeSteps
<1>7. s \in RasterSteps => s.do = "raster"
  BY DEF RasterSteps
<1>8. s \in BareSteps => s.do \in {"sight", "locate", "aim", "cell", "fault"}
  BY DEF BareSteps
<1>. QED
  BY <1>1, <1>2, <1>3, <1>4, <1>5, <1>6, <1>7, <1>8 DEF PlanSteps

LEMMA BareStepsType ==
  {Sight, Locate, Aim, Cell, Fault} \subseteq PlanSteps
<1>1. {Sight, Locate, Aim, Cell, Fault} \subseteq BareSteps
  BY DEF Sight, Locate, Aim, Cell, Fault, BareSteps
<1>. QED BY <1>1 DEF PlanSteps

LEMMA DriveStepsType ==
  ASSUME NEW d \in Drives
  PROVE  /\ Run(d, "scan_jog_action") \in PlanSteps
         /\ Run(d, "stop_motion") \in PlanSteps
         /\ Ask(d) \in PlanSteps
         /\ Wait(<<d>>) \in PlanSteps
         /\ Watch(d) \in PlanSteps
<1>1. Run(d, "scan_jog_action") \in RunSteps /\ Run(d, "stop_motion") \in RunSteps
  BY DEF Run, RunSteps
<1>2. Ask(d) \in AskSteps
  BY DEF Ask, AskSteps
<1>3. Wait(<<d>>) \in WaitSteps
  BY DEF Wait, WaitSteps
<1>4. Watch(d) \in WatchSteps
  BY DEF Watch, WatchSteps
<1>. QED BY <1>1, <1>2, <1>3, <1>4 DEF PlanSteps

LEMMA StepNType ==
  ASSUME NEW d \in Drives, NEW n, Gear[d] * n \in Steps
  PROVE  StepN(d, n) \in PlanSteps
<1>1. StepN(d, n) \in RunSteps
  BY DEF StepN, RunSteps
<1>. QED BY <1>1 DEF PlanSteps

\* Steps for the motors, in both directions, stay within what callers ask for.
LEMMA MovePlanType ==
  ASSUME NEW p \in Places
  PROVE  MovePlan(p) \in Seq(PlanSteps)
<1>1. /\ StepN(Base, Pose[p][Base]) \in PlanSteps
      /\ StepN(Elbow, Pose[p][Elbow]) \in PlanSteps
  BY StepNType, MotorsAreDrives, PoseAssumption
<1>2. Wait(<<Base, Elbow>>) \in PlanSteps
  <2>1. Wait(<<Base, Elbow>>) \in WaitSteps
    BY MotorsAreDrives DEF Wait, WaitSteps
  <2>. QED BY <2>1 DEF PlanSteps
<1>3. Note(p) \in PlanSteps
  <2>1. Note(p) \in NoteSteps
    BY DEF Note, NoteSteps
  <2>. QED BY <2>1 DEF PlanSteps
<1>. QED BY <1>1, <1>2, <1>3 DEF MovePlan

LEMMA StepperPlanType ==
  ASSUME NEW d \in Drives, NEW n, Gear[d] * n \in Steps
  PROVE  StepperPlan(d, n) \in Seq(PlanSteps)
<1>1. StepN(d, n) \in PlanSteps
  BY StepNType
<1>. QED BY <1>1, DriveStepsType DEF StepperPlan

LEMMA HomePlanType == HomePlan \in Seq(PlanSteps)
<1>1. ASSUME NEW d \in Drives PROVE Gear[d] * 0 \in Steps
  BY GearAssumption, PoseAssumption
<1>. QED BY <1>1, StepperPlanType, MotorsAreDrives DEF HomePlan

LEMMA ScanPlanType == ScanPlan \in Seq(PlanSteps)
<1>1. ASSUME NEW d \in Drives
      PROVE  /\ Run(d, "scan_jog_action") \in PlanSteps
             /\ Run(d, "stop_motion") \in PlanSteps
             /\ Ask(d) \in PlanSteps
  BY DriveStepsType
<1>2. Sight \in PlanSteps /\ Locate \in PlanSteps
  BY BareStepsType
<1>. QED BY <1>1, <1>2, MotorsAreDrives DEF ScanPlan

LEMMA EndPlansType ==
  /\ EdgeEnd \in Seq(PlanSteps)
  /\ SweepFound \in Seq(PlanSteps)
  /\ SweepMissed \in Seq(PlanSteps)
<1>1. /\ Ask(Base) \in PlanSteps /\ Ask(Elbow) \in PlanSteps
      /\ Locate \in PlanSteps /\ Aim \in PlanSteps /\ Fault \in PlanSteps
  BY MotorsAreDrives, DriveStepsType, BareStepsType
<1>2. EdgeEnd \in Seq(PlanSteps)
  BY <1>1 DEF EdgeEnd
<1>3. <<Aim>> \in Seq(PlanSteps) /\ <<Fault>> \in Seq(PlanSteps)
  BY <1>1
<1>. QED BY <1>2, <1>3 DEF SweepFound, SweepMissed

LEMMA RasterType ==
  ASSUME NEW i \in 0..Rows, NEW at \in Reach, NEW way \in {"down", "up"},
         way = "down" => i < Rows
  PROVE  Raster(i, at, way) \in PlanSteps
<1>1. CASE way = "down"
  <2>1. i \in 0..Rows - 1
    BY <1>1, SweepAssumption
  <2>2. Raster(i, at, way) \in RasterSteps
    BY <1>1, <2>1 DEF Raster, RasterSteps
  <2>. QED BY <2>2 DEF PlanSteps
<1>2. CASE way = "up"
  <2>1. Raster(i, at, way) \in RasterSteps
    BY <1>2 DEF Raster, RasterSteps
  <2>. QED BY <2>1 DEF PlanSteps
<1>. QED BY <1>1, <1>2

\* A row of the sweep asks for steps that callers may ask for.
LEMMA RowType ==
  ASSUME NEW i \in 0..Rows, NEW at \in Reach, NEW way \in {"down", "up"},
         way = "down" => i < Rows, steps[Elbow] \in ElbowSteps
  PROVE  Row(i, at, way) \in Seq(PlanSteps)
<1>1. Gear[Elbow] * RowSteps(i, steps[Elbow]) \in Steps
  BY SweepAssumption
<1>2. StepperPlan(Elbow, RowSteps(i, steps[Elbow])) \in Seq(PlanSteps)
  BY <1>1, StepperPlanType, MotorsAreDrives
<1>3. <<Raster(i, at, way)>> \in Seq(PlanSteps)
  BY RasterType
<1>. QED BY <1>2, <1>3 DEF Row

LEMMA DeltaBounds == Field \in Nat /\ Delta \in Nat \ {0} /\ Field \in Reach
<1>1. Field \in Nat /\ Arcs \in Nat \ {0} /\ Arcs <= Field
  BY SweepAssumption
<1>2. Delta \in Nat \ {0}
  BY <1>1 DEF Delta
<1>. QED BY <1>1, <1>2 DEF Reach

LEMMA SweepPlanType ==
  ASSUME steps[Elbow] \in ElbowSteps
  PROVE  SweepPlan \in Seq(PlanSteps)
<1>1. StepperPlan(Base, Field) \in Seq(PlanSteps)
  BY DeltaBounds, SweepAssumption, StepperPlanType, MotorsAreDrives
<1>2. Row(0, Field, "down") \in Seq(PlanSteps)
  <2>1. 0 \in 0..Rows /\ 0 < Rows
    BY SweepAssumption
  <2>. QED BY <2>1, DeltaBounds, RowType
<1>. DEFINE start == HomePlan \o StepperPlan(Base, Field)
            first == Row(0, Field, "down")
<1>3. start \in Seq(PlanSteps) /\ first \in Seq(PlanSteps)
  BY <1>1, <1>2, HomePlanType
<1>4. SweepPlan = start \o first
  BY DEF SweepPlan
<1>. HIDE DEF start, first
<1>. QED BY <1>3, <1>4

-----------------------------------------------------------------------------
(* Each step of the arm is a step of the drivers, or leaves them alone *)

LEMMA ArmStepIsDriverStep ==
  ASSUME ArmTypeOK, [ArmNext]_allVars
  PROVE  [Next]_vars
<1>1. CASE UNCHANGED allVars
  BY <1>1 DEF allVars
<1>2. CASE Commands
  BY <1>2 DEF Commands, MoveTo, Home, Scan, Directed, Sweep, ToPattern, ToTarget,
              Console
<1>3. CASE StartUp
  BY <1>3 DEF StartUp, Next, Caller
<1>4. CASE RunStep
  <2>. DEFINE s == Head(plan)
  <2>1. plan # <<>> /\ s.do = "run" /\ RunAction(s.drive, s.key, s.n)
    BY <1>4 DEF RunStep, At
  <2>2. s \in PlanSteps
    BY <2>1 DEF ArmTypeOK
  <2>3. /\ s.drive \in Drives
        /\ \/ s.key = "single_motion_var" /\ s.n \in Steps
           \/ s.key \in {"stop_motion", "scan_jog_action"} /\ s.n = 0
    BY <2>1, <2>2, StepKind DEF RunSteps
  <2>. QED BY <2>1, <2>3 DEF Next, Caller
<1>5. CASE AskStep
  <2>. DEFINE s == Head(plan)
  <2>1. plan # <<>> /\ s.do = "ask" /\ CurrentRotation(s.drive)
    BY <1>5 DEF AskStep, At
  <2>2. s \in PlanSteps
    BY <2>1 DEF ArmTypeOK
  <2>3. s.drive \in Drives
    BY <2>1, <2>2, StepKind DEF AskSteps
  <2>. QED BY <2>1, <2>3 DEF Next, Caller
<1>6. CASE BeginRound \/ Look \/ EndWait \/ NoteStep \/ LocateStep \/ AimStep
             \/ CellStep \/ EdgeStep \/ Column \/ NextRow
             \/ SightStep \/ FaultStep
  BY <1>6 DEF BeginRound, Look, EndWait, NoteStep, LocateStep, AimStep, CellStep,
              EdgeStep, Column, NextRow, SightStep, FaultStep, GoTo
<1>7. CASE CheckNext
  <2>1. round # <<>> /\ Head(round) # Camera /\ CheckStatus(Head(round))
    BY <1>7 DEF CheckNext
  <2>2. Head(round) \in Drives
    BY <2>1 DEF ArmTypeOK
  <2>. QED BY <2>1, <2>2 DEF Next, Caller
<1>8. CASE ReturnToPlan
  BY <1>8 DEF ReturnToPlan, Next, Engine
<1>9. CASE (NextMacro \/ RunCommand \/ ReadLine \/ PollEmpty)
             /\ UNCHANGED armVars
  BY <1>9 DEF Next, Engine
<1>10. CASE External /\ UNCHANGED armVars
  BY <1>10 DEF Next
<1>. QED
  BY <1>1, <1>2, <1>3, <1>4, <1>5, <1>6, <1>7, <1>8, <1>9, <1>10
     DEF ArmNext, Main

-----------------------------------------------------------------------------
(* Types *)

\* The variables of the command in progress, without those of MotorDriver.
CommandTypeOK ==
  /\ command \in {None, "move", "home", "scan", "directed", "sweep", "pattern",
                  "target"}
  /\ plan \in Seq(PlanSteps)
  /\ round \in Seq(Drives \union {Camera})
  /\ in_motion \in BOOLEAN
  /\ steps \in [Drives -> Int] /\ steps[Elbow] \in ElbowSteps
  /\ believed \in Places \union {Nowhere}

LEMMA ArmTypeInit == ArmInit => ArmTypeOK
<1>1. ArmInit => steps \in [Drives -> Int] /\ steps[Elbow] \in ElbowSteps
  BY StartAssumption, MotorsAreDrives DEF ArmInit, ElbowSteps
<1>. QED BY <1>1, TypeInit DEF ArmInit, ArmTypeOK

\* move_by_command, and what comes after it.
LEMMA GoToType ==
  ASSUME CommandTypeOK, NEW p \in Places, NEW rest \in Seq(PlanSteps),
         GoTo(p, rest)
  PROVE  CommandTypeOK'
<1>1. plan' \in Seq(PlanSteps)
  BY MovePlanType DEF GoTo
<1>2. steps' \in [Drives -> Int] /\ steps'[Elbow] \in ElbowSteps
  BY PoseAssumption DEF GoTo, ElbowSteps
<1>. QED BY <1>1, <1>2 DEF GoTo, CommandTypeOK

LEMMA CommandTypeNext ==
  ASSUME CommandTypeOK, [ArmNext]_allVars
  PROVE  CommandTypeOK'
<1>. USE DEF CommandTypeOK
<1>1. CASE UNCHANGED armVars
  BY <1>1 DEF armVars
<1>2. CASE Commands
  <2>1. ASSUME NEW p \in Places, MoveTo(p) PROVE CommandTypeOK'
    <3>1. Pose[p] \in [Drives -> Int] /\ Pose[p][Elbow] \in ElbowSteps
      BY PoseAssumption DEF ElbowSteps
    <3>. QED BY <2>1, <3>1, MovePlanType DEF MoveTo, Console
  <2>2. CASE Home
    BY <2>2, HomePlanType DEF Home, Console
  <2>3. CASE Scan
    BY <2>3, ScanPlanType DEF Scan, Console
  <2>4. CASE Directed \/ ToPattern \/ ToTarget
    <3>1. Edge(1) \in PlanSteps
      BY DEF Edge, EdgeSteps, PlanSteps
    <3>2. /\ <<Edge(1)>> \in Seq(PlanSteps) /\ <<Cell>> \in Seq(PlanSteps)
          /\ <<Aim>> \in Seq(PlanSteps) /\ <<Sight, Aim>> \in Seq(PlanSteps)
      BY <3>1, BareStepsType
    <3>. QED BY <2>4, <3>2 DEF Directed, ToPattern, ToTarget, Console
  <2>5. CASE Sweep
    BY <2>5, SweepPlanType DEF Sweep, Console
  <2>. QED BY <1>2, <2>1, <2>2, <2>3, <2>4, <2>5 DEF Commands
<1>3. ASSUME plan # <<>>
      PROVE  Tail(plan) \in Seq(PlanSteps) /\ Head(plan) \in PlanSteps
  BY <1>3
<1>4. CASE RunStep \/ AskStep \/ SightStep
  BY <1>3, <1>4 DEF RunStep, AskStep, SightStep, At, Done
<1>5. CASE BeginRound
  <2>. DEFINE s == Head(plan)
  <2>1. s \in PlanSteps
    BY <1>3, <1>5 DEF BeginRound, At
  <2>2. CASE At("wait") /\ round' = s.drives
    <3>1. s.drives \in Seq(Drives)
      BY <2>1, <2>2, StepKind DEF At, WaitSteps
    <3>2. round' \in Seq(Drives \union {Camera})
      BY <2>2, <3>1
    <3>. QED BY <1>5, <3>2 DEF BeginRound
  <2>3. CASE At("watch") /\ round' = <<s.drive, Camera>>
    <3>1. s.drive \in Drives
      BY <2>1, <2>3, StepKind DEF At, WatchSteps
    <3>2. round' \in Seq(Drives \union {Camera})
      BY <2>3, <3>1
    <3>. QED BY <1>5, <3>2 DEF BeginRound
  <2>. QED BY <1>5, <2>2, <2>3 DEF BeginRound
<1>6. CASE CheckNext
  BY <1>6 DEF CheckNext
<1>11. CASE Look
  <2>1. <<Run(Base, "stop_motion")>> \in Seq(PlanSteps)
    <3>1. Run(Base, "stop_motion") \in PlanSteps
      BY MotorsAreDrives, DriveStepsType
    <3>. QED BY <3>1
  <2>2. round' \in Seq(Drives \union {Camera})
    BY <1>11 DEF Look
  <2>3. plan' \in Seq(PlanSteps) /\ in_motion' \in BOOLEAN
    <3>1. CASE UNCHANGED <<plan, in_motion>>
      BY <3>1
    <3>. DEFINE stop == IF in_motion THEN <<Run(Base, "stop_motion")>> ELSE <<>>
                end == IF command = "sweep" THEN SweepFound ELSE EdgeEnd
    <3>2. stop \in Seq(PlanSteps) /\ end \in Seq(PlanSteps)
      BY <2>1, EndPlansType
    <3>3. CASE plan' = stop \o end /\ in_motion' = TRUE
      <4>. HIDE DEF stop, end
      <4>. QED BY <3>2, <3>3
    <3>. QED BY <1>11, <3>1, <3>3 DEF Look
  <2>. QED BY <1>11, <2>2, <2>3 DEF Look
<1>7. CASE ReturnToPlan
  BY <1>7 DEF ReturnToPlan, Judged
<1>8. CASE EndWait
  BY <1>3, <1>8 DEF EndWait, At, Done
<1>9. CASE NoteStep
  <2>. DEFINE s == Head(plan)
  <2>1. s \in PlanSteps /\ s.do = "note"
    BY <1>3, <1>9 DEF NoteStep, At
  <2>2. s.place \in Places
    BY <2>1, StepKind DEF NoteSteps
  <2>. QED BY <1>3, <1>9, <2>2 DEF NoteStep, At, Done
<1>10. CASE LocateStep \/ AimStep
  BY <1>3, <1>10, GoToType DEF LocateStep, AimStep, At
<1>12. CASE CellStep
  BY <1>12, GoToType DEF CellStep
<1>13. CASE FaultStep
  <2>1. <<Aim>> \in Seq(PlanSteps)
    BY BareStepsType
  <2>. QED BY <1>13, <2>1 DEF FaultStep
<1>14. CASE EdgeStep
  <2>. DEFINE i == Head(plan).i
              rest == <<StepN(Base, HalfTurn), Watch(Base), Edge(i + 1)>>
  <2>1. i \in Nat
    BY <1>3, <1>14, StepKind DEF EdgeStep, At, EdgeSteps
  <2>2. rest \in Seq(PlanSteps)
    <3>1. StepN(Base, HalfTurn) \in PlanSteps
      BY StepNType, SweepAssumption, MotorsAreDrives
    <3>2. Watch(Base) \in PlanSteps
      BY DriveStepsType, MotorsAreDrives
    <3>3. Edge(i + 1) \in PlanSteps
      BY <2>1 DEF Edge, EdgeSteps, PlanSteps
    <3>. QED BY <3>1, <3>2, <3>3
  <2>3. CASE i \in DOMAIN Edges
    <3>1. Edges[i] \in Places
      BY <2>3, EdgesAssumption
    <3>2. GoTo(Edges[i], rest)
      BY <1>14, <2>3 DEF EdgeStep
    <3>. HIDE DEF rest
    <3>. QED BY <2>2, <3>1, <3>2, GoToType
  <2>4. CASE i \notin DOMAIN Edges
    BY <1>14, <2>4, EndPlansType DEF EdgeStep
  <2>. QED BY <2>3, <2>4
<1>15. ASSUME At("raster")
       PROVE  /\ Head(plan).row \in 0..Rows /\ Head(plan).at \in Reach
              /\ Head(plan).way \in {"down", "up"}
              /\ Head(plan).way = "down" => Head(plan).row < Rows
  <2>1. Head(plan) \in RasterSteps
    BY <1>3, <1>15, StepKind DEF At
  <2>. QED BY <2>1, SweepAssumption DEF RasterSteps
<1>16. CASE Column
  <2>. DEFINE r == Head(plan)
              at == IF r.way = "down" THEN r.at - Delta ELSE r.at + Delta
  <2>1. /\ ~RowDone(r)
        /\ plan' = <<StepN(Base, at), Watch(Base), Raster(r.row, at, r.way)>>
        /\ UNCHANGED <<vars, command, round, in_motion, steps, believed>>
    BY <1>16 DEF Column
  <2>2. at \in Reach
    BY <1>15, <1>16, <2>1, DeltaBounds DEF Column, Reach, RowDone
  <2>3. StepN(Base, at) \in PlanSteps
    BY <2>2, StepNType, SweepAssumption, MotorsAreDrives
  <2>4. Watch(Base) \in PlanSteps
    BY MotorsAreDrives, DriveStepsType
  <2>5. Raster(r.row, at, r.way) \in PlanSteps
    BY <1>15, <1>16, <2>2, RasterType DEF Column
  <2>6. plan' \in Seq(PlanSteps)
    <3>. HIDE DEF at
    <3>. QED BY <2>1, <2>3, <2>4, <2>5
  <2>. QED BY <2>1, <2>6
<1>17. CASE NextRow
  <2>. DEFINE r == Head(plan)
  <2>1. /\ plan' = CASE r.way = "down" -> Row(r.row + 1, r.at, "up")
                     [] r.way = "up" /\ r.row + 1 < Rows -> Row(r.row + 1, r.at, "down")
                     [] OTHER -> SweepMissed
        /\ UNCHANGED <<vars, command, round, in_motion, steps, believed>>
    BY <1>17 DEF NextRow
  <2>2. /\ r.row \in 0..Rows /\ r.at \in Reach /\ r.way \in {"down", "up"}
        /\ r.way = "down" => r.row < Rows
    BY <1>15, <1>17 DEF NextRow
  <2>3. CASE r.way = "down"
    <3>1. r.row + 1 \in 0..Rows
      BY <2>2, <2>3, SweepAssumption
    <3>2. Row(r.row + 1, r.at, "up") \in Seq(PlanSteps)
      BY <2>2, <3>1, RowType
    <3>. QED BY <2>1, <2>3, <3>2
  <2>4. CASE r.way = "up" /\ r.row + 1 < Rows
    <3>1. r.row + 1 \in 0..Rows
      BY <2>2, <2>4, SweepAssumption
    <3>2. Row(r.row + 1, r.at, "down") \in Seq(PlanSteps)
      BY <2>2, <2>4, <3>1, RowType
    <3>. QED BY <2>1, <2>4, <3>2
  <2>5. CASE r.way = "up" /\ ~(r.row + 1 < Rows)
    BY <2>1, <2>5, EndPlansType
  <2>. QED BY <2>2, <2>3, <2>4, <2>5
<1>. QED
  BY <1>1, <1>2, <1>4, <1>5, <1>6, <1>7, <1>8, <1>9, <1>10, <1>11, <1>12, <1>13,
     <1>14, <1>16, <1>17
     DEF ArmNext, Main, StartUp, allVars

LEMMA ArmTypeNext == ArmTypeOK /\ [ArmNext]_allVars => ArmTypeOK'
<1>1. ArmTypeOK <=> TypeOK /\ CommandTypeOK
  BY DEF ArmTypeOK, CommandTypeOK
<1>2. ArmTypeOK' <=> TypeOK' /\ CommandTypeOK'
  BY DEF ArmTypeOK, CommandTypeOK
<1>. QED BY <1>1, <1>2, TypeNext, ArmStepIsDriverStep, CommandTypeNext

\* The variables of the arm keep their types: plans are made of steps of the
\* kinds listed, for the two motors, with step counts callers may ask for.
THEOREM ArmTypeCorrect == ArmSpec => []ArmTypeOK
  BY ArmTypeInit, ArmTypeNext, PTL DEF ArmSpec

-----------------------------------------------------------------------------
(* Refinement *)

\* Every command of the console uses the drivers through the calls of
\* MotorDriver, one at a time.
THEOREM ArmImplementsDriver == ArmSpec => DriverSpec
<1>1. ArmInit => Init
  BY DEF ArmInit
<1>2. ArmTypeOK /\ [ArmNext]_allVars => [Next]_vars
  BY ArmStepIsDriverStep
<1>. QED
  BY <1>1, <1>2, ArmTypeCorrect, PTL DEF ArmSpec, DriverSpec

\* So with prompt answers the invariant of the serial line holds of the arm.
THEOREM ArmPromptInvariant ==
  ASSUME Prompt, ~Simulation
  PROVE  ArmSpec => []PromptInv
<1>1. DriverSpec => Spec
  BY DEF DriverSpec, Spec
<1>. QED BY <1>1, ArmImplementsDriver, PromptInvariant, PTL

-----------------------------------------------------------------------------
(* Lists of commands *)

\* A list of one element.
LEMMA Single ==
  ASSUME NEW S, NEW x \in S
  PROVE  /\ <<x>> \in Seq(S) /\ <<x>> # <<>> /\ Len(<<x>>) = 1
         /\ Head(<<x>>) = x /\ Tail(<<x>>) = <<>>
OBVIOUS

LEMMA OpsKinds ==
  /\ Stopping \intersect Moving = {} /\ Stopping \subseteq Steering
  /\ Moving \subseteq Steering /\ "FP" \in Moving
  /\ {"SP", "SC"} \intersect Steering = {}
BY DEF Stopping, Moving, Steering

\* Nothing left to execute changes nothing.
LEMMA EmptyList ==
  /\ Calm(<<>>) /\ Neutral(<<>>)
  /\ ~Stops(<<>>)
  /\ \A n : ~Feeds(<<>>, n)
BY DEF Calm, Neutral, Stops, Feeds

LEMMA NeutralCalm ==
  ASSUME NEW s, Neutral(s)
  PROVE  Calm(s)
BY OpsKinds DEF Neutral, Calm

\* What a list does is done by its first command or by the others.
LEMMA Unfolded ==
  ASSUME NEW s \in Seq(Command), s # <<>>
  PROVE  /\ Calm(s) <=> Head(s).op \notin Moving /\ Calm(Tail(s))
         /\ Neutral(s) <=> Head(s).op \notin Steering /\ Neutral(Tail(s))
         /\ Stops(s) <=> \/ Stops(Tail(s))
                         \/ Head(s).op \in Stopping /\ Calm(Tail(s))
         /\ \A n : Feeds(s, n) <=>
              \/ Feeds(Tail(s), n)
              \/ Head(s).op = "FP" /\ Head(s).steps = n /\ Neutral(Tail(s))
<1>. DEFINE t == Tail(s)
<1>1. /\ t \in Seq(Command) /\ Len(s) \in Nat /\ Len(s) >= 1
      /\ Len(t) = Len(s) - 1 /\ Head(s) = s[1]
      /\ DOMAIN s = 1..Len(s) /\ DOMAIN t = 1..Len(t)
  OBVIOUS
<1>2. \A i \in DOMAIN t : i + 1 \in DOMAIN s /\ t[i] = s[i + 1]
  OBVIOUS
<1>3. \A i \in DOMAIN s : i # 1 => i - 1 \in DOMAIN t /\ s[i] = t[i - 1]
  <2>1. ASSUME NEW i \in DOMAIN s, i # 1
        PROVE  i - 1 \in DOMAIN t
    BY <1>1, <2>1
  <2>2. ASSUME NEW i \in DOMAIN s, i # 1
        PROVE  s[i] = t[i - 1]
    <3>1. i - 1 \in DOMAIN t /\ (i - 1) + 1 = i
      BY <1>1, <2>1, <2>2
    <3>. QED BY <1>2, <3>1
  <2>. QED BY <2>1, <2>2
<1>4. 1 \in DOMAIN s
  BY <1>1
<1>. HIDE DEF t
<1>5. Calm(s) <=> Head(s).op \notin Moving /\ Calm(t)
  BY <1>1, <1>2, <1>3, <1>4 DEF Calm
<1>6. Neutral(s) <=> Head(s).op \notin Steering /\ Neutral(t)
  BY <1>1, <1>2, <1>3, <1>4 DEF Neutral
<1>7. ASSUME NEW i \in 1..Len(t), NEW Q, 
      \A j \in i + 1..Len(t) : t[j].op \notin Q
      PROVE \A j \in i + 2..Len(s) : s[j].op \notin Q
  <2>. TAKE j \in i + 2..Len(s)
  <2>1. j \in DOMAIN s /\ j # 1 /\ j - 1 \in i + 1..Len(t)
    BY <1>1
  <2>2. s[j] = t[j - 1]
    BY <1>3, <2>1
  <2>. QED BY <1>7, <2>1, <2>2
<1>8. ASSUME NEW i \in 1..Len(s), NEW Q, i # 1,
      \A j \in i + 1..Len(s) : s[j].op \notin Q
      PROVE \A j \in i..Len(t) : t[j].op \notin Q
  <2>. TAKE j \in i..Len(t)
  <2>1. j \in DOMAIN t /\ j + 1 \in i + 1..Len(s) /\ t[j] = s[j + 1]
    BY <1>1, <1>2
  <2>. QED BY <1>8, <2>1
<1>9. ASSUME NEW Q
      PROVE (\A j \in 1 + 1..Len(s) : s[j].op \notin Q) <=> (\A j \in DOMAIN t : t[j].op \notin Q)
  BY <1>1, <1>2, <1>3
<1>10. Stops(s) <=> Stops(t) \/ (Head(s).op \in Stopping /\ Calm(t))
  <2>1. ASSUME Stops(s) PROVE Stops(t) \/ (Head(s).op \in Stopping /\ Calm(t))
    <3>1. PICK i \in 1..Len(s) : /\ s[i].op \in Stopping
                      /\ \A j \in i + 1..Len(s) : s[j].op \notin Moving
      BY <1>1, <2>1 DEF Stops
    <3>2. CASE i = 1
      BY <1>1, <1>9, <3>1, <3>2 DEF Calm
    <3>3. CASE i # 1
      <4>. DEFINE k == i - 1
      <4>1. k \in DOMAIN t /\ s[i] = t[k] /\ k + 1 = i
        BY <1>1, <1>3, <3>3
      <4>2. \A j \in k + 1..Len(t) : t[j].op \notin Moving
        BY <1>8, <3>1, <3>3, <4>1
      <4>. HIDE DEF k
      <4>. QED BY <3>1, <4>1, <4>2 DEF Stops
    <3>. QED BY <3>2, <3>3
  <2>2. ASSUME Stops(t) PROVE Stops(s)
    <3>1. PICK i \in 1..Len(t) : /\ t[i].op \in Stopping
                      /\ \A j \in i + 1..Len(t) : t[j].op \notin Moving
      BY <1>1, <2>2 DEF Stops
    <3>. DEFINE k == i + 1
    <3>2. k \in DOMAIN s /\ s[k] = t[i] /\ k + 1 = i + 2
      BY <1>1, <1>2
    <3>3. \A j \in k + 1..Len(s) : s[j].op \notin Moving
      BY <1>7, <3>1, <3>2
    <3>. HIDE DEF k
    <3>. QED BY <3>1, <3>2, <3>3 DEF Stops
  <2>3. ASSUME Head(s).op \in Stopping, Calm(t) PROVE Stops(s)
    BY <1>1, <1>4, <1>9, <2>3 DEF Stops, Calm
  <2>. QED BY <2>1, <2>2, <2>3
<1>11. ASSUME NEW n
       PROVE  Feeds(s, n) <=>
                Feeds(t, n) \/ (Head(s).op = "FP" /\ Head(s).steps = n /\ Neutral(t))
  <2>1. ASSUME Feeds(s, n)
        PROVE  Feeds(t, n) \/ (Head(s).op = "FP" /\ Head(s).steps = n /\ Neutral(t))
    <3>1. PICK i \in 1..Len(s) : /\ s[i].op = "FP" /\ s[i].steps = n
                      /\ \A j \in i + 1..Len(s) : s[j].op \notin Steering
      BY <1>1, <2>1 DEF Feeds
    <3>2. CASE i = 1
      BY <1>1, <1>9, <3>1, <3>2 DEF Neutral
    <3>3. CASE i # 1
      <4>. DEFINE k == i - 1
      <4>1. k \in DOMAIN t /\ s[i] = t[k] /\ k + 1 = i
        BY <1>1, <1>3, <3>3
      <4>2. \A j \in k + 1..Len(t) : t[j].op \notin Steering
        BY <1>8, <3>1, <3>3, <4>1
      <4>. HIDE DEF k
      <4>. QED BY <3>1, <4>1, <4>2 DEF Feeds
    <3>. QED BY <3>2, <3>3
  <2>2. ASSUME Feeds(t, n) PROVE Feeds(s, n)
    <3>1. PICK i \in 1..Len(t) : /\ t[i].op = "FP" /\ t[i].steps = n
                      /\ \A j \in i + 1..Len(t) : t[j].op \notin Steering
      BY <1>1, <2>2 DEF Feeds
    <3>. DEFINE k == i + 1
    <3>2. k \in DOMAIN s /\ s[k] = t[i] /\ k + 1 = i + 2
      BY <1>1, <1>2
    <3>3. \A j \in k + 1..Len(s) : s[j].op \notin Steering
      BY <1>7, <3>1, <3>2
    <3>. HIDE DEF k
    <3>. QED BY <3>1, <3>2, <3>3 DEF Feeds
  <2>3. ASSUME Head(s).op = "FP", Head(s).steps = n, Neutral(t) PROVE Feeds(s, n)
    BY <1>1, <1>4, <1>9, <2>3 DEF Feeds, Neutral
  <2>. QED BY <2>1, <2>2, <2>3
<1>. QED BY <1>5, <1>6, <1>10, <1>11 DEF t

\* A list of one command does what the command does.
LEMMA OneCommand ==
  ASSUME NEW s \in Seq(Command), s # <<>>, Tail(s) = <<>>
  PROVE  /\ Stops(s) <=> Head(s).op \in Stopping
         /\ \A n : Feeds(s, n) <=> Head(s).op = "FP" /\ Head(s).steps = n
<1>1. Stops(s) <=> \/ Stops(Tail(s))
                   \/ Head(s).op \in Stopping /\ Calm(Tail(s))
  BY Unfolded
<1>2. \A n : Feeds(s, n) <=>
              \/ Feeds(Tail(s), n)
              \/ Head(s).op = "FP" /\ Head(s).steps = n /\ Neutral(Tail(s))
  BY Unfolded
<1>. QED BY <1>1, <1>2, EmptyList

-----------------------------------------------------------------------------
(* What a step does to a drive that it does not send anywhere *)

\* Nothing, or the drive moves on ...
Stays(d) ==
  /\ todo'[d] = todo[d] /\ inbox'[d] = inbox[d] /\ goal'[d] = goal[d]
  /\ AtRest(d) => pos'[d] = pos[d]

\* ... or a query is added to its list, or a macro of the start-up ...
Listed(d) ==
  /\ todo[d] = <<>> /\ Calm(todo'[d])
  /\ command # None => Neutral(todo'[d])
  /\ inbox'[d] = inbox[d] /\ goal'[d] = goal[d] /\ pos'[d] = pos[d]

\* ... or a command is taken from the list and written ...
Written(d) ==
  /\ todo[d] # <<>> /\ inbox[d] = <<>>
  /\ todo'[d] = Tail(todo[d]) /\ inbox'[d] = <<Head(todo[d])>>
  /\ goal'[d] = goal[d] /\ pos'[d] = pos[d]

\* ... or executed.
Executed(d) ==
  /\ inbox[d] # <<>> /\ Tail(inbox[d]) = <<>> /\ inbox'[d] = <<>>
  /\ todo'[d] = todo[d]
  /\ goal'[d] = GoalAfter(d, Head(inbox[d]))
  /\ pos'[d] = PosAfter(d, Head(inbox[d]))

Effect(d) == Stays(d) \/ Listed(d) \/ Written(d) \/ Executed(d)

\* Between two calls no command is left anywhere.
LEMMA QuietLists ==
  ASSUME PromptInv, call = None, NEW d \in Drives
  PROVE  todo[d] = <<>> /\ inbox[d] = <<>>
<1>1. todo[d] = <<>>
  BY DEF PromptInv, CallInv
<1>2. pc = "lines"
  BY DEF PromptInv, TypeOK
<1>. QED BY <1>1, <1>2 DEF PromptInv, ExchangeInv, Outstanding

LEMMA StatusLineNeutral == Neutral(StatusLine)
  BY OpsKinds DEF Neutral, StatusLine

LEMMA RotationLineNeutral ==
  ASSUME NEW d \in Drives
  PROVE  Neutral(Filled(d, "rotation_query", 0))
<1>1. Filled(d, "rotation_query", 0) = <<[op |-> "SP", steps |-> 0]>>
  BY RotationLine
<1>2. Neutral(<<[op |-> "SP", steps |-> 0]>>)
  BY OpsKinds DEF Neutral
<1>. QED BY <1>1, <1>2

\* The macros of the start-up do not set a drive in motion.
LEMMA StartUpCalm ==
  ASSUME NEW d \in Drives,
         NEW key \in {"read_power_up", "set_run_parameters", "read_reset"}
  PROVE  Calm(Filled(d, key, 0))
BY MotionMacroAssumption DEF Calm, Filled

\* A feed leaves the drive bound for where it is sent, a stop brings it to rest.
LEMMA MotionMacros ==
  ASSUME NEW d \in Drives, NEW n \in Int
  PROVE  /\ Feeds(Filled(d, "single_motion_var", n), n)
         /\ Stops(Filled(d, "stop_motion", n))
<1>. DEFINE run == Macro[d]["single_motion_var"]
            stop == Macro[d]["stop_motion"]
            fed == Filled(d, "single_motion_var", n)
            still == Filled(d, "stop_motion", n)
<1>1. run \in Seq(Ops) /\ stop \in Seq(Ops)
  BY MacroAssumption DEF Keys
<1>2. /\ DOMAIN fed = DOMAIN run /\ Len(fed) = Len(run)
      /\ \A i \in DOMAIN run : fed[i].op = run[i] /\ (run[i] = "FP" => fed[i].steps = n)
  <2>1. fed \in Seq(Command)
    BY FilledType DEF Keys
  <2>2. DOMAIN fed = DOMAIN run
    BY DEF Filled
  <2>3. Len(fed) = Len(run)
    BY <1>1, <2>1, <2>2, LenProperties
  <2>. QED BY <2>2, <2>3 DEF Filled
<1>3. /\ DOMAIN still = DOMAIN stop /\ Len(still) = Len(stop)
      /\ \A i \in DOMAIN stop : still[i].op = stop[i]
  <2>1. still \in Seq(Command)
    BY FilledType DEF Keys
  <2>2. DOMAIN still = DOMAIN stop
    BY DEF Filled
  <2>3. Len(still) = Len(stop)
    BY <1>1, <2>1, <2>2, LenProperties
  <2>. QED BY <2>2, <2>3 DEF Filled
<1>4. /\ DOMAIN run = 1..Len(run) /\ DOMAIN stop = 1..Len(stop)
      /\ Len(run) \in Nat /\ Len(stop) \in Nat
  BY <1>1
<1>5. PICK i \in DOMAIN run :
        run[i] = "FP" /\ \A j \in i + 1..Len(run) : run[j] \notin Steering
  BY MotionMacroAssumption
<1>6. PICK k \in DOMAIN stop :
        stop[k] \in Stopping /\ \A j \in k + 1..Len(stop) : stop[j] \notin Moving
  BY MotionMacroAssumption
<1>. HIDE DEF run, stop, fed, still
<1>7. Feeds(fed, n)
  <2>1. \A j \in i + 1..Len(fed) : j \in DOMAIN run /\ fed[j].op \notin Steering
    BY <1>2, <1>4, <1>5
  <2>. QED BY <1>2, <1>5, <2>1 DEF Feeds
<1>8. Stops(still)
  <2>1. \A j \in k + 1..Len(still) : j \in DOMAIN stop /\ still[j].op \notin Moving
    BY <1>3, <1>4, <1>6
  <2>. QED BY <1>3, <1>6, <2>1 DEF Stops
<1>. QED BY <1>7, <1>8 DEF fed, still

\* A call adds its commands to the empty list of its drive.
LEMMA BeginEffect ==
  ASSUME PromptInv, NEW d \in Drives, NEW e \in Drives,
         NEW fn, NEW left, NEW lines \in Seq(Command),
         Begin(fn, e, left, lines), UNCHANGED <<line, drives>>,
         Calm(lines), command # None => Neutral(lines)
  PROVE  Effect(d)
<1>. USE DEF line, drives
<1>1. todo[e] = <<>>
  BY DEF Begin, PromptInv, CallInv
<1>2. todo[e] \o lines = lines
  BY <1>1, ConcatEmptySeq
<1>3. CASE d = e
  <2>1. todo'[d] = lines
    BY <1>2, <1>3 DEF Begin, PromptInv, TypeOK
  <2>. QED BY <1>1, <1>3, <2>1 DEF Effect, Listed
<1>4. CASE d # e
  BY <1>4 DEF Begin, PromptInv, TypeOK, Effect, Stays
<1>. QED BY <1>3, <1>4

LEMMA DriveEffect ==
  ASSUME Prompt, ~Simulation, PromptInv, ArmTypeOK, DutyInv, [ArmNext]_allVars,
         NEW d \in Drives, ~(RunStep /\ Head(plan).drive = d)
  PROVE  Effect(d)
<1>. USE DEF host, objects, line, drives
<1>1. CASE UNCHANGED vars
  BY <1>1 DEF vars, Effect, Stays
<1>2. ASSUME NEW e \in Drives, ProcessParameters(e) PROVE Effect(d)
  <2>1. command = None
    BY <1>2 DEF ProcessParameters, DutyInv
  <2>2. /\ Filled(e, "read_power_up", 0) \in Seq(Command)
        /\ Calm(Filled(e, "read_power_up", 0))
    BY FilledType, StartUpCalm DEF Keys
  <2>. QED BY <1>2, <2>1, <2>2, BeginEffect DEF ProcessParameters
<1>3. CASE RunStep
  <2>. DEFINE s == Head(plan)
              lines == Filled(s.drive, s.key, s.n)
  <2>1. s \in RunSteps
    BY <1>3, StepKind DEF RunStep, At, ArmTypeOK
  <2>2. s.drive \in Drives /\ s.drive # d
    BY <1>3, <2>1 DEF RunSteps
  <2>3. todo' = [todo EXCEPT ![s.drive] = @ \o lines] /\ UNCHANGED <<inbox, pos, goal>>
    BY <1>3 DEF RunStep, RunAction, Begin
  <2>4. todo'[d] = todo[d]
    BY <2>2, <2>3 DEF PromptInv, TypeOK
  <2>. QED BY <2>3, <2>4 DEF Effect, Stays
<1>4. CASE AskStep
  <2>. DEFINE e == Head(plan).drive
  <2>1. e \in Drives
    BY <1>4, StepKind DEF AskStep, At, ArmTypeOK, AskSteps
  <2>2. CurrentRotation(e)
    BY <1>4 DEF AskStep
  <2>. HIDE DEF e
  <2>3. /\ Filled(e, "rotation_query", 0) \in Seq(Command)
        /\ Neutral(Filled(e, "rotation_query", 0))
        /\ Calm(Filled(e, "rotation_query", 0))
    BY <2>1, FilledType, RotationLineNeutral, NeutralCalm DEF Keys
  <2>. QED BY <2>1, <2>2, <2>3, BeginEffect DEF CurrentRotation
<1>5. CASE CheckNext
  <2>. DEFINE e == Head(round)
  <2>1. e \in Drives
    BY <1>5 DEF CheckNext, ArmTypeOK
  <2>2. StatusLine \in Seq(Command) /\ Neutral(StatusLine) /\ Calm(StatusLine)
    BY StatusLineNeutral, NeutralCalm DEF StatusLine, Command, Ops
  <2>3. CheckStatus(e)
    BY <1>5 DEF CheckNext
  <2>. HIDE DEF e
  <2>. QED BY <2>1, <2>2, <2>3, BeginEffect DEF CheckStatus
<1>6. CASE NextMacro
  <2>. DEFINE e == call.drive
              lines == Filled(e, Head(call.left), 0)
  <2>1. call \in Calls /\ call.left # <<>> /\ todo[e] = <<>> /\ e \in Drives
    BY <1>6 DEF NextMacro, Returning, PromptInv, TypeOK, Calls
  <2>2. call # None /\ command = None
    BY <1>6, <2>1 DEF NextMacro, Returning, DutyInv
  <2>3. call.left \in Seq(Keys) /\ Head(call.left) = call.left[1] /\ 1 \in DOMAIN call.left
    BY <2>1 DEF Calls
  <2>4. Head(call.left) \in {"set_run_parameters", "read_reset"}
    BY <2>2, <2>3 DEF DutyInv
  <2>5. lines \in Seq(Command) /\ Calm(lines)
    <3>1. ASSUME NEW f \in Drives, NEW key \in {"set_run_parameters", "read_reset"}
          PROVE  Filled(f, key, 0) \in Seq(Command) /\ Calm(Filled(f, key, 0))
      <4>1. key \in Keys /\ 0 \in Int
        BY DEF Keys
      <4>2. Filled(f, key, 0) \in Seq(Command)
        BY <4>1, FilledType
      <4>3. Calm(Filled(f, key, 0))
        BY StartUpCalm
      <4>. QED BY <4>2, <4>3
    <3>. QED BY <2>1, <2>4, <3>1, Zenon
  <2>6. todo[e] \o lines = lines
    BY <2>1, <2>5, ConcatEmptySeq
  <2>7. todo' = [todo EXCEPT ![e] = todo[e] \o lines] /\ UNCHANGED <<inbox, pos, goal>>
    BY <1>6 DEF NextMacro
  <2>. HIDE DEF e, lines
  <2>8. CASE d = e
    <3>1. todo'[d] = lines
      BY <2>6, <2>7, <2>8 DEF PromptInv, TypeOK
    <3>. QED BY <2>1, <2>2, <2>5, <2>7, <2>8, <3>1 DEF Effect, Listed
  <2>9. CASE d # e
    BY <2>7, <2>9 DEF PromptInv, TypeOK, Effect, Stays
  <2>. QED BY <2>8, <2>9
<1>7. CASE Return \/ ReadLine \/ PollEmpty \/ Arrive
  BY <1>7 DEF Return, ReadLine, PollEmpty, Arrive, Effect, Stays
<1>8. CASE RunCommand
  <2>. DEFINE e == call.drive
  <2>1. e \in Drives /\ inbox[e] = <<>> /\ todo[e] # <<>>
    BY <1>8 DEF RunCommand, PromptInv, TypeOK, Calls, ExchangeInv, Outstanding
  <2>2. /\ todo' = [todo EXCEPT ![e] = Tail(todo[e])]
        /\ inbox' = [inbox EXCEPT ![e] = Append(inbox[e], Head(todo[e]))]
        /\ UNCHANGED <<pos, goal>>
    BY <1>8 DEF RunCommand
  <2>3. Append(inbox[e], Head(todo[e])) = <<Head(todo[e])>>
    BY <2>1
  <2>. HIDE DEF e
  <2>4. CASE d = e
    <3>1. todo'[d] = Tail(todo[d]) /\ inbox'[d] = <<Head(todo[d])>>
      BY <2>1, <2>2, <2>3, <2>4 DEF PromptInv, TypeOK
    <3>. QED BY <2>1, <2>2, <2>4, <3>1 DEF Effect, Written
  <2>5. CASE d # e
    BY <2>2, <2>5 DEF PromptInv, TypeOK, Effect, Stays
  <2>. QED BY <2>4, <2>5
<1>9. ASSUME NEW e \in Drives, Execute(e) PROVE Effect(d)
  <2>1. pc = "poll" /\ e = call.drive
    BY <1>9 DEF Execute, PromptInv, ExchangeInv, Outstanding, TypeOK
  <2>2. inbox[e] # <<>> /\ Tail(inbox[e]) = <<>>
    BY <1>9, <2>1 DEF Execute, PromptInv, ExchangeInv
  <2>3. /\ inbox' = [inbox EXCEPT ![e] = Tail(inbox[e])]
        /\ goal' = [goal EXCEPT ![e] = GoalAfter(e, Head(inbox[e]))]
        /\ pos' = [pos EXCEPT ![e] = PosAfter(e, Head(inbox[e]))]
        /\ UNCHANGED todo
    BY <1>9 DEF Execute
  <2>4. CASE d = e
    <3>1. /\ inbox'[d] = <<>> /\ goal'[d] = GoalAfter(d, Head(inbox[d]))
          /\ pos'[d] = PosAfter(d, Head(inbox[d]))
      BY <2>2, <2>3, <2>4 DEF PromptInv, TypeOK
    <3>. QED BY <2>2, <2>3, <2>4, <3>1 DEF Effect, Executed
  <2>5. CASE d # e
    <3>1. inbox'[d] = inbox[d] /\ goal'[d] = goal[d] /\ pos'[d] = pos[d]
      BY <2>3, <2>5 DEF PromptInv, TypeOK
    <3>. QED BY <2>3, <3>1 DEF Effect, Stays
  <2>. QED BY <2>4, <2>5
<1>10. ASSUME NEW e \in Drives, Travel(e) PROVE Effect(d)
  <2>1. e # d => pos'[d] = pos[d]
    BY <1>10 DEF Travel, PromptInv, TypeOK
  <2>. QED BY <1>10, <2>1 DEF Travel, Effect, Stays
<1>11. CASE ArriveHead
  BY <1>11 DEF ArriveHead, Prompt
<1>12. CASE Commands \/ BeginRound \/ Look \/ EndWait \/ NoteStep \/ LocateStep
            \/ AimStep \/ CellStep \/ EdgeStep \/ Column \/ NextRow
            \/ SightStep \/ FaultStep
  <2>1. UNCHANGED vars
    BY <1>12 DEF Commands, MoveTo, Home, Scan, Directed, Sweep, ToPattern, ToTarget,
         Console, BeginRound, Look, EndWait, NoteStep, LocateStep, AimStep, CellStep,
         EdgeStep, Column, NextRow, SightStep, FaultStep, GoTo
  <2>. QED BY <1>1, <2>1
<1>13. CASE StartUp
  BY <1>2, <1>13 DEF StartUp
<1>14. CASE ReturnToPlan
  BY <1>7, <1>14 DEF ReturnToPlan
<1>15. CASE External
  BY <1>7, <1>9, <1>10, <1>11, <1>15 DEF External
<1>. QED
  BY <1>1, <1>3, <1>4, <1>5, <1>6, <1>7, <1>8, <1>12, <1>13, <1>14, <1>15
     DEF ArmNext, Main, allVars

\* A list whose only command has been written, and the command.
LEMMA ListTypes ==
  ASSUME PromptInv, NEW d \in Drives
  PROVE  /\ todo[d] \in Seq(Command) /\ inbox[d] \in Seq(Command)
         /\ pos[d] \in Int /\ goal[d] \in Int \union {None}
         /\ todo[d] # <<>> =>
              /\ Head(todo[d]) \in Command /\ Tail(todo[d]) \in Seq(Command)
              /\ <<Head(todo[d])>> \in Seq(Command)
              /\ <<Head(todo[d])>> # <<>>
              /\ Head(<<Head(todo[d])>>) = Head(todo[d])
              /\ Tail(<<Head(todo[d])>>) = <<>>
         /\ inbox[d] # <<>> => Head(inbox[d]) \in Command
<1>1. todo[d] \in Seq(Command) /\ inbox[d] \in Seq(Command)
  BY DEF PromptInv, TypeOK
<1>2. todo[d] # <<>> => Head(todo[d]) \in Command /\ Tail(todo[d]) \in Seq(Command)
  BY <1>1, HeadTailProperties
<1>3. inbox[d] # <<>> => Head(inbox[d]) \in Command
  BY <1>1, HeadTailProperties
<1>4. pos[d] \in Int /\ goal[d] \in Int \union {None}
  BY DEF PromptInv, TypeOK
<1>. QED BY <1>1, <1>2, <1>3, <1>4, Single

\* What a command that does not move the drive leaves.
LEMMA ExecutedCalmly ==
  ASSUME PromptInv, NEW d \in Drives, NEW c \in Command
  PROVE  /\ c.op \notin Moving /\ AtRest(d) => GoalAfter(d, c) = PosAfter(d, c)
         /\ c.op \in Stopping => GoalAfter(d, c) = PosAfter(d, c)
         /\ c.op \notin Steering => GoalAfter(d, c) = goal[d] /\ PosAfter(d, c) = pos[d]
         /\ c.op = "FP" => GoalAfter(d, c) = c.steps
BY DEF GoalAfter, PosAfter, AtRest, Moving, Stopping, Steering, Command, Ops

\* A drive that is not sent anywhere stays where it is, comes to rest, and keeps
\* its goal, as its lists have it.
LEMMA SettledKept ==
  ASSUME PromptInv, NEW d \in Drives, Effect(d), Settled(d)
  PROVE  Settled(d)'
<1>1. CASE Stays(d)
  BY <1>1 DEF Stays, Settled, AtRest, Calm
<1>2. CASE Listed(d)
  BY <1>2 DEF Listed, Settled, AtRest, Calm
<1>3. CASE Written(d)
  <2>1. Calm(Tail(todo[d])) /\ Calm(<<Head(todo[d])>>)
    BY <1>3, ListTypes, Unfolded, EmptyList DEF Written, Settled
  <2>2. Calm(todo'[d]) /\ Calm(inbox'[d])
    BY <1>3, <2>1 DEF Written
  <2>. QED BY <1>3, <2>2 DEF Written, Settled, AtRest, Calm
<1>4. CASE Executed(d)
  <2>1. Head(inbox[d]).op \notin Moving /\ Head(inbox[d]) \in Command
    BY <1>4, ListTypes, Unfolded DEF Executed, Settled
  <2>2. goal'[d] = pos'[d]
    BY <1>4, <2>1, ExecutedCalmly DEF Executed, Settled
  <2>3. Calm(todo'[d]) /\ Calm(inbox'[d])
    BY <1>4, EmptyList DEF Executed, Settled
  <2>. QED BY <2>2, <2>3 DEF Settled, AtRest, Calm
<1>. QED BY <1>1, <1>2, <1>3, <1>4 DEF Effect

LEMMA RestingKept ==
  ASSUME PromptInv, NEW d \in Drives, Effect(d), Resting(d)
  PROVE  Resting(d)'
<1>1. CASE Settled(d)
  BY <1>1, SettledKept DEF Resting
<1>2. CASE Stays(d)
  BY <1>1, <1>2 DEF Stays, Resting, Stops, Calm
<1>3. CASE Listed(d) /\ ~Settled(d)
  BY <1>3, EmptyList DEF Listed, Resting, Stops, Calm
<1>4. CASE Written(d) /\ ~Settled(d)
  <2>1. Stops(todo[d])
    BY <1>4, EmptyList DEF Written, Resting
  <2>2. \/ Stops(Tail(todo[d]))
        \/ Calm(Tail(todo[d])) /\ Stops(<<Head(todo[d])>>)
    <3>1. \/ Stops(Tail(todo[d]))
          \/ Head(todo[d]).op \in Stopping /\ Calm(Tail(todo[d]))
      BY <1>4, <2>1, ListTypes, Unfolded DEF Written
    <3>2. Head(todo[d]).op \in Stopping => Stops(<<Head(todo[d])>>)
      BY <1>4, ListTypes, OneCommand DEF Written
    <3>. QED BY <3>1, <3>2
  <2>3. Stops(todo'[d]) \/ (Calm(todo'[d]) /\ Stops(inbox'[d]))
    BY <1>4, <2>2 DEF Written
  <2>. QED BY <2>3 DEF Resting, Stops, Calm
<1>5. CASE Executed(d) /\ ~Settled(d)
  <2>1. CASE Stops(todo[d])
    <3>1. Stops(todo'[d])
      BY <1>5, <2>1 DEF Executed
    <3>. QED BY <3>1 DEF Resting, Stops
  <2>2. CASE Calm(todo[d]) /\ Stops(inbox[d])
    <3>1. Head(inbox[d]).op \in Stopping /\ Head(inbox[d]) \in Command
      BY <1>5, <2>2, ListTypes, OneCommand DEF Executed
    <3>2. goal'[d] = pos'[d]
      BY <1>5, <3>1, ExecutedCalmly DEF Executed
    <3>3. Calm(todo'[d]) /\ Calm(inbox'[d])
      BY <1>5, <2>2, EmptyList DEF Executed
    <3>. QED BY <3>2, <3>3 DEF Resting, Settled, AtRest, Calm
  <2>. QED BY <1>5, <2>1, <2>2 DEF Resting
<1>. QED BY <1>1, <1>2, <1>3, <1>4, <1>5 DEF Effect

LEMMA BoundKept ==
  ASSUME PromptInv, command # None, NEW d \in Drives, Effect(d), NEW n, Bound(d, n)
  PROVE  Bound(d, n)'
<1>2. CASE Stays(d)
  BY <1>2 DEF Stays, Bound, Feeds, Neutral
<1>3. CASE Listed(d)
  <2>1. Neutral(todo'[d]) /\ inbox'[d] = inbox[d] /\ goal'[d] = goal[d]
    BY <1>3 DEF Listed
  <2>2. Feeds(inbox[d], n) \/ (Neutral(inbox[d]) /\ goal[d] = n)
    BY <1>3, EmptyList DEF Listed, Bound
  <2>. QED BY <2>1, <2>2 DEF Bound, Feeds, Neutral
<1>4. CASE Written(d)
  <2>1. CASE Feeds(todo[d], n)
    <3>1. \/ Feeds(Tail(todo[d]), n)
          \/ Neutral(Tail(todo[d])) /\ Feeds(<<Head(todo[d])>>, n)
      <4>1. \/ Feeds(Tail(todo[d]), n)
            \/ /\ Head(todo[d]).op = "FP" /\ Head(todo[d]).steps = n
               /\ Neutral(Tail(todo[d]))
        BY <1>4, <2>1, ListTypes, Unfolded DEF Written
      <4>2. Head(todo[d]).op = "FP" /\ Head(todo[d]).steps = n
              => Feeds(<<Head(todo[d])>>, n)
        BY <1>4, ListTypes, OneCommand DEF Written
      <4>. QED BY <4>1, <4>2
    <3>2. Feeds(todo'[d], n) \/ (Neutral(todo'[d]) /\ Feeds(inbox'[d], n))
      BY <1>4, <3>1 DEF Written
    <3>. QED BY <3>2 DEF Bound, Feeds, Neutral
  <2>2. CASE Neutral(todo[d]) /\ goal[d] = n
    <3>1. Neutral(Tail(todo[d])) /\ Neutral(<<Head(todo[d])>>)
      <4>1. todo[d] \in Seq(Command) /\ todo[d] # <<>> /\ Head(todo[d]) \in Command
        BY <1>4, ListTypes DEF Written
      <4>2. Head(todo[d]).op \notin Steering /\ Neutral(Tail(todo[d]))
        BY <2>2, <4>1, Unfolded
      <4>3. Neutral(<<Head(todo[d])>>)
        <5>. DEFINE s == <<Head(todo[d])>>
        <5>1. /\ s \in Seq(Command) /\ s # <<>>
              /\ Head(s) = Head(todo[d]) /\ Tail(s) = <<>>
          BY <4>1, Single
        <5>. HIDE DEF s
        <5>2. Neutral(s)
          BY <4>2, <5>1, Unfolded, EmptyList
        <5>. QED BY <5>2 DEF s
      <4>. QED BY <4>2, <4>3
    <3>2. Neutral(todo'[d]) /\ Neutral(inbox'[d]) /\ goal'[d] = n
      BY <1>4, <2>2, <3>1 DEF Written
    <3>. QED BY <3>2 DEF Bound, Neutral
  <2>. QED BY <1>4, <2>1, <2>2, EmptyList DEF Written, Bound
<1>5. CASE Executed(d)
  <2>. DEFINE c == Head(inbox[d])
  <2>1. CASE Feeds(todo[d], n)
    <3>1. Feeds(todo'[d], n)
      BY <1>5, <2>1 DEF Executed
    <3>. QED BY <3>1 DEF Bound, Feeds
  <2>2. CASE Neutral(todo[d]) /\ Feeds(inbox[d], n)
    <3>1. c.op = "FP" /\ c.steps = n /\ c \in Command
      BY <1>5, <2>2, ListTypes, OneCommand DEF Executed
    <3>2. goal'[d] = n
      BY <1>5, <3>1, ExecutedCalmly DEF Executed
    <3>3. Neutral(todo'[d]) /\ Neutral(inbox'[d])
      BY <1>5, <2>2, EmptyList DEF Executed
    <3>. QED BY <3>2, <3>3 DEF Bound, Neutral
  <2>3. CASE Neutral(todo[d]) /\ Neutral(inbox[d]) /\ goal[d] = n
    <3>1. c.op \notin Steering /\ c \in Command
      BY <1>5, <2>3, ListTypes, Unfolded DEF Executed
    <3>2. goal'[d] = n
      BY <1>5, <2>3, <3>1, ExecutedCalmly DEF Executed
    <3>3. Neutral(todo'[d]) /\ Neutral(inbox'[d])
      BY <1>5, <2>3, EmptyList DEF Executed
    <3>. QED BY <3>2, <3>3 DEF Bound, Neutral
  <2>. QED BY <2>1, <2>2, <2>3 DEF Bound
<1>. QED BY <1>2, <1>3, <1>4, <1>5 DEF Effect

\* The drive stands still, with nothing but queries in its lists.
Standing(d) == AtRest(d) /\ Neutral(todo[d]) /\ Neutral(inbox[d])

LEMMA StandingKept ==
  ASSUME PromptInv, command # None, NEW d \in Drives, Effect(d), Standing(d)
  PROVE  Standing(d)' /\ pos'[d] = pos[d]
<1>1. Bound(d, pos[d]) /\ Settled(d)
  BY NeutralCalm DEF Standing, Bound, AtRest, Settled
<1>2. CASE Stays(d)
  BY <1>2 DEF Stays, Standing, Neutral, AtRest
<1>3. CASE Listed(d)
  BY <1>3 DEF Listed, Standing, Neutral, AtRest
<1>4. CASE Written(d)
  <2>1. Neutral(Tail(todo[d])) /\ Neutral(<<Head(todo[d])>>)
    <3>. DEFINE s == todo[d]
                h == <<Head(s)>>
    <3>1. s \in Seq(Command) /\ s # <<>> /\ Neutral(s)
      BY <1>4, ListTypes DEF Written, Standing
    <3>2. h \in Seq(Command) /\ h # <<>> /\ Head(h) = Head(s) /\ Tail(h) = <<>>
      BY <3>1, ListTypes
    <3>. HIDE DEF s, h
    <3>3. Head(s).op \notin Steering /\ Neutral(Tail(s))
      BY <3>1, Unfolded
    <3>4. Neutral(h)
      BY <3>2, <3>3, Unfolded, EmptyList
    <3>. QED BY <3>3, <3>4 DEF s, h
  <2>2. Neutral(todo'[d]) /\ Neutral(inbox'[d])
    BY <1>4, <2>1 DEF Written
  <2>. QED BY <1>4, <2>2 DEF Written, Standing, Neutral, AtRest
<1>5. CASE Executed(d)
  <2>1. Head(inbox[d]).op \notin Steering /\ Head(inbox[d]) \in Command
    BY <1>5, ListTypes, Unfolded DEF Executed, Standing
  <2>2. goal'[d] = goal[d] /\ pos'[d] = pos[d]
    BY <1>5, <2>1, ExecutedCalmly DEF Executed
  <2>3. Neutral(todo'[d]) /\ Neutral(inbox'[d])
    BY <1>5, EmptyList DEF Executed, Standing
  <2>. QED BY <2>2, <2>3 DEF Standing, Neutral, AtRest
<1>. QED BY <1>2, <1>3, <1>4, <1>5 DEF Effect

-----------------------------------------------------------------------------
(* Rotations and runs *)

\* When current_rotation returns it has the position of a drive that has not
\* moved since the call began.
LEMMA RotationOfTheStill ==
  ASSUME PromptInv, Returning, call.fn = "current_rotation",
         call.at = pos[call.drive]
  PROVE  reported_steps[call.drive] = pos[call.drive]
<1>1. call # None /\ call.drive \in Drives
  BY DEF Returning, PromptInv, TypeOK, Calls
<1>2. /\ inbox[call.drive] = <<>> /\ wire = <<>> /\ rx = <<>>
      /\ todo[call.drive] = <<>>
  BY <1>1 DEF Returning, PromptInv, ExchangeInv, Outstanding
<1>3. Between(call.at, reported_steps[call.drive], pos[call.drive])
  BY <1>1, <1>2 DEF PromptInv, AnswerInv
<1>4. reported_steps[call.drive] \in Int /\ pos[call.drive] \in Int
  BY <1>1 DEF PromptInv, TypeOK
<1>. QED BY <1>3, <1>4 DEF Between

\* A drive that stands still keeps the rotation that was reported, or will have
\* it when the query returns.
LEMMA LocatedKept ==
  ASSUME Prompt, ~Simulation, PromptInv, ArmTypeOK, DutyInv, [ArmNext]_allVars,
         command # None, NEW d \in Drives, ~(RunStep /\ Head(plan).drive = d),
         Located(d)
  PROVE  Located(d)'
<1>. USE DEF host, objects, line, drives
<1>. DEFINE Asks == call # None /\ call.fn = "current_rotation" /\ call.drive = d
            Known == IF Asks THEN call.at = pos[d] ELSE reported_steps[d] = pos[d]
<1>1. Standing(d)' /\ pos'[d] = pos[d] /\ Known
  BY DriveEffect, StandingKept DEF Standing, Located
<1>2. SUFFICES Known'
  BY <1>1 DEF Standing, Located
<1>3. CASE UNCHANGED <<call, reported_steps>>
  BY <1>1, <1>3
<1>4. ASSUME NEW e, NEW fn, NEW lines, Begin(fn, e, <<>>, lines),
             UNCHANGED reported_steps
      PROVE  Known'
  <2>1. call = None /\ Asks' => e = d /\ call'.at = pos[d]
    BY <1>4 DEF Begin
  <2>. QED BY <1>1, <1>4, <2>1 DEF Begin
<1>5. CASE StartUp \/ NextMacro
  BY <1>5 DEF StartUp, ProcessParameters, NextMacro, Returning, DutyInv
<1>6. CASE RunStep \/ AskStep \/ CheckNext
  BY <1>4, <1>6 DEF RunStep, RunAction, AskStep, CurrentRotation, CheckNext,
                    CheckStatus
<1>7. CASE RunCommand \/ PollEmpty
  BY <1>3, <1>7 DEF RunCommand, PollEmpty
<1>8. CASE ReadLine
  <2>1. call # None /\ call.drive \in Drives
    BY <1>8 DEF ReadLine, PromptInv, TypeOK, Calls
  <2>2. CASE Asks
    BY <1>1, <1>8, <2>2 DEF ReadLine
  <2>3. CASE ~Asks
    <3>1. reported_steps'[d] = reported_steps[d]
      BY <1>8, <2>1, <2>3 DEF ReadLine, PromptInv, CallInv, TypeOK
    <3>. QED BY <1>1, <1>8, <2>3, <3>1 DEF ReadLine
  <2>. QED BY <2>2, <2>3
<1>9. CASE ReturnToPlan
  <2>1. call' = None /\ UNCHANGED reported_steps /\ Returning
    BY <1>9 DEF ReturnToPlan, Return
  <2>2. reported_steps[d] = pos[d]
    BY <1>1, <2>1, RotationOfTheStill
  <2>. QED BY <1>1, <2>1, <2>2
<1>10. CASE External
  BY <1>3, <1>10 DEF External, Execute, Travel, Arrive, ArriveHead
<1>11. CASE Commands \/ BeginRound \/ Look \/ EndWait \/ NoteStep \/ LocateStep
            \/ AimStep \/ CellStep \/ EdgeStep \/ Column \/ NextRow
            \/ SightStep \/ FaultStep
  <2>1. UNCHANGED vars
    BY <1>11 DEF Commands, MoveTo, Home, Scan, Directed, Sweep, ToPattern, ToTarget,
         Console, BeginRound, Look, EndWait, NoteStep, LocateStep, AimStep, CellStep,
         EdgeStep, Column, NextRow, SightStep, FaultStep, GoTo
  <2>. QED BY <1>3, <2>1 DEF vars
<1>12. CASE UNCHANGED allVars
  BY <1>3, <1>12 DEF allVars, vars
<1>. QED
  BY <1>5, <1>6, <1>7, <1>8, <1>9, <1>10, <1>11, <1>12 DEF ArmNext, Main

\* A drive that comes to rest is at rest when the call has returned.
LEMMA RestBetweenCalls ==
  ASSUME PromptInv, call = None, NEW d \in Drives
  PROVE  /\ Resting(d) => Settled(d)
         /\ \A n : Bound(d, n) => goal[d] = n
         /\ AtRest(d) => Standing(d)
BY QuietLists, EmptyList DEF Resting, Settled, Bound, Standing

\* Asking a drive at rest for its rotation locates it.
LEMMA AskLocates ==
  ASSUME PromptInv, NEW d \in Drives, CurrentRotation(d), AtRest(d)
  PROVE  Located(d)'
<1>. USE DEF line, drives
<1>. DEFINE lines == Filled(d, "rotation_query", 0)
<1>1. lines \in Seq(Command) /\ Neutral(lines)
  BY FilledType, RotationLineNeutral DEF Keys
<1>2. todo[d] = <<>> /\ inbox[d] = <<>>
  BY QuietLists DEF CurrentRotation, Begin
<1>3. todo' = [todo EXCEPT ![d] = todo[d] \o lines]
  BY DEF CurrentRotation, Begin
<1>. HIDE DEF lines
<1>4. todo[d] \o lines = lines
  BY <1>1, <1>2, ConcatEmptySeq
<1>5. Neutral(todo'[d])
  BY <1>1, <1>3, <1>4 DEF PromptInv, TypeOK
<1>6. UNCHANGED <<inbox, pos, goal>> /\ Neutral(inbox[d])
  BY <1>2, EmptyList DEF CurrentRotation
<1>7. call' # None /\ call'.fn = "current_rotation" /\ call'.drive = d
      /\ call'.at = pos[d]
  <2>1. call'.fn = "current_rotation" /\ call'.drive = d /\ call'.at = pos[d]
    BY DEF CurrentRotation, Begin
  <2>2. call' # None
    <3>1. Begin("current_rotation", d, <<>>, lines)
      BY DEF CurrentRotation, lines
    <3>2. call' \in Calls
      BY <1>1, <3>1, BeginType, EmptySeq DEF PromptInv
    <3>. QED BY <3>2, NoneAssumption
  <2>. QED BY <2>1, <2>2
<1>. QED BY <1>5, <1>6, <1>7 DEF Located, AtRest, Neutral

\* What a run leaves of the drive it is for.
LEMMA RunEffect ==
  ASSUME PromptInv, NEW d \in Drives, NEW key \in Keys, NEW n \in Int,
         RunAction(d, key, n)
  PROVE  /\ key = "single_motion_var" => Bound(d, n)'
         /\ key = "stop_motion" => Resting(d)'
<1>. DEFINE lines == Filled(d, key, n)
<1>1. lines \in Seq(Command)
  BY FilledType
<1>2. todo[d] = <<>>
  BY QuietLists DEF RunAction, Begin
<1>3. todo' = [todo EXCEPT ![d] = todo[d] \o lines]
  BY DEF RunAction, Begin
<1>4. /\ key = "single_motion_var" => Feeds(lines, n)
      /\ key = "stop_motion" => Stops(lines)
  BY MotionMacros
<1>. HIDE DEF lines
<1>5. todo[d] \o lines = lines
  BY <1>1, <1>2, ConcatEmptySeq
<1>6. todo'[d] = lines
  BY <1>3, <1>5 DEF PromptInv, TypeOK
<1>. QED BY <1>4, <1>6 DEF Bound, Resting, Feeds, Stops

-----------------------------------------------------------------------------
(* What a plan relies on, as its steps are taken *)

\* What holds at a step holds there also when more brings it about ...
LEMMA HoldsKept ==
  ASSUME NEW k, NEW good, NEW bad, NEW good1, NEW bad1,
         good \subseteq good1, bad1 \subseteq bad, Holds(good, bad, k)
  PROVE  Holds(good1, bad1, k)
BY DEF Holds

\* ... and when the first step has been taken and has had its effect.
LEMMA HoldsTail ==
  ASSUME NEW k \in Nat \ {0}, NEW good \in SUBSET Nat, NEW bad, NEW good1, NEW bad1,
         \A i \in Nat \ {0} : i + 1 \in good => i \in good1,
         \A i \in Nat \ {0} : i \in bad1 => i + 1 \in bad,
         1 \in good => 0 \in good1,
         0 \in good /\ 1 \notin bad => 0 \in good1,
         Holds(good, bad, k + 1)
  PROVE  Holds(good1, bad1, k)
<1>1. PICK j \in good : j < k + 1 /\ \A i \in j + 1..(k + 1) - 1 : i \notin bad
  BY DEF Holds
<1>2. \A i \in j..k - 1 : i # 0 => i \notin bad1
  <2>. SUFFICES ASSUME NEW i \in j..k - 1, i # 0 PROVE i \notin bad1
    OBVIOUS
  <2>1. i \in Nat \ {0} /\ i + 1 \in j + 1..(k + 1) - 1
    OBVIOUS
  <2>. QED BY <1>1, <2>1
<1>3. CASE j \in {0, 1}
  <2>1. 0 \in good1
    <3>1. CASE j = 0
      <4>1. 1 \in j + 1..(k + 1) - 1
        BY <3>1
      <4>. QED BY <1>1, <3>1, <4>1
    <3>2. CASE j = 1
      BY <3>2
    <3>. QED BY <1>3, <3>1, <3>2
  <2>2. \A i \in 0 + 1..k - 1 : i \notin bad1
    BY <1>2, <1>3
  <2>. QED BY <2>1, <2>2 DEF Holds
<1>4. CASE j \notin {0, 1}
  <2>. DEFINE m == j - 1
  <2>1. m \in Nat \ {0} /\ m + 1 = j /\ m < k
    BY <1>1, <1>4
  <2>2. m \in good1
    BY <2>1
  <2>3. \A i \in m + 1..k - 1 : i \notin bad1
    BY <1>2, <2>1
  <2>. HIDE DEF m
  <2>. QED BY <2>1, <2>2, <2>3 DEF Holds
<1>. QED BY <1>3, <1>4

\* At the step that is due it is the present that counts.
LEMMA HoldsNow ==
  ASSUME NEW good \in SUBSET Nat, NEW bad, Holds(good, bad, 1)
  PROVE  0 \in good
BY DEF Holds

LEMMA Present ==
  ASSUME NEW p, NEW d, Len(p) \in Nat
  PROVE  /\ Rested(p, d, 1) => Resting(d)
         /\ \A n : Placed(p, d, n, 1) => Bound(d, n)
         /\ Asked(p, d, 1) => Located(d)
<1>1. ASSUME Rested(p, d, 1) PROVE Resting(d)
  <2>. DEFINE good == {i \in 0..Len(p) : IF i = 0 THEN Resting(d) ELSE Stills(p[i], d)}
              bad == {i \in DOMAIN p : Moves(p[i], d)}
  <2>1. Holds(good, bad, 1) /\ good \in SUBSET Nat
    BY <1>1 DEF Rested
  <2>2. 0 \in good => Resting(d)
    OBVIOUS
  <2>. HIDE DEF good, bad
  <2>. QED BY <2>1, <2>2, HoldsNow
<1>2. ASSUME NEW n, Placed(p, d, n, 1) PROVE Bound(d, n)
  <2>. DEFINE good == {i \in 0..Len(p) : IF i = 0 THEN Bound(d, n) ELSE Sends(p[i], d, n)}
              bad == {i \in DOMAIN p : Touches(p[i], d)}
  <2>1. Holds(good, bad, 1) /\ good \in SUBSET Nat
    BY <1>2 DEF Placed
  <2>2. 0 \in good => Bound(d, n)
    OBVIOUS
  <2>. HIDE DEF good, bad
  <2>. QED BY <2>1, <2>2, HoldsNow
<1>3. ASSUME Asked(p, d, 1) PROVE Located(d)
  <2>. DEFINE good == {i \in 0..Len(p) : IF i = 0 THEN Located(d) ELSE p[i] = Ask(d)}
              bad == {i \in DOMAIN p : Touches(p[i], d)}
  <2>1. Holds(good, bad, 1) /\ good \in SUBSET Nat
    BY <1>3 DEF Asked
  <2>2. 0 \in good => Located(d)
    OBVIOUS
  <2>. HIDE DEF good, bad
  <2>. QED BY <2>1, <2>2, HoldsNow
<1>. QED BY <1>1, <1>2, <1>3

LEMMA TailOfPlan ==
  ASSUME ArmTypeOK, plan # <<>>, NEW q, q = Tail(plan)
  PROVE  /\ Len(plan) \in Nat \ {0} /\ Len(q) = Len(plan) - 1
         /\ DOMAIN plan = 1..Len(plan) /\ DOMAIN q = 1..Len(q)
         /\ Head(plan) = plan[1] /\ Head(plan) \in PlanSteps
         /\ \A i \in DOMAIN q : i + 1 \in DOMAIN plan /\ q[i] = plan[i + 1]
<1>1. plan \in Seq(PlanSteps)
  BY DEF ArmTypeOK
<1>. QED BY <1>1

LEMMA RestedTail ==
  ASSUME ArmTypeOK, plan # <<>>, plan' = Tail(plan), NEW d, NEW k \in Nat \ {0},
         Stills(Head(plan), d) => Resting(d)',
         Resting(d) /\ ~Moves(Head(plan), d) => Resting(d)',
         Rested(plan, d, k + 1)
  PROVE  Rested(plan, d, k)'
<1>. DEFINE good == {i \in 0..Len(plan) : IF i = 0 THEN Resting(d) ELSE Stills(plan[i], d)}
            bad == {i \in DOMAIN plan : Moves(plan[i], d)}
<1>1. Holds(good, bad, k + 1) /\ good \in SUBSET Nat
  BY DEF Rested
<1>2. \A i \in Nat \ {0} : i + 1 \in good => i \in good'
  BY TailOfPlan
<1>3. \A i \in Nat \ {0} : i \in bad' => i + 1 \in bad
  BY TailOfPlan
<1>4. 1 \in good => 0 \in good'
  BY TailOfPlan
<1>5. 0 \in good /\ 1 \notin bad => 0 \in good'
  BY TailOfPlan
<1>. HIDE DEF good, bad
<1>6. Holds(good', bad', k)
  BY <1>1, <1>2, <1>3, <1>4, <1>5, HoldsTail
<1>. QED BY <1>6 DEF Rested, good, bad

LEMMA PlacedTail ==
  ASSUME ArmTypeOK, plan # <<>>, plan' = Tail(plan), NEW d, NEW n,
         NEW k \in Nat \ {0},
         Sends(Head(plan), d, n) => Bound(d, n)',
         Bound(d, n) /\ ~Touches(Head(plan), d) => Bound(d, n)',
         Placed(plan, d, n, k + 1)
  PROVE  Placed(plan, d, n, k)'
<1>. DEFINE good == {i \in 0..Len(plan) : IF i = 0 THEN Bound(d, n) ELSE Sends(plan[i], d, n)}
            bad == {i \in DOMAIN plan : Touches(plan[i], d)}
<1>1. Holds(good, bad, k + 1) /\ good \in SUBSET Nat
  BY DEF Placed
<1>2. \A i \in Nat \ {0} : i + 1 \in good => i \in good'
  BY TailOfPlan
<1>3. \A i \in Nat \ {0} : i \in bad' => i + 1 \in bad
  BY TailOfPlan
<1>4. 1 \in good => 0 \in good'
  BY TailOfPlan
<1>5. 0 \in good /\ 1 \notin bad => 0 \in good'
  BY TailOfPlan
<1>. HIDE DEF good, bad
<1>6. Holds(good', bad', k)
  BY <1>1, <1>2, <1>3, <1>4, <1>5, HoldsTail
<1>. QED BY <1>6 DEF Placed, good, bad

LEMMA AskedTail ==
  ASSUME ArmTypeOK, plan # <<>>, plan' = Tail(plan), NEW d, NEW k \in Nat \ {0},
         Head(plan) = Ask(d) => Located(d)',
         Located(d) /\ ~Touches(Head(plan), d) => Located(d)',
         Asked(plan, d, k + 1)
  PROVE  Asked(plan, d, k)'
<1>. DEFINE good == {i \in 0..Len(plan) : IF i = 0 THEN Located(d) ELSE plan[i] = Ask(d)}
            bad == {i \in DOMAIN plan : Touches(plan[i], d)}
<1>1. Holds(good, bad, k + 1) /\ good \in SUBSET Nat
  BY DEF Asked
<1>2. \A i \in Nat \ {0} : i + 1 \in good => i \in good'
  BY TailOfPlan DEF Ask
<1>3. \A i \in Nat \ {0} : i \in bad' => i + 1 \in bad
  BY TailOfPlan
<1>4. 1 \in good => 0 \in good'
  BY TailOfPlan
<1>5. 0 \in good /\ 1 \notin bad => 0 \in good'
  BY TailOfPlan
<1>. HIDE DEF good, bad
<1>6. Holds(good', bad', k)
  BY <1>1, <1>2, <1>3, <1>4, <1>5, HoldsTail
<1>. QED BY <1>6 DEF Asked, good, bad

\* What the plan says of its steps.
PlanRelied == Shape(plan) /\ RestInv /\ PlaceInv /\ AskInv

\* A step that leaves the plan alone and the drives in peace.
LEMMA PlanKept ==
  ASSUME PlanRelied, plan' = plan, steps' = steps,
         \A d \in Drives : Resting(d) => Resting(d)',
         plan # <<>> => \A d \in Drives : \A n : Bound(d, n) => Bound(d, n)',
         plan # <<>> => \A d \in Drives : Located(d) => Located(d)'
  PROVE  PlanRelied'
<1>1. Shape(plan)'
  BY DEF PlanRelied, Shape
<1>2. RestInv'
  <2>. SUFFICES ASSUME NEW k \in 1..Len(plan') + 1, NEW d \in Drives,
                       RestDue(plan', d, k)
                PROVE  Rested(plan, d, k)'
    BY DEF RestInv, RestDue
  <2>1. Rested(plan, d, k)
    BY DEF PlanRelied, RestInv
  <2>. QED BY <2>1, HoldsKept DEF Rested
<1>3. PlaceInv'
  <2>. SUFFICES ASSUME NEW k \in DOMAIN plan, NEW d \in Drives,
                       plan[k].do \in {"note", "raster"}
                PROVE  Placed(plan, d, Due(plan[k], d), k)'
    BY DEF PlaceInv
  <2>1. Placed(plan, d, Due(plan[k], d), k)
    BY DEF PlanRelied, PlaceInv
  <2>2. Due(plan[k], d)' = Due(plan[k], d)
    BY DEF Due, RowSteps
  <2>3. plan # <<>>
    OBVIOUS
  <2>4. \A n : Bound(d, n) => Bound(d, n)'
    BY <2>3
  <2>5. \A n : Placed(plan, d, n, k) => Placed(plan, d, n, k)'
    BY <2>4, HoldsKept DEF Placed
  <2>. QED BY <2>1, <2>2, <2>5
<1>4. AskInv'
  <2>. SUFFICES ASSUME NEW k \in DOMAIN plan, NEW d \in Drives,
                       plan[k].do = "locate"
                PROVE  Asked(plan, d, k)'
    BY DEF AskInv
  <2>1. Asked(plan, d, k)
    BY DEF PlanRelied, AskInv
  <2>2. plan # <<>>
    OBVIOUS
  <2>3. Located(d) => Located(d)'
    BY <2>2
  <2>. QED BY <2>1, <2>3, HoldsKept DEF Asked
<1>. QED BY <1>1, <1>2, <1>3, <1>4 DEF PlanRelied

\* The first step of the plan has its effect, and no other.
Advances ==
  \A d \in Drives :
    /\ Stills(Head(plan), d) => Resting(d)'
    /\ Resting(d) /\ ~Moves(Head(plan), d) => Resting(d)'
    /\ \A n : Sends(Head(plan), d, n) => Bound(d, n)'
    /\ \A n : Bound(d, n) /\ ~Touches(Head(plan), d) => Bound(d, n)'
    /\ Head(plan) = Ask(d) => Located(d)'
    /\ Located(d) /\ ~Touches(Head(plan), d) => Located(d)'

\* The first step of the plan is taken.
LEMMA PlanTail ==
  ASSUME ArmTypeOK, PlanRelied, plan # <<>>, plan' = Tail(plan), steps' = steps,
         Advances
  PROVE  PlanRelied'
<1>. USE DEF Advances
<1>1. Shape(plan)'
  <2>1. \A i \in DOMAIN plan' : i + 1 \in DOMAIN plan /\ plan'[i] = plan[i + 1]
    BY TailOfPlan
  <2>2. \A i, k \in DOMAIN plan' : i < k => i + 1 < k + 1
    BY TailOfPlan
  <2>. QED BY <2>1, <2>2 DEF PlanRelied, Shape
<1>2. RestInv'
  <2>. SUFFICES ASSUME NEW k \in 1..Len(plan') + 1, NEW d \in Drives,
                       RestDue(plan', d, k)
                PROVE  Rested(plan, d, k)'
    BY DEF RestInv, RestDue
  <2>1. k + 1 \in 1..Len(plan) + 1 /\ k \in Nat \ {0}
    BY TailOfPlan
  <2>2. plan' # <<>> => plan'[Len(plan')] = plan[Len(plan)]
    BY TailOfPlan
  <2>3. k \in DOMAIN plan' => plan' # <<>>
    OBVIOUS
  <2>4. RestDue(plan, d, k + 1)
    BY TailOfPlan, <2>1, <2>2, <2>3 DEF RestDue
  <2>5. Rested(plan, d, k + 1)
    BY <2>1, <2>4 DEF PlanRelied, RestInv
  <2>. QED BY <2>1, <2>5, RestedTail
<1>3. PlaceInv'
  <2>. SUFFICES ASSUME NEW k \in DOMAIN plan', NEW d \in Drives,
                       plan'[k].do \in {"note", "raster"}
                PROVE  Placed(plan, d, Due(plan[k], d), k)'
    BY DEF PlaceInv
  <2>1. k + 1 \in DOMAIN plan /\ k \in Nat \ {0} /\ plan'[k] = plan[k + 1]
    BY TailOfPlan
  <2>2. Placed(plan, d, Due(plan[k + 1], d), k + 1)
    BY <2>1 DEF PlanRelied, PlaceInv
  <2>3. Due(plan[k], d)' = Due(plan[k + 1], d)
    BY <2>1 DEF Due, RowSteps
  <2>4. \A n : Placed(plan, d, n, k + 1) => Placed(plan, d, n, k)'
    BY <2>1, PlacedTail
  <2>. QED BY <2>2, <2>3, <2>4
<1>4. AskInv'
  <2>. SUFFICES ASSUME NEW k \in DOMAIN plan', NEW d \in Drives,
                       plan'[k].do = "locate"
                PROVE  Asked(plan, d, k)'
    BY DEF AskInv
  <2>1. k + 1 \in DOMAIN plan /\ k \in Nat \ {0} /\ plan'[k] = plan[k + 1]
    BY TailOfPlan
  <2>2. Asked(plan, d, k + 1)
    BY <2>1 DEF PlanRelied, AskInv
  <2>. QED BY <2>1, <2>2, AskedTail
<1>. QED BY <1>1, <1>2, <1>3, <1>4 DEF PlanRelied

-----------------------------------------------------------------------------
(* What the plans do *)

LEMMA StepFacts ==
  ASSUME NEW d, NEW e, NEW n
  PROVE  /\ Moves(StepN(d, n), e) <=> e = d
         /\ Touches(StepN(d, n), e) <=> e = d
         /\ ~Stills(StepN(d, n), e)
BY DEF StepN, Moves, Touches, Stills, Waits

LEMMA StepSends ==
  ASSUME NEW d, NEW n
  PROVE  Sends(StepN(d, n), d, Gear[d] * n)
BY DEF StepN, Touches, Sends

LEMMA RunFacts ==
  ASSUME NEW d, NEW e
  PROVE  /\ ~Moves(Run(d, "stop_motion"), e)
         /\ Touches(Run(d, "stop_motion"), e) <=> e = d
         /\ Stills(Run(d, "stop_motion"), e) <=> e = d
BY DEF Run, Moves, Touches, Stills, Waits

LEMMA WaitFacts ==
  ASSUME NEW d, NEW e
  PROVE  /\ Stills(Wait(<<d>>), e) <=> e = d
         /\ Stills(Watch(d), e) <=> e = d
         /\ ~Touches(Wait(<<d>>), e) /\ ~Touches(Watch(d), e)
         /\ ~Moves(Wait(<<d>>), e) /\ ~Moves(Watch(d), e)
BY DEF Wait, Watch, Moves, Touches, Stills, Waits

LEMMA WaitForBoth ==
  ASSUME NEW e \in Drives, NEW d
  PROVE  /\ Stills(Wait(<<Base, Elbow>>), e)
         /\ ~Touches(Wait(<<Base, Elbow>>), d) /\ ~Moves(Wait(<<Base, Elbow>>), d)
<1>1. e = Base \/ e = Elbow
  BY MotorsAssumption DEF Motors
<1>. QED BY <1>1 DEF Wait, Moves, Touches, Stills, Waits

LEMMA OtherFacts ==
  ASSUME NEW s, NEW d, s.do \notin {"run", "wait", "watch"}
  PROVE  ~Moves(s, d) /\ ~Touches(s, d) /\ ~Stills(s, d)
BY DEF Moves, Touches, Stills, Waits

LEMMA DoFacts ==
  /\ Sight.do = "sight" /\ Locate.do = "locate" /\ Aim.do = "aim"
  /\ Cell.do = "cell" /\ Fault.do = "fault"
  /\ \A d, n : StepN(d, n).do = "run" /\ StepN(d, n).drive = d
  /\ \A d, key : Run(d, key).do = "run" /\ Run(d, key).drive = d
  /\ \A ds : Wait(ds).do = "wait"
  /\ \A d : Watch(d).do = "watch" /\ Watch(d).drive = d
  /\ \A d : Ask(d).do = "ask" /\ Ask(d).drive = d
  /\ \A p : Note(p).do = "note" /\ Note(p).place = p
  /\ \A i : Edge(i).do = "edge"
  /\ \A i, at, way : /\ Raster(i, at, way).do = "raster"
                     /\ Raster(i, at, way).row = i /\ Raster(i, at, way).at = at
BY DEF Sight, Locate, Aim, Cell, Fault, StepN, Run, Wait, Watch, Ask, Note, Edge,
       Raster

\* A plan that begins with an arm at rest has it at rest where it is due.
FromRest(p) ==
  \A d \in Drives, k \in 1..Len(p) + 1 : RestDue(p, d, k) =>
    Holds({i \in 0..Len(p) : i = 0 \/ Stills(p[i], d)},
          {i \in DOMAIN p : Moves(p[i], d)}, k)

\* A plan asks for the rotations before it goes by them.
Asking(p) ==
  \A k \in DOMAIN p, d \in Drives : p[k].do = "locate" =>
    Holds({i \in DOMAIN p : p[i] = Ask(d)}, {i \in DOMAIN p : Touches(p[i], d)}, k)

\* A plan that sends no motor anywhere.
LEMMA FromRestWithoutMotion ==
  ASSUME NEW p \in Seq(PlanSteps),
         \A i \in DOMAIN p, d \in Drives : ~Moves(p[i], d)
  PROVE  FromRest(p)
<1>. SUFFICES ASSUME NEW d \in Drives, NEW k \in 1..Len(p) + 1
              PROVE  Holds({i \in 0..Len(p) : i = 0 \/ Stills(p[i], d)},
                           {i \in DOMAIN p : Moves(p[i], d)}, k)
  BY DEF FromRest
<1>1. Len(p) \in Nat
  OBVIOUS
<1>. QED BY <1>1 DEF Holds

LEMMA NewRest ==
  ASSUME \A d \in Drives : Resting(d)', NEW p, plan' = p, FromRest(p)
  PROVE  RestInv'
<1>. SUFFICES ASSUME NEW k \in 1..Len(plan') + 1, NEW d \in Drives,
                     RestDue(plan', d, k)
              PROVE  Rested(plan, d, k)'
  BY DEF RestInv, RestDue
<1>. DEFINE good == {i \in 0..Len(p) : i = 0 \/ Stills(p[i], d)}
            bad == {i \in DOMAIN p : Moves(p[i], d)}
<1>1. Holds(good, bad, k)
  BY DEF FromRest
<1>. QED BY <1>1, HoldsKept DEF Rested

LEMMA NewAsk ==
  ASSUME NEW p, plan' = p, Asking(p), Len(p) \in Nat, DOMAIN p = 1..Len(p)
  PROVE  AskInv'
<1>. SUFFICES ASSUME NEW k \in DOMAIN plan', NEW d \in Drives,
                     plan'[k].do = "locate"
              PROVE  Asked(plan, d, k)'
  BY DEF AskInv
<1>. DEFINE good == {i \in DOMAIN p : p[i] = Ask(d)}
            bad == {i \in DOMAIN p : Touches(p[i], d)}
<1>1. Holds(good, bad, k)
  BY DEF Asking
<1>. QED BY <1>1, HoldsKept DEF Asked

\* m is a move to p and then rest.
MoveThen(m, p, rest) ==
  /\ Len(m) = Len(rest) + 4 /\ Len(rest) \in Nat
  /\ DOMAIN m = 1..Len(m) /\ DOMAIN rest = 1..Len(rest)
  /\ m[1] = StepN(Base, Pose[p][Base]) /\ m[2] = StepN(Elbow, Pose[p][Elbow])
  /\ m[3] = Wait(<<Base, Elbow>>) /\ m[4] = Note(p)
  /\ \A k \in 5..Len(m) : k - 4 \in DOMAIN rest /\ m[k] = rest[k - 4]
  /\ \A k \in DOMAIN rest : m[k + 4] = rest[k]

LEMMA MovePlanSteps ==
  ASSUME NEW p \in Places, NEW rest \in Seq(PlanSteps)
  PROVE  MoveThen(MovePlan(p) \o rest, p, rest)
<1>. DEFINE first == MovePlan(p)
            m == first \o rest
<1>1. first \in Seq(PlanSteps)
  BY MovePlanType
<1>2. /\ Len(first) = 4
      /\ first[1] = StepN(Base, Pose[p][Base]) /\ first[2] = StepN(Elbow, Pose[p][Elbow])
      /\ first[3] = Wait(<<Base, Elbow>>) /\ first[4] = Note(p)
  BY DEF MovePlan
<1>. HIDE DEF first
<1>3. /\ Len(m) = Len(rest) + 4 /\ Len(rest) \in Nat
      /\ DOMAIN m = 1..Len(m) /\ DOMAIN rest = 1..Len(rest)
  <2>1. m \in Seq(PlanSteps) /\ rest \in Seq(PlanSteps)
    BY <1>1
  <2>2. Len(m) = Len(first) + Len(rest)
    BY <1>1
  <2>. HIDE DEF m
  <2>. QED BY <1>2, <2>1, <2>2
<1>4. m[1] = first[1] /\ m[2] = first[2] /\ m[3] = first[3] /\ m[4] = first[4]
  BY <1>1, <1>2, <1>3
<1>5. \A k \in 5..Len(m) : k - 4 \in DOMAIN rest /\ m[k] = rest[k - 4]
  BY <1>1, <1>2, <1>3
<1>6. \A k \in DOMAIN rest : m[k + 4] = rest[k]
  BY <1>1, <1>2, <1>3
<1>. HIDE DEF m
<1>7. MoveThen(m, p, rest)
  BY <1>2, <1>3, <1>4, <1>5, <1>6 DEF MoveThen
<1>. QED BY <1>7 DEF m, first

\* move_by_command, with what may come after it.
LEMMA MovePlanRelied ==
  ASSUME NEW p, NEW rest, NEW m, MoveThen(m, p, rest),
         Shape(rest), FromRest(rest),
         \A i \in DOMAIN rest : rest[i].do \notin {"note", "raster", "locate"}
  PROVE  /\ Shape(m) /\ FromRest(m) /\ Asking(m)
         /\ \A k \in DOMAIN m : m[k].do \in {"note", "raster"} => k = 4 /\ m[k] = Note(p)
         /\ \A d \in Drives :
              Holds({i \in DOMAIN m : Sends(m[i], d, Gear[d] * Pose[p][d])},
                    {i \in DOMAIN m : Touches(m[i], d)}, 4)
<1>1. /\ Len(m) = Len(rest) + 4 /\ Len(rest) \in Nat
      /\ DOMAIN m = 1..Len(m) /\ DOMAIN rest = 1..Len(rest)
  BY DEF MoveThen
<1>2. /\ m[1] = StepN(Base, Pose[p][Base]) /\ m[2] = StepN(Elbow, Pose[p][Elbow])
      /\ m[3] = Wait(<<Base, Elbow>>) /\ m[4] = Note(p)
  BY DEF MoveThen
<1>3. \A k \in 5..Len(m) : k - 4 \in DOMAIN rest /\ m[k] = rest[k - 4]
  BY DEF MoveThen
<1>4. \A k \in DOMAIN rest : m[k + 4] = rest[k]
  BY DEF MoveThen
<1>5. m[1].do = "run" /\ m[2].do = "run" /\ m[3].do = "wait" /\ m[4].do = "note"
  BY <1>2, DoFacts
<1>6. \A k \in DOMAIN m : k \in {1, 2, 3, 4} \/ k \in 5..Len(m)
  BY <1>1
<1>7. Shape(m)
  <2>1. ASSUME NEW i \in DOMAIN m, m[i].do = "watch" PROVE m[i].drive = Base
    BY <1>3, <1>5, <1>6, <2>1 DEF Shape
  <2>2. ASSUME NEW i \in DOMAIN m, NEW k \in DOMAIN m, i < k
        PROVE  /\ m[i].do # "raster"
               /\ m[i].do \in Deciding => m[k].do \in {"aim", "fault"}
               /\ m[i].do = "note" => m[k].do \notin {"note", "raster", "locate"}
    <3>1. CASE i \in {1, 2, 3}
      BY <1>5, <3>1 DEF Deciding
    <3>2. CASE i = 4
      <4>1. k \in 5..Len(m)
        BY <1>1, <2>2, <3>2
      <4>. QED BY <1>3, <1>5, <3>2, <4>1 DEF Deciding
    <3>3. CASE i \in 5..Len(m)
      <4>1. k \in 5..Len(m) /\ i - 4 < k - 4
        BY <1>1, <2>2, <3>3
      <4>. QED BY <1>3, <3>3, <4>1 DEF Shape
    <3>. QED BY <1>6, <3>1, <3>2, <3>3
  <2>. QED BY <2>1, <2>2 DEF Shape
<1>8. m[Len(m)].do # "raster"
  <2>1. Len(m) = 4 \/ Len(m) \in 5..Len(m)
    BY <1>1
  <2>. QED BY <1>3, <1>5, <2>1
<1>9. FromRest(m)
  <2>. SUFFICES ASSUME NEW d \in Drives, NEW k \in 1..Len(m) + 1, RestDue(m, d, k)
                PROVE  Holds({i \in 0..Len(m) : i = 0 \/ Stills(m[i], d)},
                             {i \in DOMAIN m : Moves(m[i], d)}, k)
    BY DEF FromRest
  <2>. DEFINE good == {i \in 0..Len(m) : i = 0 \/ Stills(m[i], d)}
              bad == {i \in DOMAIN m : Moves(m[i], d)}
  <2>1. 3 \in good /\ 4 \notin bad
    <3>1. Stills(m[3], d)
      BY <1>2, WaitForBoth
    <3>2. ~Moves(m[4], d)
      BY <1>5, OtherFacts
    <3>3. 3 \in 0..Len(m)
      BY <1>1
    <3>. QED BY <3>1, <3>2, <3>3
  <2>2. k >= 4
    <3>1. \A i \in {1, 2, 3} : ~RestDue(m, d, i)
      <4>1. \A i \in {1, 2, 3} : i # Len(m) + 1
        BY <1>1
      <4>2. \A i \in {1, 2, 3} :
               m[i].do \notin Deciding \union {"note", "ask"} /\ m[i].do # "watch"
        BY <1>5 DEF Deciding
      <4>. QED BY <1>8, <4>1, <4>2 DEF RestDue
    <3>2. k \in {1, 2, 3} \/ k >= 4
      BY <1>1
    <3>. QED BY <3>1, <3>2
  <2>3. CASE k = 4
    BY <2>1, <2>3 DEF Holds
  <2>4. CASE k > 4
    <3>. DEFINE goodr == {i \in 0..Len(rest) : i = 0 \/ Stills(rest[i], d)}
                badr == {i \in DOMAIN rest : Moves(rest[i], d)}
    <3>1. k - 4 \in 1..Len(rest) + 1
      BY <1>1, <2>4
    <3>2. RestDue(rest, d, k - 4)
      <4>1. CASE k = Len(m) + 1
        BY <1>1, <4>1 DEF RestDue
      <4>2. CASE k # Len(m) + 1
        <5>1. k \in 5..Len(m) /\ Len(m) \in 5..Len(m) /\ Len(m) - 4 = Len(rest)
          BY <1>1, <2>4, <4>2
        <5>2. m[k] = rest[k - 4] /\ m[Len(m)] = rest[Len(rest)] /\ k - 4 \in DOMAIN rest
          BY <1>3, <5>1
        <5>. QED BY <4>2, <5>2 DEF RestDue
      <4>. QED BY <4>1, <4>2
    <3>3. Holds(goodr, badr, k - 4)
      BY <3>1, <3>2 DEF FromRest
    <3>4. PICK j \in goodr : j < k - 4 /\ \A i \in j + 1..(k - 4) - 1 : i \notin badr
      BY <3>3 DEF Holds
    <3>5. \A i \in j + 5..k - 1 : i \notin bad
      <4>. SUFFICES ASSUME NEW i \in j + 5..k - 1 PROVE i \notin bad
        OBVIOUS
      <4>1. i \in 5..Len(m) /\ i - 4 \in j + 1..(k - 4) - 1
        BY <1>1, <3>4
      <4>2. i - 4 \in DOMAIN rest /\ i - 4 \notin badr /\ m[i] = rest[i - 4]
        BY <1>3, <3>4, <4>1
      <4>. QED BY <4>2
    <3>6. CASE j = 0
      <4>1. \A i \in 3 + 1..k - 1 : i \notin bad
        BY <2>1, <3>5, <3>6
      <4>. QED BY <2>1, <2>4, <4>1 DEF Holds
    <3>7. CASE j # 0
      <4>. DEFINE h == j + 4
      <4>1. h \in 0..Len(m) /\ h < k /\ h + 1 = j + 5
        BY <1>1, <3>4
      <4>2. h \in good
        BY <1>1, <1>4, <3>7, <4>1
      <4>3. \A i \in h + 1..k - 1 : i \notin bad
        BY <3>5, <4>1
      <4>. HIDE DEF h
      <4>. QED BY <4>1, <4>2, <4>3 DEF Holds
    <3>. QED BY <3>6, <3>7
  <2>. QED BY <2>2, <2>3, <2>4
<1>10. \A k \in DOMAIN m : m[k].do \in {"note", "raster"} => k = 4 /\ m[k] = Note(p)
  BY <1>2, <1>3, <1>5, <1>6
<1>11. Asking(m)
  BY <1>3, <1>5, <1>6 DEF Asking
<1>12. ASSUME NEW d \in Drives
       PROVE  Holds({i \in DOMAIN m : Sends(m[i], d, Gear[d] * Pose[p][d])},
                    {i \in DOMAIN m : Touches(m[i], d)}, 4)
  <2>. DEFINE good == {i \in DOMAIN m : Sends(m[i], d, Gear[d] * Pose[p][d])}
              bad == {i \in DOMAIN m : Touches(m[i], d)}
  <2>1. 3 \notin bad
    BY <1>2, WaitForBoth, MotorsAreDrives
  <2>2. CASE d = Base
    <3>1. 1 \in good /\ 2 \notin bad
      BY <1>1, <1>2, <2>2, StepSends, StepFacts, MotorsAssumption
    <3>2. \A i \in 1 + 1..4 - 1 : i \notin bad
      BY <2>1, <3>1
    <3>. QED BY <3>1, <3>2 DEF Holds
  <2>3. CASE d = Elbow
    <3>1. 2 \in good
      BY <1>1, <1>2, <2>3, StepSends
    <3>2. \A i \in 2 + 1..4 - 1 : i \notin bad
      BY <2>1
    <3>. QED BY <3>1, <3>2 DEF Holds
  <2>. QED BY <2>2, <2>3, MotorsAssumption DEF Motors
<1>. QED BY <1>7, <1>9, <1>10, <1>11, <1>12

\* One motion, waited for, and what is decided then.
LEMMA OneMotion ==
  ASSUME NEW e \in Drives, NEW n, NEW w, NEW z, NEW p, p = <<StepN(e, n), w, z>>,
         w = Wait(<<e>>) \/ (w = Watch(Base) /\ e = Base), z.do \in {"edge", "raster"}
  PROVE  /\ Shape(p) /\ FromRest(p) /\ Asking(p)
         /\ Len(p) = 3 /\ DOMAIN p = {1, 2, 3} /\ p[3] = z
         /\ p[1].do = "run" /\ p[2].do \in {"wait", "watch"}
         /\ Sends(p[1], e, Gear[e] * n)
         /\ \A d : ~Touches(p[2], d) /\ (d # e => ~Touches(p[1], d))
<1>1. Len(p) = 3 /\ DOMAIN p = {1, 2, 3} /\ p[1] = StepN(e, n) /\ p[2] = w /\ p[3] = z
  OBVIOUS
<1>2. /\ p[1].do = "run" /\ p[1].drive = e
      /\ p[2].do \in {"wait", "watch"} /\ p[3].do \in {"edge", "raster"}
      /\ p[2].do = "watch" => e = Base /\ p[2].drive = Base
  BY <1>1, DoFacts
<1>3. \A d : /\ Moves(p[1], d) <=> d = e
             /\ Touches(p[1], d) <=> d = e
             /\ ~Stills(p[1], d)
  BY <1>1, StepFacts
<1>4. \A d : ~Moves(p[2], d) /\ ~Touches(p[2], d) /\ (Stills(p[2], d) <=> d = e)
  BY <1>1, WaitFacts
<1>5. \A d : ~Moves(p[3], d) /\ ~Touches(p[3], d)
  BY <1>2, OtherFacts
<1>6. Shape(p)
  BY <1>1, <1>2 DEF Shape, Deciding
<1>7. FromRest(p)
  <2>. SUFFICES ASSUME NEW d \in Drives, NEW k \in 1..Len(p) + 1, RestDue(p, d, k)
                PROVE  Holds({i \in 0..Len(p) : i = 0 \/ Stills(p[i], d)},
                             {i \in DOMAIN p : Moves(p[i], d)}, k)
    BY DEF FromRest
  <2>. DEFINE good == {i \in 0..Len(p) : i = 0 \/ Stills(p[i], d)}
              bad == {i \in DOMAIN p : Moves(p[i], d)}
  <2>1. CASE d # e
    <3>1. 0 \in good /\ \A i \in 0 + 1..k - 1 : i \notin bad
      BY <1>1, <1>3, <1>4, <1>5, <2>1
    <3>. QED BY <3>1 DEF Holds
  <2>2. CASE d = e
    <3>1. k \in {3, 4}
      BY <1>1, <1>2, <2>2 DEF RestDue, Deciding
    <3>2. 2 \in good /\ 3 \notin bad
      BY <1>1, <1>4, <1>5, <2>2
    <3>3. \A i \in 2 + 1..k - 1 : i \notin bad
      BY <3>1, <3>2
    <3>. QED BY <3>1, <3>2, <3>3 DEF Holds
  <2>. QED BY <2>1, <2>2
<1>8. Asking(p)
  BY <1>1, <1>2 DEF Asking
<1>9. Sends(p[1], e, Gear[e] * n)
  BY <1>1, StepSends
<1>. QED BY <1>1, <1>2, <1>3, <1>4, <1>6, <1>7, <1>8, <1>9

\* Plans without a motion.
LEMMA DecidingPlans ==
  ASSUME NEW p \in Seq(PlanSteps),
         \A i \in DOMAIN p : p[i].do \in {"aim", "fault", "cell", "edge", "sight"},
         Shape(p)
  PROVE  FromRest(p) /\ Asking(p)
<1>1. FromRest(p)
  BY OtherFacts, FromRestWithoutMotion
<1>. QED BY <1>1 DEF Asking

LEMMA HomePlanRelied ==
  /\ Shape(HomePlan) /\ FromRest(HomePlan) /\ Asking(HomePlan)
  /\ Len(HomePlan) = 4 /\ DOMAIN HomePlan = {1, 2, 3, 4}
  /\ HomePlan[1] = StepN(Base, 0) /\ HomePlan[2] = Wait(<<Base>>)
  /\ HomePlan[3] = StepN(Elbow, 0) /\ HomePlan[4] = Wait(<<Elbow>>)
<1>. DEFINE p == HomePlan
<1>1. /\ Len(p) = 4 /\ DOMAIN p = {1, 2, 3, 4}
      /\ p[1] = StepN(Base, 0) /\ p[2] = Wait(<<Base>>)
      /\ p[3] = StepN(Elbow, 0) /\ p[4] = Wait(<<Elbow>>)
  BY DEF HomePlan, StepperPlan
<1>. HIDE DEF p
<1>2. /\ p[1].do = "run" /\ p[2].do = "wait" /\ p[3].do = "run" /\ p[4].do = "wait"
  BY <1>1, DoFacts
<1>3. \A d : ~Moves(p[2], d) /\ ~Moves(p[4], d) /\ (Moves(p[3], d) <=> d = Elbow)
  BY <1>1, StepFacts, WaitFacts
<1>4. Stills(p[2], Base) /\ Stills(p[4], Elbow)
  BY <1>1, WaitFacts
<1>5. Shape(p) /\ Asking(p)
  BY <1>1, <1>2 DEF Shape, Deciding, Asking
<1>6. FromRest(p)
  <2>. SUFFICES ASSUME NEW d \in Drives, NEW k \in 1..Len(p) + 1, RestDue(p, d, k)
                PROVE  Holds({i \in 0..Len(p) : i = 0 \/ Stills(p[i], d)},
                             {i \in DOMAIN p : Moves(p[i], d)}, k)
    BY DEF FromRest
  <2>. DEFINE good == {i \in 0..Len(p) : i = 0 \/ Stills(p[i], d)}
              bad == {i \in DOMAIN p : Moves(p[i], d)}
  <2>1. k = 5
    BY <1>1, <1>2 DEF RestDue, Deciding
  <2>2. CASE d = Base
    <3>0. Stills(p[2], d) /\ ~Moves(p[3], d) /\ ~Moves(p[4], d)
      BY <1>3, <1>4, <2>2, MotorsAssumption
    <3>1. 2 \in good /\ 3 \notin bad /\ 4 \notin bad
      BY <1>1, <3>0
    <3>2. \A i \in 2 + 1..k - 1 : i \in {3, 4}
      BY <2>1
    <3>. QED BY <2>1, <3>1, <3>2 DEF Holds
  <2>3. CASE d = Elbow
    <3>1. 4 \in good /\ \A i \in 4 + 1..k - 1 : i \notin bad
      BY <1>1, <1>4, <2>1, <2>3
    <3>. QED BY <2>1, <3>1 DEF Holds
  <2>. QED BY <2>2, <2>3, MotorsAssumption DEF Motors
<1>. QED BY <1>1, <1>5, <1>6 DEF p

\* What follows the loops: the arm, at rest, is asked where it is.
LEMMA EdgeEndSteps ==
  ASSUME NEW p, p \in {EdgeEnd, SweepFound, SweepMissed}
  PROVE  /\ p \in Seq(PlanSteps) /\ Len(p) \in {3, 4} /\ DOMAIN p = 1..Len(p)
         /\ p[1] = Ask(Base) /\ p[2] = Ask(Elbow) /\ p[3] = Locate
         /\ Len(p) = 4 => p[4] \in {Aim, Fault}
<1>1. p \in {<<Ask(Base), Ask(Elbow), Locate>>,
             <<Ask(Base), Ask(Elbow), Locate, Aim>>,
             <<Ask(Base), Ask(Elbow), Locate, Fault>>}
  BY DEF EdgeEnd, SweepFound, SweepMissed
<1>2. p \in Seq(PlanSteps)
  BY EndPlansType
<1>. QED BY <1>1, <1>2

LEMMA EdgeEndRelied ==
  ASSUME NEW p, p \in {EdgeEnd, SweepFound, SweepMissed}
  PROVE  /\ Shape(p) /\ FromRest(p) /\ Asking(p)
         /\ \A k \in DOMAIN p : p[k].do \in {"ask", "locate", "aim", "fault"}
<1>1. /\ p \in Seq(PlanSteps) /\ Len(p) \in {3, 4} /\ DOMAIN p = 1..Len(p)
      /\ p[1] = Ask(Base) /\ p[2] = Ask(Elbow) /\ p[3] = Locate
      /\ Len(p) = 4 => p[4] \in {Aim, Fault}
  BY EdgeEndSteps
<1>2. /\ p[1].do = "ask" /\ p[2].do = "ask" /\ p[3].do = "locate"
      /\ Len(p) = 4 => p[4].do \in {"aim", "fault"}
  BY <1>1, DoFacts
<1>3. \A k \in DOMAIN p : k \in {1, 2, 3} \/ (k = 4 /\ Len(p) = 4)
  BY <1>1
<1>4. \A k \in DOMAIN p : p[k].do \in {"ask", "locate", "aim", "fault"}
  BY <1>2, <1>3
<1>5. Shape(p)
  <2>1. \A i, k \in DOMAIN p : i < k /\ p[i].do \in Deciding => k = 4 /\ Len(p) = 4
    BY <1>1, <1>2, <1>3 DEF Deciding
  <2>. QED BY <1>2, <1>4, <2>1 DEF Shape
<1>6. FromRest(p)
  BY <1>1, <1>4, OtherFacts, FromRestWithoutMotion
<1>7. Asking(p)
  <2>. SUFFICES ASSUME NEW k \in DOMAIN p, NEW d \in Drives, p[k].do = "locate"
                PROVE  Holds({i \in DOMAIN p : p[i] = Ask(d)},
                             {i \in DOMAIN p : Touches(p[i], d)}, k)
    BY DEF Asking
  <2>1. k = 3
    BY <1>2, <1>3
  <2>2. \A i \in DOMAIN p : ~Touches(p[i], d)
    BY <1>4, OtherFacts
  <2>3. \E i \in {1, 2} : i \in DOMAIN p /\ p[i] = Ask(d)
    BY <1>1, MotorsAssumption DEF Motors
  <2>. QED BY <2>1, <2>2, <2>3 DEF Holds
<1>. QED BY <1>4, <1>5, <1>6, <1>7

LEMMA ScanPlanRelied == Shape(ScanPlan) /\ FromRest(ScanPlan) /\ Asking(ScanPlan)
<1>. DEFINE p == ScanPlan
<1>1. /\ Len(p) = 8 /\ DOMAIN p = 1..8
      /\ p[1] = Run(Base, "scan_jog_action") /\ p[2] = Run(Elbow, "scan_jog_action")
      /\ p[3] = Sight
      /\ p[4] = Run(Base, "stop_motion") /\ p[5] = Run(Elbow, "stop_motion")
      /\ p[6] = Ask(Base) /\ p[7] = Ask(Elbow) /\ p[8] = Locate
  BY DEF ScanPlan
<1>. HIDE DEF p
<1>2. /\ p[1].do = "run" /\ p[2].do = "run" /\ p[3].do = "sight"
      /\ p[4].do = "run" /\ p[5].do = "run" /\ p[6].do = "ask" /\ p[7].do = "ask"
      /\ p[8].do = "locate"
  BY <1>1, DoFacts
<1>3. \A k \in DOMAIN p : k \in {1, 2, 3, 4, 5, 6, 7, 8}
  BY <1>1
<1>4. Shape(p)
  <2>1. \A i, k \in DOMAIN p : i < k => p[i].do \in {"run", "sight", "ask"}
    BY <1>1, <1>2, <1>3
  <2>. QED BY <1>2, <1>3, <2>1 DEF Shape, Deciding
<1>5. \A d, i : i \in {4, 5, 6, 7, 8} => ~Moves(p[i], d)
  BY <1>1, <1>2, RunFacts, OtherFacts
<1>6. Stills(p[4], Base) /\ Stills(p[5], Elbow)
  BY <1>1, RunFacts
<1>7. FromRest(p)
  <2>. SUFFICES ASSUME NEW d \in Drives, NEW k \in 1..Len(p) + 1, RestDue(p, d, k)
                PROVE  Holds({i \in 0..Len(p) : i = 0 \/ Stills(p[i], d)},
                             {i \in DOMAIN p : Moves(p[i], d)}, k)
    BY DEF FromRest
  <2>. DEFINE good == {i \in 0..Len(p) : i = 0 \/ Stills(p[i], d)}
              bad == {i \in DOMAIN p : Moves(p[i], d)}
  <2>1. k \in {6, 7, 8, 9}
    BY <1>1, <1>2, <1>3 DEF RestDue, Deciding
  <2>2. \E j \in {4, 5} : j \in good
    BY <1>1, <1>6, MotorsAssumption DEF Motors
  <2>3. \A i \in DOMAIN p : i > 4 => i \notin bad
    <3>1. ASSUME NEW i \in DOMAIN p, i > 4 PROVE i \in {5, 6, 7, 8}
      BY <1>3, <3>1
    <3>2. ASSUME NEW i \in DOMAIN p, i > 4 PROVE ~Moves(p[i], d)
      BY <1>5, <3>1, <3>2
    <3>. QED BY <3>2
  <2>4. \A i \in Int : i \in bad => i \in DOMAIN p
    OBVIOUS
  <2>. HIDE DEF good, bad
  <2>5. Holds(good, bad, k)
    BY <2>1, <2>2, <2>3, <2>4 DEF Holds
  <2>. QED BY <2>5 DEF good, bad
<1>8. Asking(p)
  <2>. SUFFICES ASSUME NEW k \in DOMAIN p, NEW d \in Drives, p[k].do = "locate"
                PROVE  Holds({i \in DOMAIN p : p[i] = Ask(d)},
                             {i \in DOMAIN p : Touches(p[i], d)}, k)
    BY DEF Asking
  <2>. DEFINE good == {i \in DOMAIN p : p[i] = Ask(d)}
              bad == {i \in DOMAIN p : Touches(p[i], d)}
  <2>1. k = 8
    BY <1>2, <1>3
  <2>2. \A i \in {6, 7, 8} : i \notin bad
    BY <1>2, OtherFacts
  <2>3. \E j \in {6, 7} : j \in good
    BY <1>1, MotorsAssumption DEF Motors
  <2>. HIDE DEF good, bad
  <2>4. Holds(good, bad, k)
    BY <2>1, <2>2, <2>3 DEF Holds
  <2>. QED BY <2>4 DEF good, bad
<1>. QED BY <1>4, <1>7, <1>8 DEF p

\* Nine steps, two for each of the four motions.
LEMMA SweepPlanSteps ==
  LET p == SweepPlan
  IN  /\ Len(p) = 9 /\ DOMAIN p = 1..9
      /\ p[1] = StepN(Base, 0) /\ p[2] = Wait(<<Base>>)
      /\ p[3] = StepN(Elbow, 0) /\ p[4] = Wait(<<Elbow>>)
      /\ p[5] = StepN(Base, Field) /\ p[6] = Wait(<<Base>>)
      /\ p[7] = StepN(Elbow, RowSteps(0, steps[Elbow])) /\ p[8] = Wait(<<Elbow>>)
      /\ p[9] = Raster(0, Field, "down")
BY DEF SweepPlan, HomePlan, StepperPlan, Row

LEMMA SweepPlanRelied ==
  /\ Shape(SweepPlan) /\ FromRest(SweepPlan) /\ Asking(SweepPlan)
  /\ \A k \in DOMAIN SweepPlan : SweepPlan[k].do \in {"note", "raster"} => k = 9
  /\ \A d \in Drives :
       Holds({i \in DOMAIN SweepPlan : Sends(SweepPlan[i], d, Due(SweepPlan[9], d))},
             {i \in DOMAIN SweepPlan : Touches(SweepPlan[i], d)}, 9)
<1>. DEFINE p == SweepPlan
<1>1. /\ Len(p) = 9 /\ DOMAIN p = 1..9
      /\ p[1] = StepN(Base, 0) /\ p[2] = Wait(<<Base>>)
      /\ p[3] = StepN(Elbow, 0) /\ p[4] = Wait(<<Elbow>>)
      /\ p[5] = StepN(Base, Field) /\ p[6] = Wait(<<Base>>)
      /\ p[7] = StepN(Elbow, RowSteps(0, steps[Elbow])) /\ p[8] = Wait(<<Elbow>>)
      /\ p[9] = Raster(0, Field, "down")
  BY SweepPlanSteps
<1>. HIDE DEF p
<1>2. /\ p[1].do = "run" /\ p[2].do = "wait" /\ p[3].do = "run" /\ p[4].do = "wait"
      /\ p[5].do = "run" /\ p[6].do = "wait" /\ p[7].do = "run" /\ p[8].do = "wait"
      /\ p[9].do = "raster"
      /\ p[1].drive = Base /\ p[3].drive = Elbow /\ p[5].drive = Base
      /\ p[7].drive = Elbow
  BY <1>1, DoFacts
<1>3. \A k \in DOMAIN p : k \in {1, 2, 3, 4, 5, 6, 7, 8, 9}
  BY <1>1
<1>4. \A d : /\ ~Touches(p[2], d) /\ ~Touches(p[4], d) /\ ~Touches(p[6], d)
             /\ ~Touches(p[8], d) /\ ~Touches(p[9], d)
  BY <1>1, <1>2, WaitFacts, OtherFacts
<1>5. \A d : /\ Touches(p[1], d) <=> d = Base
             /\ Touches(p[3], d) <=> d = Elbow
             /\ Touches(p[5], d) <=> d = Base
             /\ Touches(p[7], d) <=> d = Elbow
  BY <1>1, StepFacts
<1>6. /\ Stills(p[2], Base) /\ Stills(p[4], Elbow)
      /\ Stills(p[6], Base) /\ Stills(p[8], Elbow)
  BY <1>1, WaitFacts
<1>7. \A d, i : Moves(p[i], d) => Touches(p[i], d)
  BY DEF Moves
<1>8. Shape(p)
  <2>1. \A i, k \in DOMAIN p : i < k => p[i].do \in {"run", "wait"}
    BY <1>1, <1>2, <1>3
  <2>. QED BY <1>2, <1>3, <2>1 DEF Shape, Deciding
<1>9. FromRest(p)
  <2>. SUFFICES ASSUME NEW d \in Drives, NEW k \in 1..Len(p) + 1, RestDue(p, d, k)
                PROVE  Holds({i \in 0..Len(p) : i = 0 \/ Stills(p[i], d)},
                             {i \in DOMAIN p : Moves(p[i], d)}, k)
    BY DEF FromRest
  <2>. DEFINE good == {i \in 0..Len(p) : i = 0 \/ Stills(p[i], d)}
              bad == {i \in DOMAIN p : Moves(p[i], d)}
  <2>1. k \in {1, 3, 5, 7, 9, 10}
    BY <1>1, <1>2, <1>3 DEF RestDue, Deciding
  <2>2. 0 \in good
    BY <1>1
  <2>3. \A i : i \in bad => i \in 1..9 /\ Touches(p[i], d)
    BY <1>1, <1>7
  <2>4. CASE d = Base
    <3>1. k # 1 /\ k # 5
      BY <1>1, <1>2, <2>4, MotorsAssumption DEF RestDue, Deciding
    <3>2. 2 \in good /\ 6 \in good
      BY <1>1, <1>6, <2>4
    <3>3. \A i \in bad : i = 1 \/ i = 5
      BY <1>3, <1>1, <1>4, <1>5, <2>3, <2>4, MotorsAssumption
    <3>. HIDE DEF good, bad
    <3>4. Holds(good, bad, k)
      BY <2>1, <3>1, <3>2, <3>3 DEF Holds
    <3>. QED BY <3>4 DEF good, bad
  <2>5. CASE d = Elbow
    <3>1. k # 3 /\ k # 7
      BY <1>1, <1>2, <2>5, MotorsAssumption DEF RestDue, Deciding
    <3>2. 4 \in good /\ 8 \in good
      BY <1>1, <1>6, <2>5
    <3>3. \A i \in bad : i = 3 \/ i = 7
      BY <1>3, <1>1, <1>4, <1>5, <2>3, <2>5, MotorsAssumption
    <3>. HIDE DEF good, bad
    <3>4. Holds(good, bad, k)
      BY <2>1, <2>2, <3>1, <3>2, <3>3 DEF Holds
    <3>. QED BY <3>4 DEF good, bad
  <2>. QED BY <2>4, <2>5, MotorsAssumption DEF Motors
<1>10. Asking(p)
  BY <1>2, <1>3 DEF Asking
<1>11. \A k \in DOMAIN p : p[k].do \in {"note", "raster"} => k = 9
  BY <1>2, <1>3
<1>12. ASSUME NEW d \in Drives
       PROVE  Holds({i \in DOMAIN p : Sends(p[i], d, Due(p[9], d))},
                    {i \in DOMAIN p : Touches(p[i], d)}, 9)
  <2>. DEFINE good == {i \in DOMAIN p : Sends(p[i], d, Due(p[9], d))}
              bad == {i \in DOMAIN p : Touches(p[i], d)}
  <2>1. CASE d = Base
    <3>1. Due(p[9], d) = Gear[Base] * Field
      BY <1>1, <1>2, <2>1, DoFacts DEF Due
    <3>2. 5 \in good
      BY <1>1, <2>1, <3>1, StepSends
    <3>3. \A i \in 5 + 1..9 - 1 : i \in {6, 7, 8} /\ i \notin bad
      BY <1>4, <1>5, <2>1, MotorsAssumption
    <3>. QED BY <3>2, <3>3 DEF Holds
  <2>2. CASE d = Elbow
    <3>1. Due(p[9], d) = Gear[Elbow] * RowSteps(0, steps[Elbow])
      BY <1>1, <1>2, <2>2, DoFacts, MotorsAssumption DEF Due
    <3>2. 7 \in good
      BY <1>1, <2>2, <3>1, StepSends
    <3>3. \A i \in 7 + 1..9 - 1 : i = 8 /\ i \notin bad
      BY <1>4
    <3>. QED BY <3>2, <3>3 DEF Holds
  <2>. QED BY <2>1, <2>2, MotorsAssumption DEF Motors
<1>. QED BY <1>8, <1>9, <1>10, <1>11, <1>12 DEF p

\* Where the arm will be at the steps of a new plan.
LEMMA NewPlace ==
  ASSUME NEW p, plan' = p, Len(p) \in Nat, DOMAIN p = 1..Len(p),
         \A k \in DOMAIN p, d \in Drives : p[k].do \in {"note", "raster"} =>
           Holds({i \in DOMAIN p : Sends(p[i], d, Due(p[k], d)')},
                 {i \in DOMAIN p : Touches(p[i], d)}, k)
  PROVE  PlaceInv'
<1>. SUFFICES ASSUME NEW k \in DOMAIN plan', NEW d \in Drives,
                     plan'[k].do \in {"note", "raster"}
              PROVE  Placed(plan, d, Due(plan[k], d), k)'
  BY DEF PlaceInv
<1>. DEFINE good == {i \in DOMAIN p : Sends(p[i], d, Due(p[k], d)')}
            bad == {i \in DOMAIN p : Touches(p[i], d)}
<1>1. Holds(good, bad, k)
  OBVIOUS
<1>. QED BY <1>1, HoldsKept DEF Placed

-----------------------------------------------------------------------------
(* Steps that give the arm a new plan *)

\* Nothing changes for the drives.
LEMMA DrivesAlone ==
  ASSUME UNCHANGED vars, NEW d
  PROVE  /\ Settled(d) => Settled(d)'
         /\ Resting(d) => Resting(d)'
         /\ Located(d) => Located(d)'
         /\ \A n : Bound(d, n) => Bound(d, n)'
BY DEF vars, Settled, Resting, Located, Bound, AtRest, Stops, Calm, Neutral, Feeds

\* At a step that is for an arm at rest it is at rest.
LEMMA RestNow ==
  ASSUME MotionInv, call = None, NEW d \in Drives, RestDue(plan, d, 1)
  PROVE  Settled(d) /\ Resting(d)
<1>1. Len(plan) \in Nat
  BY DEF MotionInv, ArmTypeOK
<1>2. Rested(plan, d, 1)
  BY <1>1 DEF MotionInv, PlanInv, RestInv
<1>3. Resting(d)
  BY <1>1, <1>2, Present
<1>. QED BY <1>3, RestBetweenCalls DEF MotionInv

\* The first step of a plan is the one that is due.
LEMMA AtFirst ==
  ASSUME ArmTypeOK, NEW do, At(do)
  PROVE  /\ plan # <<>> /\ 1 \in DOMAIN plan /\ Head(plan) = plan[1]
         /\ plan[1].do = do /\ plan[1] \in PlanSteps /\ Len(plan) \in Nat
         /\ DOMAIN plan = 1..Len(plan)
BY DEF ArmTypeOK, At

LEMMA AllAtRest ==
  ASSUME MotionInv, call = None,
         \/ plan = <<>>
         \/ \E do \in Deciding \union {"note", "ask"} : At(do)
  PROVE  \A d \in Drives : Settled(d) /\ Resting(d)
<1>. SUFFICES ASSUME NEW d \in Drives PROVE RestDue(plan, d, 1)
  BY RestNow
<1>1. CASE plan = <<>>
  BY <1>1 DEF RestDue
<1>2. ASSUME NEW do \in Deciding \union {"note", "ask"}, At(do)
      PROVE  RestDue(plan, d, 1)
  BY <1>2, AtFirst DEF RestDue, MotionInv
<1>. QED BY <1>1, <1>2

\* HOME runs and waits.
LEMMA HomeHead ==
  ASSUME MotionInv, command = "home", plan # <<>>
  PROVE  /\ Len(plan) \in 1..4 /\ Head(plan) = HomePlan[5 - Len(plan)]
         /\ Head(plan).do \in {"run", "wait"}
<1>1. Len(plan) \in Nat \ {0} /\ Head(plan) = plan[1] /\ 1 \in DOMAIN plan
  BY TailOfPlan DEF MotionInv
<1>2. Len(plan) <= 4 /\ plan[1] = HomePlan[4 - Len(plan) + 1]
  BY <1>1 DEF MotionInv, PlanInv, HomeInv
<1>3. ASSUME NEW n \in Nat \ {0}, n <= 4
      PROVE  n \in {1, 2, 3, 4} /\ 4 - n + 1 = 5 - n /\ 5 - n \in {1, 2, 3, 4}
  BY <1>3
<1>4. /\ Len(plan) \in {1, 2, 3, 4} /\ Head(plan) = HomePlan[5 - Len(plan)]
      /\ 5 - Len(plan) \in {1, 2, 3, 4}
  BY <1>1, <1>2, <1>3
<1>5. \A i \in {1, 2, 3, 4} : HomePlan[i].do \in {"run", "wait"}
  BY HomePlanRelied, DoFacts
<1>. QED BY <1>4, <1>5

\* The rest of the invariant, when the plan changes and the arm does not.
LEMMA FreshPlan ==
  ASSUME MotionInv, UNCHANGED <<vars, round, in_motion>>, call = None,
         started = Drives, command' # None, ~At("wait"), ~At("watch"),
         \A d \in Drives : Settled(d), PlanRelied', HomeInv'
  PROVE  PlanInv'
<1>1. UNCHANGED <<call, started>>
  BY DEF vars
<1>2. in_motion
  BY DEF MotionInv, PlanInv, RoundInv
<1>3. \A i \in DOMAIN round : round[i] # Camera
  BY DEF MotionInv, PlanInv, RoundInv
<1>4. DutyInv'
  BY <1>1 DEF DutyInv
<1>5. RoundInv' /\ WaitInv'
  BY <1>2, <1>3 DEF RoundInv, WaitInv
<1>6. JointInv'
  BY DrivesAlone, MotorsAreDrives DEF JointInv
<1>. QED BY <1>4, <1>5, <1>6 DEF PlanInv, PlanRelied

\* A plan that begins at rest is relied on with reason.
LEMMA RestedPlan ==
  ASSUME UNCHANGED vars, \A d \in Drives : Resting(d), NEW p, plan' = p,
         Len(p) \in Nat, DOMAIN p = 1..Len(p),
         Shape(p), FromRest(p), Asking(p), PlaceInv'
  PROVE  PlanRelied'
<1>1. RestInv'
  BY DrivesAlone, NewRest
<1>2. AskInv'
  BY NewAsk
<1>3. Shape(plan)'
  BY DEF Shape
<1>. QED BY <1>1, <1>2, <1>3 DEF PlanRelied

\* So is a move, and what is done where it arrives.
LEMMA MoveRelied ==
  ASSUME UNCHANGED vars, \A d \in Drives : Resting(d), NEW p \in Places,
         NEW rest \in Seq(PlanSteps), plan' = MovePlan(p) \o rest, steps' = Pose[p],
         Shape(rest), FromRest(rest),
         \A i \in DOMAIN rest : rest[i].do \notin {"note", "raster", "locate"}
  PROVE  PlanRelied'
<1>. DEFINE m == MovePlan(p) \o rest
<1>1. MoveThen(m, p, rest)
  BY MovePlanSteps
<1>2. plan' = m
  OBVIOUS
<1>. HIDE DEF m
<1>3. Len(m) \in Nat /\ DOMAIN m = 1..Len(m)
  BY <1>1 DEF MoveThen
<1>4. /\ Shape(m) /\ FromRest(m) /\ Asking(m)
      /\ \A k \in DOMAIN m : m[k].do \in {"note", "raster"} => k = 4 /\ m[k] = Note(p)
      /\ \A d \in Drives :
           Holds({i \in DOMAIN m : Sends(m[i], d, Gear[d] * Pose[p][d])},
                 {i \in DOMAIN m : Touches(m[i], d)}, 4)
  BY <1>1, MovePlanRelied
<1>5. ASSUME NEW k \in DOMAIN m, NEW d \in Drives, m[k].do \in {"note", "raster"}
      PROVE  Holds({i \in DOMAIN m : Sends(m[i], d, Due(m[k], d)')},
                   {i \in DOMAIN m : Touches(m[i], d)}, k)
  <2>1. k = 4 /\ m[k] = Note(p)
    BY <1>4, <1>5
  <2>2. Due(m[k], d)' = Gear[d] * Pose[p][d]
    BY <2>1, DoFacts DEF Due
  <2>. QED BY <1>4, <2>1, <2>2
<1>6. PlaceInv'
  BY <1>2, <1>3, <1>5, NewPlace
<1>. QED BY <1>2, <1>3, <1>4, <1>6, RestedPlan

\* A plan without a step that relies on where the arm will be.
LEMMA NoPlace ==
  ASSUME NEW p, plan' = p, Len(p) \in Nat, DOMAIN p = 1..Len(p),
         \A k \in DOMAIN p : p[k].do \notin {"note", "raster"}
  PROVE  PlaceInv'
BY NewPlace

\* The console gives its commands to an arm at rest.
LEMMA CommandBegins ==
  ASSUME MotionInv, Commands
  PROVE  /\ UNCHANGED <<vars, round, in_motion>> /\ started = Drives
         /\ call = None /\ plan = <<>> /\ command' # None
         /\ \A d \in Drives : Settled(d) /\ Resting(d)
<1>1. /\ UNCHANGED <<vars, round, in_motion>> /\ started = Drives
      /\ call = None /\ plan = <<>> /\ command' # None
  BY NoneCommandAssumption
  DEF Commands, MoveTo, Home, Scan, Directed, Sweep, ToPattern, ToTarget, Console
<1>. QED BY <1>1, AllAtRest

LEMMA CommandsRelied ==
  ASSUME MotionInv, Commands
  PROVE  PlanRelied' /\ HomeInv'
<1>1. UNCHANGED vars /\ \A d \in Drives : Resting(d)
  BY CommandBegins
<1>2. ASSUME NEW p \in Places, MoveTo(p)
      PROVE  PlanRelied' /\ HomeInv'
  <2>. DEFINE rest == <<>>
  <2>1. /\ plan' = MovePlan(p) \o rest /\ steps' = Pose[p] /\ command' = "move"
        /\ rest \in Seq(PlanSteps) /\ DOMAIN rest = {}
    BY <1>2, MovePlanType, ConcatEmptySeq DEF MoveTo, Console
  <2>. HIDE DEF rest
  <2>2. Shape(rest) /\ FromRest(rest)
    BY <2>1, FromRestWithoutMotion DEF Shape
  <2>3. PlanRelied'
    BY <1>1, <2>1, <2>2, MoveRelied
  <2>. QED BY <2>1, <2>3 DEF HomeInv
<1>3. CASE Home
  <2>1. plan' = HomePlan /\ command' = "home"
    BY <1>3 DEF Home, Console
  <2>2. /\ HomePlan[1].do = "run" /\ HomePlan[2].do = "wait"
        /\ HomePlan[3].do = "run" /\ HomePlan[4].do = "wait"
    BY HomePlanRelied, DoFacts
  <2>3. PlaceInv'
    BY <2>1, <2>2, HomePlanRelied, NoPlace
  <2>4. Len(HomePlan) \in Nat /\ DOMAIN HomePlan = 1..Len(HomePlan)
    BY HomePlanRelied
  <2>5. PlanRelied'
    BY <1>1, <2>1, <2>3, <2>4, HomePlanRelied, RestedPlan
  <2>6. HomeInv'
    BY <2>1, HomePlanRelied DEF HomeInv
  <2>. QED BY <2>5, <2>6
<1>4. CASE Scan
  <2>1. plan' = ScanPlan /\ command' = "scan"
    BY <1>4 DEF Scan, Console
  <2>2. Len(ScanPlan) = 8 /\ DOMAIN ScanPlan = 1..8
        /\ \A k \in DOMAIN ScanPlan : ScanPlan[k].do \in {"run", "sight", "ask", "locate"}
    BY DoFacts DEF ScanPlan
  <2>3. PlaceInv'
    BY <2>1, <2>2, NoPlace
  <2>4. PlanRelied'
    BY <1>1, <2>1, <2>2, <2>3, ScanPlanRelied, RestedPlan
  <2>. QED BY <2>1, <2>4 DEF HomeInv
<1>5. ASSUME NEW p \in Seq(PlanSteps), plan' = p, command' # "home",
             \A i \in DOMAIN p : p[i].do \in {"aim", "cell", "edge", "sight"},
             Len(p) \in {1, 2}, Len(p) = 2 => p[1].do = "sight"
      PROVE  PlanRelied' /\ HomeInv'
  <2>1. Len(p) \in Nat /\ DOMAIN p = 1..Len(p)
    OBVIOUS
  <2>2. Shape(p)
    <3>1. \A i, k \in DOMAIN p : i < k => i = 1 /\ Len(p) = 2
      BY <1>5, <2>1
    <3>. QED BY <1>5, <3>1 DEF Shape, Deciding
  <2>3. FromRest(p) /\ Asking(p)
    BY <1>5, <2>2, DecidingPlans
  <2>4. PlaceInv'
    BY <1>5, <2>1, NoPlace
  <2>5. PlanRelied'
    BY <1>1, <1>5, <2>1, <2>2, <2>3, <2>4, RestedPlan
  <2>. QED BY <1>5, <2>5 DEF HomeInv
<1>6. CASE Directed
  <2>. DEFINE p == <<Edge(1)>>
  <2>1. plan' = p /\ command' # "home"
    BY <1>6 DEF Directed, Console
  <2>2. Edge(1) \in PlanSteps
    BY DEF Edge, EdgeSteps, PlanSteps
  <2>3. p \in Seq(PlanSteps) /\ Len(p) = 1 /\ \A i \in DOMAIN p : p[i].do = "edge"
    BY <2>2, DoFacts
  <2>. HIDE DEF p
  <2>. QED BY <1>5, <2>1, <2>3
<1>7. CASE Sweep
  <2>1. plan' = SweepPlan /\ command' = "sweep" /\ steps' = steps
    BY <1>7 DEF Sweep, Console
  <2>2. Len(SweepPlan) = 9 /\ DOMAIN SweepPlan = 1..Len(SweepPlan) /\ 9 \in Nat
    BY SweepPlanSteps
  <2>3. \A d : Due(SweepPlan[9], d)' = Due(SweepPlan[9], d)
    <3>1. SweepPlan[9] = Raster(0, Field, "down")
      BY SweepPlanSteps
    <3>2. SweepPlan' = SweepPlan
      BY <2>1 DEF SweepPlan, Row, RowSteps
    <3>. QED BY <2>1, <3>2 DEF Due, RowSteps
  <2>4. PlaceInv'
    <3>. SUFFICES ASSUME NEW k \in DOMAIN plan', NEW d \in Drives,
                         plan'[k].do \in {"note", "raster"}
                  PROVE  Placed(plan, d, Due(plan[k], d), k)'
      BY DEF PlaceInv
    <3>1. k = 9
      BY <2>1, SweepPlanRelied
    <3>2. SweepPlan' = SweepPlan
      BY <2>1 DEF SweepPlan, Row, RowSteps
    <3>3. Due(plan[k], d)' = Due(SweepPlan[9], d)
      BY <2>1, <2>3, <3>1, <3>2
    <3>4. Holds({i \in DOMAIN SweepPlan : Sends(SweepPlan[i], d, Due(SweepPlan[9], d))},
                {i \in DOMAIN SweepPlan : Touches(SweepPlan[i], d)}, 9)
      BY SweepPlanRelied
    <3>. QED BY <2>1, <2>2, <3>1, <3>3, <3>4, HoldsKept DEF Placed
  <2>5. PlanRelied'
    BY <1>1, <2>1, <2>2, <2>4, SweepPlanRelied, RestedPlan
  <2>. QED BY <2>1, <2>5 DEF HomeInv
<1>8. CASE ToPattern
  <2>1. /\ Aim \in PlanSteps /\ Sight \in PlanSteps
        /\ Aim.do = "aim" /\ Sight.do = "sight"
    BY BareStepsType, DoFacts
  <2>2. PICK p \in {<<Aim>>, <<Sight, Aim>>} : plan' = p
    BY <1>8 DEF ToPattern, Console
  <2>3. /\ p \in Seq(PlanSteps) /\ Len(p) \in {1, 2}
        /\ Len(p) = 2 => p[1].do = "sight"
        /\ \A i \in DOMAIN p : p[i].do \in {"aim", "sight"}
    <3>1. CASE p = <<Aim>>
      BY <2>1, <3>1
    <3>2. CASE p = <<Sight, Aim>>
      BY <2>1, <3>2
    <3>. QED BY <3>1, <3>2
  <2>4. command' # "home"
    BY <1>8 DEF ToPattern, Console
  <2>. QED BY <1>5, <2>2, <2>3, <2>4
<1>9. CASE ToTarget
  <2>. DEFINE p == <<Cell>>
  <2>1. plan' = p /\ command' # "home"
    BY <1>9 DEF ToTarget, Console
  <2>2. p \in Seq(PlanSteps) /\ Len(p) = 1 /\ \A i \in DOMAIN p : p[i].do = "cell"
    BY BareStepsType, DoFacts
  <2>. HIDE DEF p
  <2>. QED BY <1>5, <2>1, <2>2
<1>. QED BY <1>2, <1>3, <1>4, <1>6, <1>7, <1>8, <1>9 DEF Commands

LEMMA CommandsKeep ==
  ASSUME MotionInv, Commands
  PROVE  PlanInv'
BY CommandBegins, CommandsRelied, FreshPlan DEF At

Decisions ==
  \/ LocateStep \/ AimStep \/ CellStep \/ FaultStep
  \/ EdgeStep \/ Column \/ NextRow

\* What is decided is decided with the arm at rest.
LEMMA DecisionBegins ==
  ASSUME MotionInv, Decisions
  PROVE  /\ UNCHANGED <<vars, round, in_motion, command>> /\ started = Drives
         /\ call = None /\ command # None /\ command # "home"
         /\ ~At("wait") /\ ~At("watch") /\ plan # <<>>
         /\ \A d \in Drives : Settled(d) /\ Resting(d)
<1>1. UNCHANGED <<vars, round, in_motion, command>> /\ call = None
  BY DEF Decisions, LocateStep, AimStep, CellStep, FaultStep, EdgeStep, Column,
         NextRow, GoTo
<1>2. PICK do \in Deciding : At(do)
  BY DEF Decisions, LocateStep, AimStep, CellStep, FaultStep, EdgeStep, Column,
         NextRow, Deciding
<1>3. do \notin {"run", "wait", "watch"} /\ plan # <<>> /\ Head(plan).do = do
  BY <1>2 DEF Deciding, At
<1>4. command # None /\ started = Drives
  BY <1>3 DEF MotionInv, PlanInv, DutyInv
<1>5. command # "home"
  BY <1>3, HomeHead
<1>6. \A d \in Drives : Settled(d) /\ Resting(d)
  BY <1>1, <1>2, AllAtRest
<1>. QED BY <1>1, <1>3, <1>4, <1>5, <1>6 DEF At

\* What stands behind a decision are decisions, and no motion.
LEMMA DecidingRest ==
  ASSUME MotionInv, NEW do \in Deciding, At(do), NEW q, q = Tail(plan)
  PROVE  /\ q \in Seq(PlanSteps) /\ Shape(q) /\ FromRest(q)
         /\ \A i \in DOMAIN q : q[i].do \in {"aim", "fault"}
         /\ plan \in Seq(PlanSteps) /\ Shape(plan)
         /\ do = "cell" => /\ FromRest(plan)
                           /\ \A i \in DOMAIN plan : plan[i].do \in {"cell", "aim", "fault"}
<1>1. /\ plan # <<>> /\ 1 \in DOMAIN plan /\ plan[1].do = do
      /\ plan \in Seq(PlanSteps)
  BY AtFirst DEF MotionInv, ArmTypeOK
<1>2. Shape(plan)
  BY DEF MotionInv, PlanInv
<1>3. /\ DOMAIN plan = 1..Len(plan) /\ DOMAIN q = 1..Len(q)
      /\ \A i \in DOMAIN q : i + 1 \in DOMAIN plan /\ q[i] = plan[i + 1]
      /\ Len(plan) \in Nat \ {0} /\ Len(q) = Len(plan) - 1
  BY <1>1, TailOfPlan DEF MotionInv
<1>4. q \in Seq(PlanSteps)
  BY <1>1
<1>5. \A i \in DOMAIN plan : i # 1 => plan[i].do \in {"aim", "fault"}
  <2>. SUFFICES ASSUME NEW i \in DOMAIN plan, i # 1 PROVE plan[i].do \in {"aim", "fault"}
    OBVIOUS
  <2>1. 1 < i
    BY <1>3
  <2>. QED BY <1>1, <1>2, <2>1 DEF Shape
<1>6. \A i \in DOMAIN q : q[i].do \in {"aim", "fault"}
  BY <1>3, <1>5
<1>7. Shape(q)
  <2>1. \A i, k \in DOMAIN q : i < k => i + 1 < k + 1
    BY <1>3
  <2>. QED BY <1>2, <1>3, <2>1 DEF Shape
<1>8. FromRest(q)
  BY <1>4, <1>6, <1>7, DecidingPlans
<1>9. ASSUME do = "cell"
      PROVE  /\ FromRest(plan)
             /\ \A i \in DOMAIN plan : plan[i].do \in {"cell", "aim", "fault"}
  <2>1. \A i \in DOMAIN plan : plan[i].do \in {"cell", "aim", "fault"}
    BY <1>1, <1>5, <1>9
  <2>. QED BY <1>1, <1>2, <2>1, DecidingPlans
<1>. QED BY <1>1, <1>2, <1>4, <1>6, <1>7, <1>8, <1>9

\* One motion that brings the arm to where it is due, when the other joint is
\* there already.
LEMMA OneMotionRelied ==
  ASSUME UNCHANGED <<vars, steps>>, \A d \in Drives : Resting(d),
         NEW e \in Drives, NEW n, NEW w, NEW z, z.do = "raster",
         plan' = <<StepN(e, n), w, z>>,
         w = Wait(<<e>>) \/ (w = Watch(Base) /\ e = Base),
         Due(z, e) = Gear[e] * n,
         \A d \in Drives \ {e} : Bound(d, Due(z, d))
  PROVE  PlanRelied'
<1>. DEFINE p == <<StepN(e, n), w, z>>
<1>1. plan' = p
  OBVIOUS
<1>2. /\ Shape(p) /\ FromRest(p) /\ Asking(p)
      /\ Len(p) = 3 /\ DOMAIN p = {1, 2, 3} /\ p[3] = z
      /\ p[1].do = "run" /\ p[2].do \in {"wait", "watch"}
      /\ Sends(p[1], e, Gear[e] * n)
      /\ \A d : ~Touches(p[2], d) /\ (d # e => ~Touches(p[1], d))
  BY OneMotion
<1>3. \A d \in Drives : Due(z, d)' = Due(z, d)
  BY DEF Due, RowSteps
<1>. HIDE DEF p
<1>4. PlaceInv'
  <2>. SUFFICES ASSUME NEW k \in DOMAIN plan', NEW d \in Drives,
                       plan'[k].do \in {"note", "raster"}
                PROVE  Placed(plan, d, Due(plan[k], d), k)'
    BY DEF PlaceInv
  <2>0. PICK m : m = Due(z, d)
    OBVIOUS
  <2>. DEFINE good == {i \in 0..Len(p) : IF i = 0 THEN Bound(d, m)' ELSE Sends(p[i], d, m)}
              bad == {i \in DOMAIN p : Touches(p[i], d)}
  <2>1. k = 3 /\ plan'[k] = z
    BY <1>1, <1>2
  <2>2. Due(plan[k], d)' = m
    BY <1>3, <2>0, <2>1
  <2>3. 2 \notin bad
    BY <1>2
  <2>4. CASE d = e
    <3>1. 1 \in good
      BY <1>2, <2>0, <2>4
    <3>2. \A i \in 1 + 1..3 - 1 : i \notin bad
      BY <2>3
    <3>. QED BY <3>1, <3>2, <2>1, <2>2, <1>1 DEF Holds, Placed
  <2>5. CASE d # e
    <3>1. Bound(d, m)'
      <4>1. Bound(d, m)
        BY <2>0, <2>5
      <4>. QED BY <4>1, DrivesAlone
    <3>2. 0 \in good /\ 1 \notin bad
      BY <1>2, <2>5, <3>1
    <3>3. \A i \in 0 + 1..3 - 1 : i \notin bad
      BY <2>3, <3>2
    <3>. QED BY <3>2, <3>3, <2>1, <2>2, <1>1 DEF Holds, Placed
  <2>. QED BY <2>4, <2>5
<1>5. Len(p) \in Nat /\ DOMAIN p = 1..Len(p)
  BY <1>2
<1>. QED BY <1>1, <1>2, <1>4, <1>5, RestedPlan

LEMMA PairAndOne ==
  ASSUME NEW a, NEW b, NEW c
  PROVE  <<a, b>> \o <<c>> = <<a, b, c>>
<1>. DEFINE S == {a, b, c}
            s == <<a, b>> \o <<c>>
            t == <<a, b, c>>
<1>1. <<a, b>> \in Seq(S) /\ <<c>> \in Seq(S)
  OBVIOUS
<1>2. s \in Seq(S) /\ t \in Seq(S)
  BY <1>1
<1>3. Len(s) = 3 /\ Len(t) = 3
  BY <1>1
<1>4. s[1] = t[1] /\ s[2] = t[2] /\ s[3] = t[3]
  BY <1>1
<1>. HIDE DEF S, s, t
<1>5. \A i \in 1..Len(s) : s[i] = t[i]
  BY <1>3, <1>4
<1>6. s = t
  BY <1>2, <1>3, <1>5, SeqEqual
<1>. QED BY <1>6 DEF s, t

\* An arm at rest is asked where it is.
LEMMA EndRelied ==
  ASSUME UNCHANGED vars, \A d \in Drives : Resting(d),
         plan' \in {EdgeEnd, SweepFound, SweepMissed}
  PROVE  PlanRelied'
<1>1. PICK p \in {EdgeEnd, SweepFound, SweepMissed} : plan' = p
  OBVIOUS
<1>2. /\ Shape(p) /\ FromRest(p) /\ Asking(p)
      /\ \A k \in DOMAIN p : p[k].do \in {"ask", "locate", "aim", "fault"}
  BY EdgeEndRelied
<1>3. Len(p) \in Nat /\ DOMAIN p = 1..Len(p)
  BY EdgeEndSteps
<1>4. PlaceInv'
  BY <1>1, <1>2, <1>3, NoPlace
<1>. QED BY <1>1, <1>2, <1>3, <1>4, RestedPlan

LEMMA DecisionsRelied ==
  ASSUME MotionInv, Decisions
  PROVE  PlanRelied'
<1>1. /\ UNCHANGED vars /\ call = None /\ plan # <<>>
      /\ \A d \in Drives : Resting(d)
  BY DecisionBegins
<1>2. ASSUME NEW do \in Deciding, At(do), NEW p \in Places, GoTo(p, Tail(plan))
      PROVE  PlanRelied'
  <2>. DEFINE rest == Tail(plan)
  <2>1. /\ rest \in Seq(PlanSteps) /\ Shape(rest) /\ FromRest(rest)
        /\ \A i \in DOMAIN rest : rest[i].do \in {"aim", "fault"}
    BY <1>2, DecidingRest
  <2>2. plan' = MovePlan(p) \o rest /\ steps' = Pose[p]
    BY <1>2 DEF GoTo
  <2>. HIDE DEF rest
  <2>. QED BY <1>1, <2>1, <2>2, MoveRelied
<1>3. CASE LocateStep \/ AimStep
  BY <1>2, <1>3 DEF LocateStep, AimStep, Deciding
<1>4. CASE CellStep
  <2>1. PICK p \in Places : GoTo(p, plan)
    BY <1>4 DEF CellStep
  <2>2. /\ plan \in Seq(PlanSteps) /\ Shape(plan) /\ FromRest(plan)
        /\ \A i \in DOMAIN plan : plan[i].do \in {"cell", "aim", "fault"}
    BY <1>4, DecidingRest DEF CellStep, Deciding
  <2>3. plan' = MovePlan(p) \o plan /\ steps' = Pose[p]
    BY <2>1 DEF GoTo
  <2>. QED BY <1>1, <2>2, <2>3, MoveRelied
<1>5. CASE FaultStep
  <2>. DEFINE p == <<Aim>>
  <2>1. p \in Seq(PlanSteps) /\ Len(p) = 1 /\ DOMAIN p = {1} /\ p[1].do = "aim"
    BY BareStepsType, DoFacts
  <2>2. plan' = p
    BY <1>5 DEF FaultStep
  <2>. HIDE DEF p
  <2>3. Shape(p)
    BY <2>1 DEF Shape, Deciding
  <2>4. FromRest(p) /\ Asking(p)
    BY <2>1, <2>3, DecidingPlans
  <2>5. Len(p) \in Nat /\ DOMAIN p = 1..Len(p)
    BY <2>1
  <2>6. PlaceInv'
    BY <2>1, <2>2, <2>5, NoPlace
  <2>. QED BY <1>1, <2>2, <2>3, <2>4, <2>5, <2>6, RestedPlan
<1>6. CASE EdgeStep
  <2>. DEFINE i == Head(plan).i
  <2>1. CASE /\ i \in DOMAIN Edges
             /\ GoTo(Edges[i], <<StepN(Base, HalfTurn), Watch(Base), Edge(i + 1)>>)
    <3>. DEFINE w == Watch(Base)
                z == Edge(i + 1)
                rest == <<StepN(Base, HalfTurn), w, z>>
    <3>1. Edges[i] \in Places
      BY <2>1, EdgesAssumption
    <3>2. rest \in Seq(PlanSteps)
      <4>1. StepN(Base, HalfTurn) \in PlanSteps /\ Watch(Base) \in PlanSteps
        BY StepNType, DriveStepsType, MotorsAreDrives, SweepAssumption
      <4>2. i \in Nat
        <5>1. Head(plan) \in PlanSteps /\ Head(plan).do = "edge"
          BY <1>6, AtFirst DEF EdgeStep, MotionInv
        <5>2. Head(plan) \in EdgeSteps
          BY <5>1, StepKind
        <5>. QED BY <5>2 DEF EdgeSteps
      <4>3. Edge(i + 1) \in EdgeSteps
        BY <4>2 DEF Edge, EdgeSteps
      <4>4. Edge(i + 1) \in PlanSteps
        BY <4>3 DEF PlanSteps
      <4>. HIDE DEF i
      <4>. QED BY <4>1, <4>4
    <3>3. plan' = MovePlan(Edges[i]) \o rest /\ steps' = Pose[Edges[i]]
      BY <2>1 DEF GoTo
    <3>4. /\ rest = <<StepN(Base, HalfTurn), w, z>>
          /\ z.do = "edge" /\ z.do \in {"edge", "raster"}
          /\ w = Wait(<<Base>>) \/ (w = Watch(Base) /\ Base = Base)
      BY DoFacts
    <3>. HIDE DEF i, w, z, rest
    <3>5. /\ Shape(rest) /\ FromRest(rest)
          /\ DOMAIN rest = {1, 2, 3} /\ rest[3] = z
          /\ rest[1].do = "run" /\ rest[2].do \in {"wait", "watch"}
      <4>1. Base \in Drives
        BY MotorsAreDrives
      <4>. QED BY <3>4, <4>1, OneMotion
    <3>6. \A j \in DOMAIN rest : rest[j].do \notin {"note", "raster", "locate"}
      BY <3>4, <3>5
    <3>. QED BY <1>1, <3>1, <3>2, <3>3, <3>5, <3>6, MoveRelied
  <2>2. CASE i \notin DOMAIN Edges /\ plan' = EdgeEnd
    BY <1>1, <2>2, EndRelied
  <2>. QED BY <1>6, <2>1, <2>2 DEF EdgeStep
<1>7. ASSUME At("raster")
      PROVE  \A d \in Drives : Bound(d, Due(Head(plan), d))
  <2>1. 1 \in DOMAIN plan /\ plan[1].do = "raster" /\ Head(plan) = plan[1]
        /\ Len(plan) \in Nat
    BY <1>7, AtFirst DEF MotionInv
  <2>2. \A d \in Drives : Placed(plan, d, Due(plan[1], d), 1)
    BY <2>1 DEF MotionInv, PlanInv, PlaceInv
  <2>3. ASSUME NEW d \in Drives, NEW n, Placed(plan, d, n, 1)
        PROVE  Bound(d, n)
    BY <2>1, <2>3, Present
  <2>4. \A d \in Drives : Bound(d, Due(plan[1], d))
    BY <2>2, <2>3
  <2>. QED BY <2>1, <2>4
<1>8. CASE Column
  <2>. DEFINE r == Head(plan)
              at == IF r.way = "down" THEN r.at - Delta ELSE r.at + Delta
              z == Raster(r.row, at, r.way)
  <2>1. plan' = <<StepN(Base, at), Watch(Base), z>> /\ steps' = steps /\ At("raster")
    BY <1>8 DEF Column
  <2>2. r.do = "raster" /\ z.do = "raster" /\ z.row = r.row /\ z.at = at
    BY <2>1, DoFacts DEF At
  <2>. HIDE DEF at, z
  <2>3. Due(z, Base) = Gear[Base] * at
    BY <2>2 DEF Due
  <2>4. Due(z, Elbow) = Due(r, Elbow)
    BY <2>2, MotorsAssumption DEF Due
  <2>5. \A d \in Drives \ {Base} : Bound(d, Due(z, d))
    BY <1>7, <2>1, <2>4, MotorsAssumption DEF Motors
  <2>. QED BY <1>1, <2>1, <2>2, <2>3, <2>5, OneMotionRelied, MotorsAreDrives
<1>9. CASE NextRow
  <2>. DEFINE r == Head(plan)
  <2>1. At("raster") /\ steps' = steps /\ r.do = "raster"
    BY <1>9 DEF NextRow, At
  <2>2. ASSUME NEW i, NEW way, plan' = Row(i, r.at, way)
        PROVE  PlanRelied'
    <3>. DEFINE n == RowSteps(i, steps[Elbow])
                z == Raster(i, r.at, way)
    <3>1. plan' = <<StepN(Elbow, n), Wait(<<Elbow>>), z>>
      <4>1. plan' = <<StepN(Elbow, n), Wait(<<Elbow>>)>> \o <<z>>
        BY <2>2 DEF Row, StepperPlan
      <4>. QED BY <4>1, PairAndOne
    <3>2. z.do = "raster" /\ z.row = i /\ z.at = r.at
      BY DoFacts
    <3>3. Due(z, Elbow) = Gear[Elbow] * n
      BY <3>2, MotorsAssumption DEF Due
    <3>4. Due(z, Base) = Due(r, Base)
      BY <2>1, <3>2 DEF Due
    <3>. HIDE DEF n, z
    <3>5. \A d \in Drives \ {Elbow} : Bound(d, Due(z, d))
      BY <1>7, <2>1, <3>4, MotorsAssumption DEF Motors
    <3>. QED BY <1>1, <2>1, <3>1, <3>2, <3>3, <3>5, OneMotionRelied, MotorsAreDrives
  <2>3. CASE plan' = SweepMissed
    BY <1>1, <2>3, EndRelied
  <2>. QED BY <1>9, <2>2, <2>3 DEF NextRow
<1>. QED BY <1>3, <1>4, <1>5, <1>6, <1>8, <1>9 DEF Decisions

LEMMA DecisionsKeep ==
  ASSUME MotionInv, Decisions
  PROVE  PlanInv'
<1>1. HomeInv'
  BY DecisionBegins DEF HomeInv
<1>. QED BY <1>1, DecisionBegins, DecisionsRelied, FreshPlan

-----------------------------------------------------------------------------
(* A sighting ends a loop *)

\* Motor 1 is stopped, and then the arm is asked where it is.
LEMMA StopSteps ==
  ASSUME NEW e \in {EdgeEnd, SweepFound, SweepMissed},
         NEW p, p = <<Run(Base, "stop_motion")>> \o e
  PROVE  /\ Len(p) \in {4, 5} /\ DOMAIN p = 1..Len(p)
         /\ p[1] = Run(Base, "stop_motion")
         /\ p[2] = Ask(Base) /\ p[3] = Ask(Elbow) /\ p[4] = Locate
         /\ Len(p) = 5 => p[5] \in {Aim, Fault}
<1>. DEFINE s == <<Run(Base, "stop_motion")>>
<1>1. s \in Seq(PlanSteps) /\ Len(s) = 1 /\ s[1] = Run(Base, "stop_motion")
  <2>1. Run(Base, "stop_motion") \in PlanSteps
    BY DriveStepsType, MotorsAreDrives
  <2>. QED BY <2>1
<1>2. /\ e \in Seq(PlanSteps) /\ Len(e) \in {3, 4} /\ DOMAIN e = 1..Len(e)
      /\ e[1] = Ask(Base) /\ e[2] = Ask(Elbow) /\ e[3] = Locate
      /\ Len(e) = 4 => e[4] \in {Aim, Fault}
  BY EdgeEndSteps
<1>3. p = s \o e
  OBVIOUS
<1>. HIDE DEF s
<1>4. p \in Seq(PlanSteps) /\ Len(p) = Len(e) + 1
  BY <1>1, <1>2, <1>3
<1>5. p[1] = s[1] /\ \A i \in 1..Len(e) : p[i + 1] = e[i]
  BY <1>1, <1>2, <1>3
<1>6. p[2] = e[1] /\ p[3] = e[2] /\ p[4] = e[3] /\ (Len(e) = 4 => p[5] = e[4])
  BY <1>2, <1>5
<1>7. Len(p) \in {4, 5} /\ DOMAIN p = 1..Len(p) /\ (Len(p) = 5 => Len(e) = 4)
  <2>1. DOMAIN p = 1..Len(p)
    BY <1>4
  <2>. DEFINE m == Len(e)
              l == Len(p)
  <2>2. m \in {3, 4} /\ l = m + 1
    BY <1>2, <1>4
  <2>3. l \in {4, 5} /\ (l = 5 => m = 4)
    <3>. HIDE DEF m, l
    <3>. QED BY <2>2
  <2>. QED BY <2>1, <2>3
<1>8. p[1] = Run(Base, "stop_motion")
  BY <1>1, <1>5
<1>. QED BY <1>2, <1>6, <1>7, <1>8

LEMMA StopRelied ==
  ASSUME UNCHANGED vars, Resting(Elbow),
         NEW e \in {EdgeEnd, SweepFound, SweepMissed},
         plan' = <<Run(Base, "stop_motion")>> \o e
  PROVE  PlanRelied'
<1>1. PICK p : p = <<Run(Base, "stop_motion")>> \o e
  OBVIOUS
<1>2. /\ Len(p) \in {4, 5} /\ DOMAIN p = 1..Len(p)
      /\ p[1] = Run(Base, "stop_motion")
      /\ p[2] = Ask(Base) /\ p[3] = Ask(Elbow) /\ p[4] = Locate
      /\ Len(p) = 5 => p[5] \in {Aim, Fault}
  BY <1>1, StopSteps
<1>3. plan' = p
  BY <1>1
<1>4. /\ p[1].do = "run" /\ p[2].do = "ask" /\ p[3].do = "ask" /\ p[4].do = "locate"
      /\ Len(p) = 5 => p[5].do \in {"aim", "fault"}
  BY <1>2, DoFacts
<1>5. \A k \in DOMAIN p : k \in {1, 2, 3, 4} \/ (k = 5 /\ Len(p) = 5)
  BY <1>2
<1>6. Len(p) \in Nat
  BY <1>2
<1>7. /\ \A d : \A i \in DOMAIN p : ~Moves(p[i], d) /\ (Touches(p[i], d) => i = 1)
      /\ Stills(p[1], Base)
  <2>1. \A d : ~Moves(p[1], d)
    BY <1>2, RunFacts
  <2>2. ASSUME NEW d, NEW i \in DOMAIN p, i # 1
        PROVE  ~Moves(p[i], d) /\ ~Touches(p[i], d)
    <3>1. p[i].do \notin {"run", "wait", "watch"}
      BY <1>4, <1>5, <2>2
    <3>. QED BY <3>1, OtherFacts
  <2>3. Stills(p[1], Base)
    BY <1>2, RunFacts
  <2>. QED BY <2>1, <2>2, <2>3
<1>8. Shape(plan)'
  <2>1. \A i, k \in DOMAIN p : i < k /\ p[i].do \in Deciding => k = 5 /\ Len(p) = 5
    BY <1>2, <1>4, <1>5 DEF Deciding
  <2>2. Shape(p)
    BY <1>4, <1>5, <2>1 DEF Shape
  <2>. QED BY <1>3, <2>2 DEF Shape
<1>9. RestInv'
  <2>. SUFFICES ASSUME NEW k \in 1..Len(plan') + 1, NEW d \in Drives,
                       RestDue(plan', d, k)
                PROVE  Rested(plan, d, k)'
    BY DEF RestInv, RestDue
  <2>. DEFINE good == {i \in 0..Len(p) : IF i = 0 THEN Resting(d)' ELSE Stills(p[i], d)}
              bad == {i \in DOMAIN p : Moves(p[i], d)}
  <2>1. k > 1
    <3>1. p[Len(p)].do # "raster"
      BY <1>2, <1>4
    <3>. QED BY <1>2, <1>3, <1>4, <3>1 DEF RestDue, Deciding
  <2>2. \A i : i \notin bad
    BY <1>7
  <2>3. 0 \in good \/ 1 \in good
    <3>1. d = Base => 1 \in good
      <4>1. 1 \in 0..Len(p)
        BY <1>2
      <4>. QED BY <1>7, <4>1
    <3>2. d = Elbow => 0 \in good
      BY <1>6, DrivesAlone
    <3>. QED BY <3>1, <3>2, MotorsAssumption DEF Motors
  <2>. HIDE DEF good, bad
  <2>4. Holds(good, bad, k)
    BY <1>3, <1>6, <2>1, <2>2, <2>3 DEF Holds
  <2>. QED BY <1>3, <2>4 DEF Rested, good, bad
<1>10. Asking(p)
  <2>. SUFFICES ASSUME NEW k \in DOMAIN p, NEW d \in Drives, p[k].do = "locate"
                PROVE  Holds({i \in DOMAIN p : p[i] = Ask(d)},
                             {i \in DOMAIN p : Touches(p[i], d)}, k)
    BY DEF Asking
  <2>. DEFINE good == {i \in DOMAIN p : p[i] = Ask(d)}
              bad == {i \in DOMAIN p : Touches(p[i], d)}
  <2>1. k = 4
    BY <1>4, <1>5
  <2>2. \A i \in bad : i = 1
    BY <1>7
  <2>3. \E j \in {2, 3} : j \in good
    BY <1>2, MotorsAssumption DEF Motors
  <2>. HIDE DEF good, bad
  <2>4. Holds(good, bad, k)
    BY <2>1, <2>2, <2>3 DEF Holds
  <2>. QED BY <2>4 DEF good, bad
<1>11. AskInv'
  BY <1>2, <1>3, <1>6, <1>10, NewAsk
<1>12. PlaceInv'
  <2>1. \A k \in DOMAIN p : p[k].do \notin {"note", "raster"}
    BY <1>4, <1>5
  <2>. QED BY <1>2, <1>3, <1>6, <2>1, NoPlace
<1>. QED BY <1>8, <1>9, <1>11, <1>12 DEF PlanRelied

\* The motor that is watched, and what is left of the round at the camera.
LEMMA AtCamera ==
  ASSUME MotionInv, call = None, round # <<>>, Head(round) = Camera
  PROVE  /\ Tail(round) = <<>> /\ plan # <<>> /\ Head(plan).do = "watch"
         /\ Head(plan).drive = Base /\ Settled(Elbow) /\ Resting(Elbow)
         /\ ~in_motion => Settled(Base) /\ Resting(Base)
         /\ command # None /\ command # "home"
<1>1. /\ round \in Seq(Drives \union {Camera}) /\ 1 \in DOMAIN round
      /\ Head(round) = round[1]
  BY DEF MotionInv, ArmTypeOK
<1>2. Len(round) = 1 /\ At("watch")
  BY <1>1 DEF MotionInv, PlanInv, RoundInv
<1>3. Tail(round) = <<>> /\ \A i \in DOMAIN round : i = 1
  <2>. DEFINE S == Drives \union {Camera}
  <2>1. round \in Seq(S) /\ DOMAIN round = 1..Len(round)
    BY <1>1
  <2>. HIDE DEF S
  <2>2. Tail(round) \in Seq(S) /\ Len(Tail(round)) = 0
    BY <1>2, <2>1, HeadTailProperties
  <2>3. Tail(round) = <<>>
    BY <2>2, EmptySeq
  <2>. QED BY <1>2, <2>1, <2>3
<1>4. /\ plan # <<>> /\ 1 \in DOMAIN plan /\ Head(plan) = plan[1]
      /\ plan[1].do = "watch"
  BY <1>2, AtFirst DEF MotionInv
<1>5. Head(plan).drive = Base
  BY <1>4 DEF MotionInv, PlanInv, Shape
<1>6. Settled(Elbow) /\ Resting(Elbow)
  <2>1. RestDue(plan, Elbow, 1)
    BY <1>4, <1>5, MotorsAssumption DEF RestDue
  <2>. QED BY <2>1, RestNow, MotorsAreDrives
<1>7. ~in_motion => Settled(Base)
  <2>1. Waits(Head(plan), Base)
    BY <1>4, <1>5 DEF Waits
  <2>2. \A i \in DOMAIN round : round[i] # Base
    BY <1>1, <1>3, MotorsAreDrives, DrivesAssumption DEF Camera
  <2>. QED BY <2>1, <2>2, MotorsAreDrives DEF MotionInv, PlanInv, WaitInv
<1>8. command # None
  BY <1>4 DEF MotionInv, PlanInv, DutyInv
<1>9. command # "home"
  BY <1>4, HomeHead
<1>. QED BY <1>3, <1>4, <1>5, <1>6, <1>7, <1>8, <1>9 DEF Resting

LEMMA SightingKeeps ==
  ASSUME MotionInv, Look, plan' # plan
  PROVE  PlanInv'
<1>. DEFINE e == IF command = "sweep" THEN SweepFound ELSE EdgeEnd
<1>1. /\ call = None /\ round # <<>> /\ Head(round) = Camera
      /\ round' = Tail(round) /\ UNCHANGED vars /\ command' = command
      /\ in_motion' = TRUE
      /\ plan' = (IF in_motion THEN <<Run(Base, "stop_motion")>> ELSE <<>>) \o e
  BY DEF Look
<1>2. /\ Tail(round) = <<>> /\ Resting(Elbow)
      /\ ~in_motion => Resting(Base)
      /\ command # None /\ command # "home"
  BY <1>1, AtCamera
<1>3. e \in {EdgeEnd, SweepFound, SweepMissed} /\ e \in Seq(PlanSteps)
  BY EndPlansType
<1>. HIDE DEF e
<1>4. ASSUME in_motion
      PROVE  PlanRelied' /\ plan'[Len(plan')].do # "raster"
  <2>1. plan' = <<Run(Base, "stop_motion")>> \o e
    BY <1>1, <1>4
  <2>2. PlanRelied'
    BY <1>1, <1>2, <1>3, <2>1, StopRelied
  <2>3. PICK p : p = <<Run(Base, "stop_motion")>> \o e
    OBVIOUS
  <2>4. /\ Len(p) \in {4, 5} /\ p[4] = Locate
        /\ Len(p) = 5 => p[5] \in {Aim, Fault}
    BY <1>3, <2>3, StopSteps
  <2>5. p[Len(p)].do # "raster"
    BY <2>4, DoFacts
  <2>. QED BY <2>1, <2>2, <2>3, <2>5
<1>5. ASSUME ~in_motion
      PROVE  PlanRelied' /\ plan'[Len(plan')].do # "raster"
  <2>1. plan' = e
    BY <1>1, <1>3, <1>5, ConcatEmptySeq
  <2>2. \A d \in Drives : Resting(d)
    BY <1>2, <1>5, MotorsAssumption DEF Motors
  <2>3. PlanRelied'
    BY <1>1, <1>3, <2>1, <2>2, EndRelied
  <2>4. e[Len(e)].do # "raster"
    BY <1>3, EdgeEndSteps, EdgeEndRelied
  <2>. QED BY <2>1, <2>3, <2>4
<1>6. PlanRelied' /\ plan'[Len(plan')].do # "raster"
  BY <1>4, <1>5
<1>7. call' = None /\ started' = started
  BY <1>1 DEF vars
<1>8. DutyInv'
  BY <1>1, <1>2, <1>7 DEF DutyInv, MotionInv, PlanInv
<1>9. RoundInv' /\ WaitInv'
  BY <1>1, <1>2 DEF RoundInv, WaitInv
<1>10. JointInv' /\ HomeInv'
  BY <1>1, <1>2, <1>6 DEF JointInv, HomeInv
<1>. QED BY <1>6, <1>8, <1>9, <1>10 DEF PlanInv, PlanRelied

-----------------------------------------------------------------------------
(* Steps of the plan that are taken *)

\* What a drive keeps in a step that does not send it anywhere.
LEMMA DriveKept ==
  ASSUME Prompt, ~Simulation, MotionInv, [ArmNext]_allVars, command # None,
         NEW d \in Drives, ~(RunStep /\ Head(plan).drive = d)
  PROVE  /\ Settled(d) => Settled(d)'
         /\ Resting(d) => Resting(d)'
         /\ \A n : Bound(d, n) => Bound(d, n)'
         /\ Located(d) => Located(d)'
<1>1. PromptInv /\ ArmTypeOK /\ DutyInv
  BY DEF MotionInv, PlanInv
<1>2. Effect(d)
  BY <1>1, DriveEffect
<1>3. Settled(d) => Settled(d)'
  BY <1>1, <1>2, SettledKept
<1>4. Resting(d) => Resting(d)'
  BY <1>1, <1>2, RestingKept
<1>5. \A n : Bound(d, n) => Bound(d, n)'
  BY <1>1, <1>2, BoundKept
<1>6. Located(d) => Located(d)'
  BY <1>1, LocatedKept
<1>. QED BY <1>3, <1>4, <1>5, <1>6

\* HOME goes on when its step has done what it is for.
LEMMA HomeTail ==
  ASSUME MotionInv, command = "home", plan # <<>>, plan' = Tail(plan),
         command' = command,
         Bound(Base, 0)',
         Len(plan) <= 3 => Settled(Base)',
         Len(plan) <= 2 => Bound(Elbow, 0)'
  PROVE  HomeInv'
<1>1. PICK q : q = Tail(plan)
  OBVIOUS
<1>2. /\ Len(plan) \in Nat \ {0} /\ Len(q) = Len(plan) - 1
      /\ DOMAIN q = 1..Len(q)
      /\ \A i \in DOMAIN q : i + 1 \in DOMAIN plan /\ q[i] = plan[i + 1]
  BY <1>1, TailOfPlan DEF MotionInv
<1>3. /\ Len(plan) <= 4
      /\ \A i \in DOMAIN plan : plan[i] = HomePlan[4 - Len(plan) + i]
  BY DEF MotionInv, PlanInv, HomeInv
<1>4. plan' = q
  BY <1>1
<1>5. \A i \in DOMAIN q : q[i] = HomePlan[4 - Len(q) + i]
  <2>. SUFFICES ASSUME NEW i \in DOMAIN q PROVE q[i] = HomePlan[4 - Len(q) + i]
    OBVIOUS
  <2>1. q[i] = HomePlan[4 - Len(plan) + (i + 1)]
    BY <1>2, <1>3
  <2>2. 4 - Len(plan) + (i + 1) = 4 - Len(q) + i
    BY <1>2
  <2>. QED BY <2>1, <2>2
<1>6. HomePlan' = HomePlan
  BY DEF HomePlan, StepperPlan, StepN, Wait
<1>7. /\ Len(q) <= 4 /\ (Len(q) <= 2 => Len(plan) <= 3)
      /\ Len(q) <= 1 => Len(plan) <= 2
  BY <1>2, <1>3
<1>. QED BY <1>4, <1>5, <1>6, <1>7 DEF HomeInv

\* The rest of the invariant when a step of the plan is taken.
LEMMA TailKeeps ==
  ASSUME MotionInv, plan # <<>>, plan' = Tail(plan),
         UNCHANGED <<steps, command, round, started>>,
         call' # None => call'.left = <<>>,
         \/ in_motion' = TRUE /\ round = <<>>
         \/ in_motion' = in_motion /\ ~At("wait") /\ ~At("watch"),
         Advances, HomeInv',
         plan[Len(plan)].do = "raster" => Settled(Base)' \/ Settled(Elbow)'
  PROVE  PlanInv'
<1>1. PlanRelied'
  BY PlanTail DEF MotionInv, PlanInv, PlanRelied
<1>2. command # None
  BY DEF MotionInv, PlanInv, DutyInv
<1>3. DutyInv'
  BY <1>2 DEF DutyInv, MotionInv, PlanInv
<1>4. in_motion' = TRUE /\ \A i \in DOMAIN round : round[i] # Camera
  BY DEF MotionInv, PlanInv, RoundInv
<1>5. RoundInv' /\ WaitInv'
  BY <1>4 DEF RoundInv, WaitInv
<1>6. JointInv'
  <2>1. PICK q : q = Tail(plan)
    OBVIOUS
  <2>2. q # <<>> => q[Len(q)] = plan[Len(plan)]
    <3>1. /\ Len(plan) \in Nat \ {0} /\ Len(q) = Len(plan) - 1
          /\ DOMAIN q = 1..Len(q)
          /\ \A i \in DOMAIN q : i + 1 \in DOMAIN plan /\ q[i] = plan[i + 1]
      BY <2>1, TailOfPlan DEF MotionInv
    <3>2. q \in Seq(PlanSteps)
      BY <2>1, HeadTailProperties DEF MotionInv, ArmTypeOK
    <3>3. q # <<>> => Len(q) \in DOMAIN q /\ Len(q) + 1 = Len(plan)
      BY <3>1, <3>2, EmptySeq
    <3>. QED BY <3>1, <3>3
  <2>. QED BY <2>1, <2>2 DEF JointInv
<1>. QED BY <1>1, <1>3, <1>5, <1>6 DEF PlanInv, PlanRelied

\* A step that has to do with no drive.
LEMMA QuietAdvance ==
  ASSUME UNCHANGED vars,
         \A d : /\ ~Touches(Head(plan), d) /\ Head(plan) # Ask(d)
                /\ Stills(Head(plan), d) => Resting(d)
  PROVE  Advances
<1>1. \A d, n : ~Sends(Head(plan), d, n)
  BY DEF Sends
<1>. QED BY <1>1, DrivesAlone DEF Advances

LEMMA NoteSightKeeps ==
  ASSUME MotionInv, NoteStep \/ SightStep
  PROVE  PlanInv'
<1>1. /\ plan # <<>> /\ plan' = Tail(plan) /\ call = None
      /\ UNCHANGED <<vars, steps, command, round, in_motion>>
      /\ Head(plan).do \in {"note", "sight"}
  BY DEF NoteStep, SightStep, At, Done
<1>2. UNCHANGED <<started, call>> /\ ~At("wait") /\ ~At("watch")
  BY <1>1 DEF vars, At
<1>3. Advances
  <2>1. \A d : Ask(d).do = "ask"
    BY DoFacts
  <2>2. \A d : ~Touches(Head(plan), d) /\ ~Stills(Head(plan), d)
    BY <1>1, OtherFacts
  <2>. QED BY <1>1, <2>1, <2>2, QuietAdvance
<1>4. HomeInv'
  BY <1>1, HomeHead DEF HomeInv
<1>5. plan[Len(plan)].do = "raster" => Settled(Base)' \/ Settled(Elbow)'
  BY <1>1, DrivesAlone DEF MotionInv, PlanInv, JointInv
<1>. QED BY <1>1, <1>2, <1>3, <1>4, <1>5, TailKeeps

\* A waiting loop ends when the drives it has waited for stand still.
LEMMA EndWaitKeeps ==
  ASSUME ~Simulation, MotionInv, EndWait
  PROVE  PlanInv'
<1>1. /\ plan # <<>> /\ plan' = Tail(plan) /\ call = None
      /\ UNCHANGED <<vars, steps, command, round>>
      /\ round = <<>> /\ ~in_motion /\ in_motion' = TRUE
      /\ Head(plan).do \in {"wait", "watch"}
  BY DEF EndWait, At, Done
<1>2. UNCHANGED <<started, call>>
  BY <1>1 DEF vars
<1>3. \A d \in Drives : Waits(Head(plan), d) => Settled(d)
  BY <1>1 DEF MotionInv, PlanInv, WaitInv
<1>4. \A d : ~Touches(Head(plan), d)
  BY <1>1 DEF Touches
<1>5. \A d \in Drives : Stills(Head(plan), d) => Resting(d)
  BY <1>3, <1>4 DEF Stills, Resting
<1>6. Advances
  <2>1. \A d : Head(plan) # Ask(d)
    BY <1>1, DoFacts
  <2>2. \A d, n : ~Sends(Head(plan), d, n)
    BY <1>4 DEF Sends
  <2>. QED BY <1>1, <1>4, <1>5, <2>1, <2>2, DrivesAlone DEF Advances
<1>7. HomeInv'
  <2>1. CASE command = "home"
    <3>1. PICK n \in 1..4 : n = Len(plan) /\ Head(plan) = HomePlan[5 - n]
      BY <1>1, <2>1, HomeHead
    <3>2. HomePlan[1].do = "run" /\ HomePlan[3].do = "run"
      BY HomePlanRelied, DoFacts
    <3>3. n \in {1, 3}
      <4>1. n = 2 => Head(plan) = HomePlan[3]
        BY <3>1
      <4>2. n = 4 => Head(plan) = HomePlan[1]
        BY <3>1
      <4>. QED BY <1>1, <3>2, <4>1, <4>2
    <3>4. /\ n <= 3 => Bound(Base, 0)
          /\ n <= 2 => Settled(Base)
          /\ n <= 1 => Bound(Elbow, 0)
      BY <2>1, <3>1 DEF MotionInv, PlanInv, HomeInv
    <3>5. n = 3 => Settled(Base)
      <4>1. n = 3 => Head(plan) = Wait(<<Base>>)
        BY <3>1, HomePlanRelied
      <4>2. Stills(Wait(<<Base>>), Base) /\ ~Touches(Wait(<<Base>>), Base)
        BY WaitFacts
      <4>. QED BY <1>3, <4>1, <4>2, MotorsAreDrives DEF Stills
    <3>6. Bound(Base, 0) /\ Settled(Base) /\ (n <= 2 => Bound(Elbow, 0))
      BY <3>3, <3>4, <3>5
    <3>7. /\ Bound(Base, 0)' /\ Settled(Base)'
          /\ Len(plan) <= 2 => Bound(Elbow, 0)'
      BY <1>1, <3>1, <3>6, DrivesAlone
    <3>. QED BY <1>1, <2>1, <3>7, HomeTail
  <2>2. CASE command # "home"
    BY <1>1, <2>2 DEF HomeInv
  <2>. QED BY <2>1, <2>2
<1>8. plan[Len(plan)].do = "raster" => Settled(Base)' \/ Settled(Elbow)'
  BY <1>1, DrivesAlone DEF MotionInv, PlanInv, JointInv
<1>. QED BY <1>1, <1>2, <1>6, <1>7, <1>8, TailKeeps

\* A drive at rest is asked for its rotation.
LEMMA AskKeeps ==
  ASSUME Prompt, ~Simulation, MotionInv, AskStep
  PROVE  PlanInv'
<1>. DEFINE e == Head(plan).drive
<1>1. /\ plan # <<>> /\ plan' = Tail(plan) /\ CurrentRotation(e)
      /\ UNCHANGED <<steps, command, round, in_motion>>
      /\ Head(plan).do = "ask" /\ At("ask")
  BY DEF AskStep, At, Done
<1>2. call = None /\ started' = started /\ (call' # None => call'.left = <<>>)
  BY <1>1 DEF CurrentRotation, Begin
<1>3. command # None
  BY <1>1 DEF MotionInv, PlanInv, DutyInv
<1>4. e \in Drives
  <2>1. Head(plan) \in AskSteps
    BY <1>1, AtFirst, StepKind DEF MotionInv
  <2>. QED BY <2>1 DEF AskSteps
<1>5. \A d \in Drives : Settled(d)
  BY <1>1, <1>2, AllAtRest
<1>6. [ArmNext]_allVars /\ ~RunStep
  BY <1>1 DEF ArmNext, Main, RunStep, At
<1>7. \A d \in Drives :
         /\ Settled(d)' /\ (Resting(d) => Resting(d)')
         /\ \A n : Bound(d, n) => Bound(d, n)'
         /\ Located(d) => Located(d)'
  BY <1>3, <1>5, <1>6, DriveKept
<1>8. Advances
  <2>1. \A d : /\ ~Touches(Head(plan), d) /\ ~Stills(Head(plan), d)
               /\ \A n : ~Sends(Head(plan), d, n)
    BY <1>1, OtherFacts DEF Sends
  <2>2. ASSUME NEW d \in Drives, Head(plan) = Ask(d) PROVE Located(d)'
    <3>1. e = d
      BY <2>2, DoFacts
    <3>2. AtRest(d) /\ PromptInv
      BY <1>5 DEF Settled, MotionInv
    <3>. QED BY <1>1, <3>1, <3>2, AskLocates
  <2>. QED BY <1>7, <2>1, <2>2 DEF Advances
<1>9. HomeInv'
  BY <1>1, HomeHead DEF HomeInv
<1>10. Settled(Base)'
  BY <1>7, MotorsAreDrives
<1>11. ~At("wait") /\ ~At("watch")
  BY <1>1 DEF At
<1>. QED BY <1>1, <1>2, <1>8, <1>9, <1>10, <1>11, TailKeeps

\* A macro is run: its drive is sent somewhere or stopped, the other one keeps
\* what it has.
LEMMA RunKeeps ==
  ASSUME Prompt, ~Simulation, MotionInv, RunStep
  PROVE  PlanInv'
<1>0. PICK s : s = Head(plan)
  OBVIOUS
<1>1. /\ plan # <<>> /\ plan' = Tail(plan) /\ RunAction(s.drive, s.key, s.n)
      /\ UNCHANGED <<steps, command, round, in_motion>>
      /\ s.do = "run" /\ At("run")
  BY <1>0 DEF RunStep, At, Done
<1>2. call = None /\ started' = started /\ (call' # None => call'.left = <<>>)
  BY <1>1 DEF RunAction, Begin
<1>3. command # None
  BY <1>1 DEF MotionInv, PlanInv, DutyInv
<1>4. s.drive \in Drives /\ s.key \in Keys /\ s.n \in Int
  <2>1. s \in RunSteps
    BY <1>0, <1>1, AtFirst, StepKind DEF MotionInv
  <2>. QED BY <2>1, StepsAssumption, PoseAssumption DEF RunSteps, Keys
<1>5. [ArmNext]_allVars
  BY DEF ArmNext, Main
<1>6. \A d \in Drives \ {s.drive} :
         /\ Settled(d) => Settled(d)'
         /\ Resting(d) => Resting(d)'
         /\ \A n : Bound(d, n) => Bound(d, n)'
         /\ Located(d) => Located(d)'
  BY <1>0, <1>3, <1>5, DriveKept
<1>7. /\ s.key = "single_motion_var" => Bound(s.drive, s.n)'
      /\ s.key = "stop_motion" => Resting(s.drive)'
  <2>1. \A d \in Drives : \A key \in Keys : \A n \in Int : RunAction(d, key, n) =>
           /\ key = "single_motion_var" => Bound(d, n)'
           /\ key = "stop_motion" => Resting(d)'
    BY RunEffect DEF MotionInv
  <2>. QED BY <1>1, <1>4, <2>1
<1>8. Advances
  <2>. SUFFICES ASSUME NEW d \in Drives
                PROVE  /\ Stills(s, d) => Resting(d)'
                       /\ Resting(d) /\ ~Moves(s, d) => Resting(d)'
                       /\ \A n : Sends(s, d, n) => Bound(d, n)'
                       /\ \A n : Bound(d, n) /\ ~Touches(s, d) => Bound(d, n)'
                       /\ s = Ask(d) => Located(d)'
                       /\ Located(d) /\ ~Touches(s, d) => Located(d)'
    BY <1>0 DEF Advances
  <2>1. s # Ask(d)
    BY <1>1, DoFacts
  <2>2. CASE d = s.drive
    <3>1. Touches(s, d) /\ (Moves(s, d) <=> s.key # "stop_motion")
      BY <1>1, <2>2 DEF Touches, Moves
    <3>2. Stills(s, d) => s.key = "stop_motion"
      BY <1>1 DEF Stills, Waits, Touches
    <3>3. \A n : Sends(s, d, n) => s.key = "single_motion_var" /\ n = s.n
      BY DEF Sends
    <3>. QED BY <1>7, <2>1, <2>2, <3>1, <3>2, <3>3
  <2>3. CASE d # s.drive
    <3>1. ~Touches(s, d) /\ ~Moves(s, d) /\ ~Stills(s, d)
      BY <1>1, <2>3 DEF Touches, Moves, Stills, Waits
    <3>2. \A n : ~Sends(s, d, n)
      BY <3>1 DEF Sends
    <3>. QED BY <1>6, <2>1, <2>3, <3>1, <3>2
  <2>. QED BY <2>2, <2>3
<1>9. HomeInv'
  <2>1. CASE command = "home"
    <3>1. PICK n \in 1..4 : n = Len(plan) /\ s = HomePlan[5 - n]
      BY <1>0, <1>1, <2>1, HomeHead
    <3>2. HomePlan[2].do = "wait" /\ HomePlan[4].do = "wait"
      BY HomePlanRelied, DoFacts
    <3>3. n \in {2, 4}
      <4>1. n = 1 => s = HomePlan[4]
        BY <3>1
      <4>2. n = 3 => s = HomePlan[2]
        BY <3>1
      <4>. QED BY <1>1, <3>2, <4>1, <4>2
    <3>4. /\ n <= 3 => Bound(Base, 0)
          /\ n <= 2 => Settled(Base)
      BY <2>1, <3>1 DEF MotionInv, PlanInv, HomeInv
    <3>5. ASSUME NEW d \in Drives, s = StepN(d, 0)
          PROVE  s.drive = d /\ Bound(d, 0)'
      <4>1. s.drive = d /\ s.key = "single_motion_var" /\ s.n = Gear[d] * 0
        BY <3>5 DEF StepN
      <4>2. Gear[d] * 0 = 0
        BY GearAssumption
      <4>. QED BY <1>7, <4>1, <4>2
    <3>6. CASE n = 4
      <4>1. Bound(Base, 0)'
        BY <3>1, <3>5, <3>6, HomePlanRelied, MotorsAreDrives
      <4>2. ~(Len(plan) <= 3) /\ ~(Len(plan) <= 2)
        BY <3>1, <3>6
      <4>. QED BY <1>1, <2>1, <4>1, <4>2, HomeTail
    <3>7. CASE n = 2
      <4>1. s.drive = Elbow /\ Bound(Elbow, 0)'
        BY <3>1, <3>5, <3>7, HomePlanRelied, MotorsAreDrives
      <4>2. Bound(Base, 0) /\ Settled(Base)
        BY <3>4, <3>7
      <4>3. Bound(Base, 0)' /\ Settled(Base)'
        BY <1>6, <4>1, <4>2, MotorsAreDrives, MotorsAssumption
      <4>. QED BY <1>1, <2>1, <4>1, <4>3, HomeTail
    <3>. QED BY <3>3, <3>6, <3>7
  <2>2. CASE command # "home"
    BY <1>1, <2>2 DEF HomeInv
  <2>. QED BY <2>1, <2>2
<1>10. ASSUME plan[Len(plan)].do = "raster"
       PROVE  Settled(Base)' \/ Settled(Elbow)'
  <2>1. \A d \in Drives : d # s.drive => RestDue(plan, d, 1)
    BY <1>0, <1>1, <1>10, AtFirst DEF RestDue, MotionInv
  <2>2. \A d \in Drives : d # s.drive => Settled(d)
    BY <1>2, <2>1, RestNow
  <2>. QED BY <1>6, <2>2, MotorsAreDrives, MotorsAssumption
<1>11. ~At("wait") /\ ~At("watch")
  BY <1>0, <1>1 DEF At
<1>. QED BY <1>1, <1>2, <1>8, <1>9, <1>10, <1>11, TailKeeps

-----------------------------------------------------------------------------
(* Steps that leave the plan as it is *)

LEMMA NoRun ==
  ASSUME ArmTypeOK, plan' = plan
  PROVE  ~RunStep
<1>. SUFFICES ASSUME RunStep PROVE FALSE
  OBVIOUS
<1>1. plan # <<>> /\ plan' = Tail(plan)
  BY DEF RunStep, At, Done
<1>2. PICK q : q = Tail(plan)
  OBVIOUS
<1>3. Len(plan) \in Nat /\ Len(q) = Len(plan) - 1
  BY <1>1, <1>2, TailOfPlan
<1>4. q = plan
  BY <1>1, <1>2
<1>. QED BY <1>3, <1>4

LEMMA PlanStays ==
  ASSUME Prompt, ~Simulation, MotionInv, [ArmNext]_allVars,
         UNCHANGED <<plan, steps, command>>
  PROVE  /\ Shape(plan)' /\ RestInv' /\ PlaceInv' /\ AskInv' /\ JointInv' /\ HomeInv'
         /\ \A d \in Drives : Settled(d) => Settled(d)'
<1>1. ~RunStep
  BY NoRun DEF MotionInv
<1>2. ASSUME NEW d \in Drives
      PROVE  /\ Settled(d) => Settled(d)'
             /\ Resting(d) => Resting(d)'
  <2>1. PromptInv /\ ArmTypeOK /\ DutyInv
    BY DEF MotionInv, PlanInv
  <2>2. Effect(d)
    BY <1>1, <2>1, DriveEffect
  <2>. QED BY <2>1, <2>2, SettledKept, RestingKept
<1>3. ASSUME command # None, NEW d \in Drives
      PROVE  /\ \A n : Bound(d, n) => Bound(d, n)'
             /\ Located(d) => Located(d)'
  BY <1>1, <1>3, DriveKept
<1>4. plan # <<>> => command # None
  BY DEF MotionInv, PlanInv, DutyInv
<1>5. PlanRelied'
  <2>1. PlanRelied
    BY DEF MotionInv, PlanInv, PlanRelied
  <2>2. \A d \in Drives : Resting(d) => Resting(d)'
    BY <1>2
  <2>3. plan # <<>> => \A d \in Drives : \A n : Bound(d, n) => Bound(d, n)'
    BY <1>3, <1>4
  <2>4. plan # <<>> => \A d \in Drives : Located(d) => Located(d)'
    BY <1>3, <1>4
  <2>. QED BY <2>1, <2>2, <2>3, <2>4, PlanKept
<1>6. JointInv'
  BY <1>2, MotorsAreDrives DEF MotionInv, PlanInv, JointInv
<1>7. HomeInv'
  <2>1. HomePlan' = HomePlan
    BY DEF HomePlan, StepperPlan, StepN, Wait
  <2>2. CASE command = "home"
    <3>1. command # None
      BY <2>2, NoneCommandAssumption
    <3>2. /\ Bound(Base, 0) => Bound(Base, 0)'
          /\ Bound(Elbow, 0) => Bound(Elbow, 0)'
          /\ Settled(Base) => Settled(Base)'
      BY <1>2, <1>3, <3>1, MotorsAreDrives
    <3>. QED BY <2>1, <2>2, <3>2 DEF MotionInv, PlanInv, HomeInv
  <2>3. CASE command # "home"
    BY <2>3 DEF HomeInv
  <2>. QED BY <2>2, <2>3
<1>. QED BY <1>2, <1>5, <1>6, <1>7 DEF PlanRelied

\* A step that changes nothing of the console's.
LEMMA BelowKeeps ==
  ASSUME Prompt, ~Simulation, MotionInv, [ArmNext]_allVars, UNCHANGED armVars,
         \/ UNCHANGED <<call, started>>
         \/ StartUp \/ NextMacro
  PROVE  PlanInv'
<1>1. UNCHANGED <<plan, steps, command, round, in_motion>>
  BY DEF armVars
<1>2. /\ Shape(plan)' /\ RestInv' /\ PlaceInv' /\ AskInv' /\ JointInv' /\ HomeInv'
      /\ \A d \in Drives : Settled(d) => Settled(d)'
  BY <1>1, PlanStays
<1>3. DutyInv /\ RoundInv /\ WaitInv
  BY DEF MotionInv, PlanInv
<1>4. RoundInv'
  BY <1>1, <1>3 DEF RoundInv, At
<1>5. CASE UNCHANGED <<call, started>>
  <2>1. DutyInv'
    BY <1>1, <1>2, <1>3, <1>5 DEF DutyInv
  <2>2. WaitInv'
    BY <1>1, <1>2, <1>3, <1>5 DEF WaitInv, Waits
  <2>. QED BY <1>2, <1>4, <2>1, <2>2 DEF PlanInv
<1>6. CASE StartUp \/ NextMacro
  <2>1. command = None
    <3>1. CASE StartUp
      BY <1>3, <3>1 DEF StartUp, ProcessParameters, DutyInv
    <3>2. CASE NextMacro
      BY <1>3, <3>2 DEF NextMacro, Returning, DutyInv
    <3>. QED BY <1>6, <3>1, <3>2
  <2>2. \A i \in DOMAIN call'.left : call'.left[i] \in {"set_run_parameters", "read_reset"}
    <3>1. CASE StartUp
      <4>1. call'.left = <<"set_run_parameters", "read_reset">>
        BY <3>1 DEF StartUp, ProcessParameters, Begin
      <4>. QED BY <4>1
    <3>2. CASE NextMacro
      <4>1. call # None /\ call.left # <<>> /\ call \in Calls
            /\ call' = [call EXCEPT !.left = Tail(call.left)]
        BY <3>2 DEF NextMacro, Returning, MotionInv, PromptInv, TypeOK
      <4>2. call.left \in Seq(Keys) /\ call'.left = Tail(call.left)
        BY <4>1 DEF Calls
      <4>3. \A i \in DOMAIN call.left :
               call.left[i] \in {"set_run_parameters", "read_reset"}
        BY <1>3, <2>1, <4>1 DEF DutyInv
      <4>4. \A i \in DOMAIN Tail(call.left) : /\ i + 1 \in DOMAIN call.left
                                              /\ Tail(call.left)[i] = call.left[i + 1]
        BY <4>1, <4>2
      <4>. QED BY <4>2, <4>3, <4>4
    <3>. QED BY <1>6, <3>1, <3>2
  <2>3. DutyInv'
    BY <1>1, <1>2, <1>3, <2>1, <2>2 DEF DutyInv
  <2>4. in_motion
    BY <1>3, <2>1 DEF DutyInv, RoundInv, At
  <2>5. WaitInv'
    BY <1>1, <2>4 DEF WaitInv
  <2>. QED BY <1>2, <1>4, <2>3, <2>5 DEF PlanInv
<1>. QED BY <1>5, <1>6

\* Every drive of the waiting loop is asked in a round, and the camera last.
LEMMA BeginRoundKeeps ==
  ASSUME Prompt, ~Simulation, MotionInv, BeginRound
  PROVE  PlanInv'
<1>1. /\ UNCHANGED <<plan, steps, command, call, started>> /\ plan # <<>>
      /\ [ArmNext]_allVars /\ call = None
  BY DEF BeginRound, At, vars, ArmNext, Main
<1>2. /\ Shape(plan)' /\ RestInv' /\ PlaceInv' /\ AskInv' /\ JointInv' /\ HomeInv'
      /\ \A d \in Drives : Settled(d) => Settled(d)'
  BY <1>1, PlanStays
<1>3. Head(plan) \in PlanSteps
  BY <1>1, TailOfPlan DEF MotionInv
<1>4. DutyInv'
  BY <1>1 DEF MotionInv, PlanInv, DutyInv
<1>5. CASE At("wait") /\ round' = Head(plan).drives
  <2>1. Head(plan).drives \in Seq(Drives) /\ Head(plan).do = "wait"
    <3>1. Head(plan) \in WaitSteps
      BY <1>3, <1>5, StepKind DEF At
    <3>. QED BY <1>5, <3>1 DEF WaitSteps, At
  <2>2. \A i \in DOMAIN round' : round'[i] \in Drives
    BY <1>5, <2>1
  <2>3. Camera \notin Drives
    BY DrivesAssumption DEF Camera
  <2>4. RoundInv'
    BY <1>1, <1>5, <2>2, <2>3 DEF RoundInv, At
  <2>5. WaitInv'
    BY <1>1, <1>5, <2>1 DEF WaitInv, Waits
  <2>. QED BY <1>2, <1>4, <2>4, <2>5 DEF PlanInv
<1>6. CASE At("watch") /\ round' = <<Head(plan).drive, Camera>>
  <2>1. Head(plan).drive \in Drives /\ Head(plan).do = "watch"
    <3>1. Head(plan) \in WatchSteps
      BY <1>3, <1>6, StepKind DEF At
    <3>. QED BY <1>6, <3>1 DEF WatchSteps, At
  <2>2. Camera \notin Drives
    BY DrivesAssumption DEF Camera
  <2>3. /\ DOMAIN round' = {1, 2} /\ Len(round') = 2
        /\ round'[1] = Head(plan).drive /\ round'[2] = Camera
    BY <1>6
  <2>4. RoundInv'
    BY <1>1, <1>6, <2>1, <2>2, <2>3 DEF RoundInv, At
  <2>5. WaitInv'
    BY <1>1, <2>1, <2>3 DEF WaitInv, Waits
  <2>. QED BY <1>2, <1>4, <2>4, <2>5 DEF PlanInv
<1>. QED BY <1>5, <1>6 DEF BeginRound

\* What is left of a round.
LEMMA RoundTail ==
  ASSUME ArmTypeOK, round # <<>>, NEW q, q = Tail(round)
  PROVE  /\ Len(round) \in Nat \ {0} /\ Len(q) = Len(round) - 1
         /\ DOMAIN round = 1..Len(round) /\ DOMAIN q = 1..Len(q)
         /\ Head(round) = round[1] /\ Head(round) \in Drives \union {Camera}
         /\ \A i \in DOMAIN q : i + 1 \in DOMAIN round /\ q[i] = round[i + 1]
         /\ \A i \in DOMAIN round : i = 1 \/ (i - 1 \in DOMAIN q /\ q[i - 1] = round[i])
<1>. DEFINE S == Drives \union {Camera}
<1>1. round \in Seq(S)
  BY DEF ArmTypeOK
<1>. HIDE DEF S
<1>2. /\ Len(round) \in Nat \ {0} /\ Len(q) = Len(round) - 1
      /\ DOMAIN round = 1..Len(round) /\ DOMAIN q = 1..Len(q)
      /\ Head(round) = round[1] /\ Head(round) \in S
      /\ \A i \in DOMAIN q : i + 1 \in DOMAIN round /\ q[i] = round[i + 1]
  BY <1>1
<1>3. \A i \in DOMAIN round : i = 1 \/ (i - 1 \in DOMAIN q /\ q[i - 1] = round[i])
  <2>. SUFFICES ASSUME NEW i \in DOMAIN round, i # 1
                PROVE  i - 1 \in DOMAIN q /\ q[i - 1] = round[i]
    OBVIOUS
  <2>1. i - 1 \in DOMAIN q /\ (i - 1) + 1 = i
    BY <1>2
  <2>. QED BY <1>2, <2>1
<1>. QED BY <1>2, <1>3 DEF S

\* The call of a drive that is checked takes its place in the round.
LEMMA CheckNextKeeps ==
  ASSUME Prompt, ~Simulation, MotionInv, CheckNext
  PROVE  PlanInv'
<1>. DEFINE e == Head(round)
<1>1. /\ UNCHANGED <<plan, steps, command, in_motion>> /\ call = None
      /\ round # <<>> /\ e # Camera /\ CheckStatus(e) /\ round' = Tail(round)
      /\ [ArmNext]_allVars
  BY DEF CheckNext, ArmNext, Main
<1>2. /\ Shape(plan)' /\ RestInv' /\ PlaceInv' /\ AskInv' /\ JointInv' /\ HomeInv'
      /\ \A d \in Drives : Settled(d) => Settled(d)'
  BY <1>1, PlanStays
<1>3. PICK q : q = Tail(round)
  OBVIOUS
<1>4. /\ Len(round) \in Nat \ {0} /\ Len(q) = Len(round) - 1
      /\ e = round[1] /\ e \in Drives \union {Camera}
      /\ \A i \in DOMAIN q : i + 1 \in DOMAIN round /\ q[i] = round[i + 1]
      /\ \A i \in DOMAIN round : i = 1 \/ (i - 1 \in DOMAIN q /\ q[i - 1] = round[i])
      /\ DOMAIN q = 1..Len(q)
  BY <1>1, <1>3, RoundTail DEF MotionInv
<1>. HIDE DEF e
<1>5. e \in Drives
  BY <1>1, <1>4
<1>6. /\ call'.fn = "check_status" /\ call'.drive = e /\ call'.left = <<>>
      /\ started' = started
  BY <1>1 DEF CheckStatus, Begin
<1>7. call' # None
  <2>1. Begin("check_status", e, <<>>, StatusLine)
    BY <1>1 DEF CheckStatus
  <2>2. StatusLine \in Seq(Command)
    BY DEF StatusLine, Command, Ops
  <2>3. call' \in Calls
    BY <1>5, <2>1, <2>2, BeginType, EmptySeq DEF MotionInv, PromptInv
  <2>. QED BY <2>3, NoneAssumption
<1>8. command # None
  BY <1>1 DEF MotionInv, PlanInv, DutyInv
<1>9. DutyInv'
  BY <1>1, <1>6, <1>8 DEF DutyInv, MotionInv, PlanInv
<1>10. RoundInv'
  <2>1. \A i \in DOMAIN q : q[i] = Camera => i = Len(q) /\ At("watch")
    BY <1>4 DEF MotionInv, PlanInv, RoundInv
  <2>. QED BY <1>1, <1>3, <2>1 DEF RoundInv, At, MotionInv, PlanInv
<1>11. WaitInv'
  <2>. SUFFICES ASSUME ~in_motion, NEW d \in Drives, Waits(Head(plan), d)
                PROVE  \/ \E i \in DOMAIN q : q[i] = d
                       \/ e = d
                       \/ Settled(d)'
    BY <1>1, <1>3, <1>6, <1>7 DEF WaitInv, Waits
  <2>1. (\E i \in DOMAIN round : round[i] = d) \/ Settled(d)
    BY <1>1 DEF MotionInv, PlanInv, WaitInv
  <2>. QED BY <1>2, <1>4, <2>1
<1>. QED BY <1>2, <1>9, <1>10, <1>11 DEF PlanInv

\* A drive that is found idle is at rest.
LEMMA IdleAtRest ==
  ASSUME PromptInv, Returning, call.fn = "check_status",
         IsIdle(parameter[call.drive])
  PROVE  Settled(call.drive)
<1>1. call # None /\ call.drive \in Drives
  BY DEF Returning, PromptInv, TypeOK, Calls
<1>2. \A d \in Drives : inbox[d] = <<>>
  BY DEF Returning, PromptInv, ExchangeInv, Outstanding
<1>3. wire = <<>> /\ rx = <<>> /\ todo[call.drive] = <<>>
  BY DEF Returning, PromptInv, ExchangeInv, Outstanding
<1>4. AtRest(call.drive)
  BY <1>1, <1>2, <1>3 DEF PromptInv, AnswerInv
<1>. QED BY <1>1, <1>2, <1>3, <1>4, EmptyList DEF Settled

\* A verdict "idle" is taken for what it is: one drive of the loop stands still.
LEMMA ReturnKeeps ==
  ASSUME Prompt, ~Simulation, MotionInv, ReturnToPlan
  PROVE  PlanInv'
<1>1. /\ UNCHANGED <<plan, steps, command, round>> /\ Return
      /\ in_motion' = IF call.fn = "check_status" THEN Judged ELSE in_motion
      /\ [ArmNext]_allVars
  BY DEF ReturnToPlan, ArmNext, Main
<1>2. /\ Shape(plan)' /\ RestInv' /\ PlaceInv' /\ AskInv' /\ JointInv' /\ HomeInv'
      /\ \A d \in Drives : Settled(d) => Settled(d)'
  BY <1>1, PlanStays
<1>3. Returning /\ call' = None /\ started' = started
  BY <1>1 DEF Return
<1>4. ~in_motion' => /\ ~in_motion
                     /\ call.fn = "check_status" => IsIdle(parameter[call.drive])
  BY <1>1 DEF Judged
<1>5. DutyInv'
  BY <1>1, <1>2, <1>3 DEF DutyInv, MotionInv, PlanInv
<1>6. RoundInv'
  BY <1>1, <1>4 DEF RoundInv, At, MotionInv, PlanInv
<1>7. WaitInv'
  <2>. SUFFICES ASSUME ~in_motion', NEW d \in Drives, Waits(Head(plan), d)
                PROVE  \/ \E i \in DOMAIN round : round[i] = d
                       \/ Settled(d)'
    BY <1>1 DEF WaitInv, Waits
  <2>1. CASE \E i \in DOMAIN round : round[i] = d
    BY <2>1
  <2>2. CASE call.fn = "check_status" /\ call.drive = d
    BY <1>2, <1>3, <1>4, <2>2, IdleAtRest DEF MotionInv
  <2>3. CASE Settled(d)
    BY <1>2, <2>3
  <2>. QED BY <1>4, <2>1, <2>2, <2>3 DEF MotionInv, PlanInv, WaitInv
<1>. QED BY <1>2, <1>5, <1>6, <1>7 DEF PlanInv

\* The camera has seen nothing new.
LEMMA LookKeeps ==
  ASSUME Prompt, ~Simulation, MotionInv, Look, plan' = plan
  PROVE  PlanInv'
<1>1. /\ UNCHANGED <<steps, command>> /\ UNCHANGED vars /\ call = None
      /\ round # <<>> /\ Head(round) = Camera /\ round' = Tail(round)
      /\ in_motion' = in_motion \/ in_motion' = TRUE
      /\ [ArmNext]_allVars
  BY DEF Look, ArmNext, Main
<1>2. /\ Shape(plan)' /\ RestInv' /\ PlaceInv' /\ AskInv' /\ JointInv' /\ HomeInv'
      /\ \A d \in Drives : Settled(d) => Settled(d)'
  BY <1>1, PlanStays
<1>3. /\ Tail(round) = <<>> /\ command # None /\ Head(plan).do = "watch"
      /\ Head(plan).drive = Base /\ (~in_motion => Settled(Base))
  BY <1>1, AtCamera
<1>4. UNCHANGED <<started, call>>
  BY <1>1 DEF vars
<1>5. DutyInv'
  BY <1>1, <1>3, <1>4 DEF DutyInv, MotionInv, PlanInv
<1>6. RoundInv'
  BY <1>1, <1>3 DEF RoundInv, At, MotionInv, PlanInv
<1>7. WaitInv'
  <2>1. \A d : Waits(Head(plan), d) => d = Base
    BY <1>3 DEF Waits
  <2>. QED BY <1>1, <1>2, <1>3, <2>1, MotorsAreDrives DEF WaitInv, Waits
<1>. QED BY <1>2, <1>5, <1>6, <1>7 DEF PlanInv

-----------------------------------------------------------------------------
(* The invariant, and what follows from it *)

LEMMA MotionInit == ArmInit => MotionInv
<1>. SUFFICES ASSUME ArmInit PROVE MotionInv
  OBVIOUS
<1>1. Init /\ command = None /\ plan = <<>> /\ round = <<>> /\ in_motion = TRUE
      /\ call = None
  BY DEF ArmInit, Init
<1>2. ArmTypeOK /\ PromptInv
  BY <1>1, ArmTypeInit, TypeInit, ExchangeInit, CallInit, AnswerInit DEF PromptInv
<1>3. \A d \in Drives : Settled(d) /\ Resting(d)
  BY <1>1, EmptyList DEF Init, Settled, Resting, AtRest
<1>4. DutyInv /\ RoundInv /\ WaitInv
  BY <1>1, <1>3 DEF DutyInv, RoundInv, WaitInv
<1>5. Shape(plan) /\ PlaceInv /\ AskInv /\ JointInv
  BY <1>1 DEF Shape, PlaceInv, AskInv, JointInv
<1>6. HomeInv
  BY <1>1, NoneCommandAssumption DEF HomeInv
<1>7. RestInv
  <2>. SUFFICES ASSUME NEW k \in 1..Len(plan) + 1, NEW d \in Drives
                PROVE  Rested(plan, d, k)
    BY DEF RestInv
  <2>1. Len(plan) = 0 /\ k = 1 /\ DOMAIN plan = {}
    BY <1>1
  <2>. QED BY <1>3, <2>1 DEF Rested, Holds
<1>. QED BY <1>2, <1>4, <1>5, <1>6, <1>7 DEF MotionInv, PlanInv

LEMMA PlanNext ==
  ASSUME Prompt, ~Simulation
  PROVE  MotionInv /\ [ArmNext]_allVars => PlanInv'
<1>. SUFFICES ASSUME MotionInv, [ArmNext]_allVars PROVE PlanInv'
  OBVIOUS
<1>1. CASE Commands
  BY <1>1, CommandsKeep
<1>2. CASE Decisions
  BY <1>2, DecisionsKeep
<1>3. CASE RunStep
  BY <1>3, RunKeeps
<1>4. CASE AskStep
  BY <1>4, AskKeeps
<1>5. CASE BeginRound
  BY <1>5, BeginRoundKeeps
<1>6. CASE CheckNext
  BY <1>6, CheckNextKeeps
<1>7. CASE ReturnToPlan
  BY <1>7, ReturnKeeps
<1>8. CASE Look
  BY <1>8, LookKeeps, SightingKeeps
<1>9. CASE EndWait
  BY <1>9, EndWaitKeeps
<1>10. CASE NoteStep \/ SightStep
  BY <1>10, NoteSightKeeps
<1>11. CASE StartUp
  <2>1. UNCHANGED armVars
    BY <1>11 DEF StartUp
  <2>. QED BY <1>11, <2>1, BelowKeeps
<1>12. CASE NextMacro /\ UNCHANGED armVars
  BY <1>12, BelowKeeps
<1>13. CASE (RunCommand \/ ReadLine \/ PollEmpty) /\ UNCHANGED armVars
  <2>1. UNCHANGED <<call, started>>
    BY <1>13 DEF RunCommand, ReadLine, PollEmpty
  <2>. QED BY <1>13, <2>1, BelowKeeps
<1>14. CASE External /\ UNCHANGED armVars
  <2>1. UNCHANGED <<call, started>>
    BY <1>14 DEF External, Execute, Travel, Arrive, ArriveHead, host
  <2>. QED BY <1>14, <2>1, BelowKeeps
<1>15. CASE UNCHANGED allVars
  <2>1. UNCHANGED armVars /\ UNCHANGED <<call, started>>
    BY <1>15 DEF allVars, vars
  <2>. QED BY <2>1, BelowKeeps
<1>. QED
  BY <1>1, <1>2, <1>3, <1>4, <1>5, <1>6, <1>7, <1>8, <1>9, <1>10, <1>11, <1>12,
     <1>13, <1>14, <1>15 DEF ArmNext, Main, Decisions

LEMMA MotionNext ==
  ASSUME Prompt, ~Simulation
  PROVE  MotionInv /\ [ArmNext]_allVars => MotionInv'
<1>. SUFFICES ASSUME MotionInv, [ArmNext]_allVars PROVE MotionInv'
  OBVIOUS
<1>1. ArmTypeOK'
  BY ArmTypeNext DEF MotionInv
<1>2. [Next]_vars
  BY ArmStepIsDriverStep DEF MotionInv
<1>3. PromptInv'
  BY <1>2, TypeNext, ExchangeNext, CallNext, AnswerNext DEF MotionInv, PromptInv
<1>. QED BY <1>1, <1>3, PlanNext DEF MotionInv

\* With prompt answers what a plan relies on at each of its steps has been
\* brought about when the step is due, whatever command is given, whenever a
\* pattern is sighted, and however calls, line and drives interleave.
THEOREM MotionInvariant ==
  ASSUME Prompt, ~Simulation
  PROVE  ArmSpec => []MotionInv
BY MotionInit, MotionNext, PTL DEF ArmSpec

\* A drive whose last command was its feed, and that is at rest between two
\* calls, is where it was sent.
LEMMA RestsAtGoal ==
  ASSUME PromptInv, call = None, NEW d \in Drives, NEW n, Bound(d, n), Settled(d)
  PROVE  AtRest(d) /\ pos[d] = n
BY RestBetweenCalls DEF Settled, AtRest

\* move_by_command notes a point when both motors stand there.
THEOREM MovesArrive ==
  ASSUME Prompt, ~Simulation
  PROVE  ArmSpec => []MoveArrives
<1>1. MotionInv => MoveArrives
  <2>. SUFFICES ASSUME MotionInv, At("note"), call = None, NEW d \in Drives
                PROVE  AtRest(d) /\ pos[d] = Gear[d] * steps[d]
    BY DEF MoveArrives
  <2>1. Settled(d)
    BY AllAtRest
  <2>2. 1 \in DOMAIN plan /\ plan[1].do = "note" /\ Len(plan) \in Nat
    BY AtFirst DEF MotionInv
  <2>3. Placed(plan, d, Gear[d] * steps[d], 1)
    BY <2>2 DEF MotionInv, PlanInv, PlaceInv, Due
  <2>4. Bound(d, Gear[d] * steps[d])
    BY <2>2, <2>3, Present
  <2>. QED BY <2>1, <2>4, RestsAtGoal DEF MotionInv
<1>. QED BY <1>1, MotionInvariant, PTL

\* The elbow is not sent home before the base is there, and HOME ends at home.
THEOREM HomeIsInOrder ==
  ASSUME Prompt, ~Simulation
  PROVE  ArmSpec => []HomeInOrder
<1>1. MotionInv => HomeInOrder
  <2>. SUFFICES ASSUME MotionInv, command = "home", call = None
                PROVE  /\ Len(plan) <= 2 => pos[Base] = 0
                       /\ plan = <<>> => pos[Elbow] = 0
    BY DEF HomeInOrder, StepperPlan
  <2>1. /\ Len(plan) <= 2 => Bound(Base, 0) /\ Settled(Base)
        /\ Len(plan) <= 1 => Bound(Elbow, 0)
    <3>1. Len(plan) \in Nat
      BY DEF MotionInv, ArmTypeOK
    <3>. QED BY <3>1 DEF MotionInv, PlanInv, HomeInv
  <2>2. Len(plan) <= 2 => pos[Base] = 0
    BY <2>1, RestsAtGoal, MotorsAreDrives DEF MotionInv
  <2>3. ASSUME plan = <<>> PROVE pos[Elbow] = 0
    <3>1. Settled(Elbow)
      BY <2>3, AllAtRest, MotorsAreDrives
    <3>2. Bound(Elbow, 0)
      BY <2>1, <2>3
    <3>. QED BY <3>1, <3>2, RestsAtGoal, MotorsAreDrives DEF MotionInv
  <2>. QED BY <2>2, <2>3
<1>. QED BY <1>1, MotionInvariant, PTL

\* The rotations that S, SPD and SPR compute with are those of the arm as it
\* stands.
THEOREM ScansLocate ==
  ASSUME Prompt, ~Simulation
  PROVE  ArmSpec => []ScanLocates
<1>1. MotionInv => ScanLocates
  <2>. SUFFICES ASSUME MotionInv, At("locate"), call = None, NEW d \in Drives
                PROVE  AtRest(d) /\ reported_steps[d] = pos[d]
    BY DEF ScanLocates
  <2>1. 1 \in DOMAIN plan /\ plan[1].do = "locate" /\ Len(plan) \in Nat
    BY AtFirst DEF MotionInv
  <2>2. Asked(plan, d, 1)
    BY <2>1 DEF MotionInv, PlanInv, AskInv
  <2>3. Located(d)
    BY <2>1, <2>2, Present
  <2>. QED BY <2>3 DEF Located
<1>. QED BY <1>1, MotionInvariant, PTL

\* In a sweep at most one joint moves.
THEOREM OneJointAtATime ==
  ASSUME Prompt, ~Simulation
  PROVE  ArmSpec => []OneJointMoves
<1>1. MotionInv => OneJointMoves
  BY DEF MotionInv, PlanInv, JointInv, OneJointMoves, Settled
<1>. QED BY <1>1, MotionInvariant, PTL

\* A sweep goes on from the column and the row that it has counted.
THEOREM SweepsKeepStep ==
  ASSUME Prompt, ~Simulation
  PROVE  ArmSpec => []SweepInStep
<1>1. MotionInv => SweepInStep
  <2>. SUFFICES ASSUME MotionInv, At("raster"), call = None
                PROVE  /\ \A d \in Drives : AtRest(d)
                       /\ pos[Base] = Gear[Base] * Head(plan).at
                       /\ pos[Elbow] = Gear[Elbow] * RowSteps(Head(plan).row, steps[Elbow])
    BY DEF SweepInStep
  <2>1. \A d \in Drives : Settled(d)
    BY AllAtRest DEF Deciding
  <2>2. /\ 1 \in DOMAIN plan /\ plan[1].do = "raster" /\ Head(plan) = plan[1]
        /\ Len(plan) \in Nat
    BY AtFirst DEF MotionInv
  <2>3. ASSUME NEW d \in Drives PROVE AtRest(d) /\ pos[d] = Due(plan[1], d)
    <3>1. Placed(plan, d, Due(plan[1], d), 1)
      BY <2>2 DEF MotionInv, PlanInv, PlaceInv
    <3>2. Bound(d, Due(plan[1], d))
      BY <2>2, <3>1, Present
    <3>. QED BY <2>1, <3>2, RestsAtGoal DEF MotionInv
  <2>4. /\ Due(plan[1], Base) = Gear[Base] * plan[1].at
        /\ Due(plan[1], Elbow) = Gear[Elbow] * RowSteps(plan[1].row, steps[Elbow])
    BY <2>2, MotorsAssumption DEF Due
  <2>. QED BY <2>2, <2>3, <2>4, MotorsAreDrives
<1>. QED BY <1>1, MotionInvariant, PTL

===============================================================================
