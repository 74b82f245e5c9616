---------------------------- MODULE Planner_proofs ----------------------------
(***************************************************************************)
(* What a pass of locate_in_cell finds, for any cell, any cameras and any  *)
(* views.  The planner's steps are further steps of the main thread of     *)
(* TargetHandoff, so what is proved of the handoff is proved again for     *)
(* them; then follows what the planner knows of the targets that no report *)
(* comes to.                                                               *)
(***************************************************************************)
EXTENDS Planner, TargetHandoff_proofs

Stages == {"idle", "pass", "next", "acquire", "see x", "see y", "again y",
           "move", "schedule"}

\* The main thread is at rest but for the planner, which is in to_target as
\* soon as it has a stage; between passes nothing is in focus.
PlanTypeOK ==
  /\ stage \in Stages
  /\ mode = "target" <=> stage # "idle"
  /\ mode \in {"idle", "target"} => pc = "idle"
  /\ cell \subseteq Targets /\ left \subseteq Targets
  /\ current \in Targets \union {None}
  /\ t \in Targets \union {None} /\ focus \in Targets \union {None}
  /\ xx \in Records \union {NoRecord}
  /\ nearest \in Int /\ touched \subseteq Targets
  /\ stage # "idle" => Goal # None
  /\ Visiting => t # None
  /\ Passing => current # None
  /\ ~Passing => focus = None /\ nearest = Farthest /\ save = <<0, 0>>

LEMMA PlanTypeInit == PlanInit => TypeOK /\ PlanTypeOK
<1>. SUFFICES ASSUME PlanInit PROVE PlanTypeOK
  BY TypeInit DEF PlanInit
<1>. QED
  BY DEF PlanInit, Init, PlanTypeOK, Stages, Visiting, Passing, NoRecord, Farthest

\* Any sighting is nearer than the distance that locate_in_cell begins with.
LEMMA DistanceType ==
  ASSUME NEW a \in Records \union {NoRecord}, NEW b \in Records \union {NoRecord}
  PROVE  /\ Dist(a, b) \in Int /\ Dist(a, b) < Farthest
         /\ XOf[a] \in Int /\ YOf[b] \in Int
<1>1. XOf[a] \in Int /\ YOf[b] \in Int /\ FovW \in Int /\ FovH \in Int
  BY PlannerAssumption
<1>2. Dist(a, b) < Farthest
  BY PlannerAssumption
<1>3. Dist(a, b) \in Int
  BY <1>1 DEF Dist
<1>. QED BY <1>1, <1>2, <1>3

\* The planner's steps leave the threads and the measurements alone.
LEMMA PlanStepKeeps ==
  ASSUME ToTarget \/ PlanStep
  PROVE  UNCHANGED <<fov_x, fov_y, fov_theta, fov_match, last, reader>>
BY DEF ToTarget, PlanStep, BeginPass, Pass, EmptyPass, TestFlag, Acquire, SeeX,
       SeeY, AgainX, AgainY, Move, Schedule, vars, target, history

LEMMA UnderReportType == UnderReport \subseteq Targets
BY DEF UnderReport

\* What a step of the planner has to show of the handoff's types.
LEMMA PlanFrameType ==
  ASSUME TypeOK,
         UNCHANGED <<fov_x, fov_y, fov_theta, fov_match, last, reader>>,
         UNCHANGED <<pc, best, percent_match, theta, match>>,
         mode' \in {mode, "target"}, j' \in 1..Len(Order),
         x_hat' \in Records \union {NoRecord}, y_hat' \in Records \union {NoRecord},
         present' \in [Targets -> BOOLEAN], spent' \in [Targets -> BOOLEAN],
         quiet' \in BOOLEAN, before' \in [Targets -> BOOLEAN]
  PROVE  TypeOK'
BY DEF TypeOK, reader

LEMMA PlanStepType ==
  ASSUME TypeOK, PlanTypeOK, ToTarget \/ PlanStep
  PROVE  TypeOK' /\ PlanTypeOK'
<1>1. UNCHANGED <<fov_x, fov_y, fov_theta, fov_match, last, reader>>
  BY PlanStepKeeps
<1>2. /\ j \in 1..Len(Order)
      /\ x_hat \in Records \union {NoRecord} /\ y_hat \in Records \union {NoRecord}
      /\ present \in [Targets -> BOOLEAN] /\ spent \in [Targets -> BOOLEAN]
      /\ quiet \in BOOLEAN /\ before \in [Targets -> BOOLEAN]
      /\ \A u \in Targets : /\ fov_x[u] \in Records \union {NoRecord}
                            /\ fov_y[u] \in Records \union {NoRecord}
  BY DEF TypeOK
<1>. USE DEF Passing, Visiting, Stages, target, result, history, main, vars
<1>3. CASE ToTarget
  <2>1. cell' \subseteq Targets
    BY <1>3, PlannerAssumption DEF ToTarget
  <2>2. TypeOK'
    BY <1>3, <1>1, <1>2, PlanFrameType DEF ToTarget
  <2>. QED BY <1>3, <2>1, <2>2 DEF ToTarget, PlanTypeOK
<1>4. CASE BeginPass
  <2>1. current' \in Targets
    BY <1>4, PlannerAssumption DEF BeginPass, Pass, PlanTypeOK
  <2>2. TypeOK'
    BY <1>4, <1>1, <1>2, PlanFrameType DEF BeginPass, Pass
  <2>3. touched' \subseteq Targets
    BY <1>4, UnderReportType DEF BeginPass, Pass
  <2>. QED BY <1>4, <2>1, <2>2, <2>3, OrderAssumption DEF BeginPass, Pass, PlanTypeOK
<1>5. CASE EmptyPass
  <2>1. TypeOK'
    BY <1>5, <1>1, <1>2, PlanFrameType DEF EmptyPass
  <2>. QED BY <1>5, <2>1 DEF EmptyPass, PlanTypeOK
<1>6. CASE TestFlag
  <2>1. TypeOK'
    BY <1>6, <1>1, <1>2, PlanFrameType DEF TestFlag
  <2>2. PICK u \in left :
          /\ left' = left \ {u}
          /\ IF present[u] THEN t' = u /\ stage' = "acquire"
                           ELSE UNCHANGED <<t, stage>>
    BY <1>6 DEF TestFlag
  <2>. QED BY <1>6, <2>1, <2>2, OrderAssumption DEF TestFlag, PlanTypeOK
<1>7. CASE Acquire
  <2>1. TypeOK'
    BY <1>7, <1>1, <1>2, PlanFrameType DEF Acquire
  <2>. QED BY <1>7, <2>1 DEF Acquire, PlanTypeOK
<1>8. CASE SeeX
  <2>1. TypeOK'
    BY <1>8, <1>1, <1>2, PlanFrameType DEF SeeX
  <2>2. xx' \in Records \union {NoRecord}
    BY <1>8 DEF SeeX, TypeOK, PlanTypeOK
  <2>. QED BY <1>8, <2>1, <2>2 DEF SeeX, PlanTypeOK
<1>9. CASE SeeY
  <2>1. TypeOK'
    BY <1>9, <1>1, <1>2, PlanFrameType DEF SeeY
  <2>2. t \in Targets /\ Dist(xx, fov_y[t]) \in Int
    BY <1>9, DistanceType DEF SeeY, TypeOK, PlanTypeOK
  <2>3. focus' \in Targets \union {None} /\ nearest' \in Int
    BY <1>9, <2>2 DEF SeeY, PlanTypeOK
  <2>. QED BY <1>9, <2>1, <2>3 DEF SeeY, PlanTypeOK, NoRecord
<1>10. CASE AgainX
  <2>1. current' \in Targets
    BY <1>10 DEF AgainX, PlanTypeOK
  <2>2. TypeOK'
    BY <1>10, <2>1, <1>1, <1>2, PlanFrameType DEF AgainX
  <2>. QED BY <1>10, <2>1, <2>2, OrderAssumption DEF AgainX, PlanTypeOK
<1>11. CASE AgainY
  <2>1. TypeOK'
    BY <1>11, <1>1, <1>2, PlanFrameType DEF AgainY, PlanTypeOK
  <2>. QED BY <1>11, <2>1 DEF AgainY, PlanTypeOK
<1>12. CASE Move
  <2>1. 1 \in 1..Len(Order)
    BY OrderLength
  <2>2. TypeOK'
    BY <1>12, <2>1, <1>1, <1>2, PlanFrameType DEF Move, NoRecord
  <2>. QED BY <1>12, <2>2 DEF Move, PlanTypeOK, Farthest
<1>13. CASE Schedule
  <2>1. j' \in 1..Len(Order) /\ stage' \in {"pass", "schedule"}
    BY <1>13, OrderLength DEF Schedule, TypeOK, LastOne
  <2>2. TypeOK'
    BY <1>13, <2>1, <1>1, <1>2, PlanFrameType DEF Schedule
  <2>3. cell' \subseteq Targets
    BY <1>13, OrderElement DEF Schedule, TypeOK, PlanTypeOK
  <2>. QED BY <1>13, <2>1, <2>2, <2>3 DEF Schedule, PlanTypeOK
<1>. QED
  BY <1>3, <1>4, <1>5, <1>6, <1>7, <1>8, <1>9, <1>10, <1>11, <1>12, <1>13
     DEF PlanStep

\* Begin and Main are disabled while to_target runs, and do not begin it.
LEMMA PlanOther ==
  ASSUME TypeOK, PlanTypeOK, Beside(Next)
  PROVE  /\ PlanTypeOK'
         /\ stage # "idle" => ~Begin /\ ~Main
<1>0. Next
  BY DEF Beside
<1>1. /\ UNCHANGED <<stage, cell, current, left, t, focus, xx, nearest, save>>
      /\ touched' \subseteq Targets
  <2>1. UnderReport' \subseteq Targets
    BY DEF UnderReport
  <2>. QED BY <2>1 DEF Beside, plan, PlanTypeOK
<1>2. ASSUME mode' = "target" <=> stage # "idle",
             mode' \in {"idle", "target"} => pc' = "idle"
      PROVE  PlanTypeOK'
  BY <1>1, <1>2 DEF PlanTypeOK, Visiting, Passing
<1>3. CASE Begin
  <2>1. mode = "idle" /\ mode' \notin {"idle", "target"}
    BY <1>3 DEF Begin, BestMatch, WaitAny, WaitFor, ToArm, ClearTargets, Enter
  <2>2. stage = "idle"
    BY <2>1 DEF PlanTypeOK
  <2>. QED BY <1>2, <2>1, <2>2
<1>4. CASE Main
  <2>1. pc # "idle" /\ (mode' = mode \/ (mode' = "idle" /\ pc' = "idle"))
    BY <1>4 DEF Main, Look, Consume, Compare, Record, ReadX, ReadY, LoopOn,
                ReadTheta, ReadMatch, Clear, Leave
  <2>2. mode \notin {"idle", "target"} /\ stage = "idle"
    BY <2>1 DEF PlanTypeOK
  <2>. QED BY <1>2, <2>1, <2>2
<1>5. ASSUME ~Begin, ~Main PROVE PlanTypeOK'
  <2>1. mode' = mode /\ pc' = pc
    BY <1>0, <1>5 DEF Next, Emit, DataTest, TestAbsent, TestPresent, WriteX, WriteY,
                WriteDegrees, WriteRadians, WriteMatch, main
  <2>. QED BY <1>2, <2>1 DEF PlanTypeOK
<1>6. stage # "idle" => ~Begin /\ ~Main
  <2>1. Begin => mode = "idle"
    BY DEF Begin, BestMatch, WaitAny, WaitFor, ToArm, ClearTargets, Enter
  <2>2. Main => pc # "idle"
    BY DEF Main, Look, Consume, Compare, Record, ReadX, ReadY, LoopOn,
           ReadTheta, ReadMatch, Clear, Leave
  <2>. QED BY <2>1, <2>2 DEF PlanTypeOK
<1>. QED BY <1>3, <1>4, <1>5, <1>6

\* The handoff is what it was without the planner.
PlanHandoff == HandoffInv /\ PlanTypeOK

LEMMA PlanHandoffNext == PlanHandoff /\ [PlanNext]_planVars => PlanHandoff'
<1>. SUFFICES ASSUME PlanHandoff, [PlanNext]_planVars PROVE PlanHandoff'
  OBVIOUS
<1>. USE DEF PlanHandoff
<1>1. TypeOK
  BY DEF HandoffInv
<1>2. CASE ToTarget \/ PlanStep
  <2>1. TypeOK' /\ PlanTypeOK'
    BY <1>1, <1>2, PlanStepType
  <2>2. UNCHANGED <<fov_x, fov_y, fov_theta, fov_match, last, reader>>
    BY <1>2, PlanStepKeeps
  <2>. QED BY <2>1, <2>2, HandoffStutter
<1>3. CASE Beside(Next)
  <2>1. Next
    BY <1>3 DEF Beside
  <2>. QED BY <1>1, <1>3, <2>1, PlanOther, HandoffNext
<1>4. CASE UNCHANGED planVars
  <2>1. UNCHANGED vars /\ UNCHANGED plan /\ UNCHANGED touched
    BY <1>4 DEF planVars
  <2>2. PlanTypeOK'
    BY <2>1 DEF vars, main, plan, PlanTypeOK, Visiting, Passing
  <2>. QED BY <1>1, <2>1, <2>2, HandoffNext
<1>. QED BY <1>2, <1>3, <1>4 DEF PlanNext

-----------------------------------------------------------------------------
(* What a pass knows of the targets that no report comes to *)

From(u) == Dist(last[u], last[u])
Way(u) == <<FovW - XOf[last[u]], FovH - YOf[last[u]]>>

\* What is still to be acquired, and what has been compared.
Pending == left \union (IF stage = "acquire" THEN {t} ELSE {})
Judged == cell \ (left \union (IF Visiting THEN {t} ELSE {}))

\* Of those compared so far none was nearer than the focus.  A report that came
\* to the focus itself may have changed what it was compared with.
NearestSoFar ==
  /\ IF focus = None THEN nearest = Farthest ELSE focus \in Judged
  /\ focus \notin touched \union {None} =>
       before[focus] /\ nearest = From(focus) /\ save = Way(focus)
  /\ focus = None => save = <<0, 0>>
  /\ \A u \in Judged \ touched : before[u] => focus # None /\ nearest <= From(u)

\* The threads are in data_test with touched targets only; of the others the pass
\* acquires what it found in view, and what it reads is of their last report.
CellInv ==
  Passing =>
    /\ UnderReport \subseteq touched
    /\ left \subseteq cell
    /\ Visiting => t \in cell \ left /\ (t \notin touched => before[t])
    /\ \A u \in cell \ touched : present[u] <=> before[u] /\ u \in Pending
    /\ NearestSoFar
    /\ stage = "see y" /\ t \notin touched => xx = last[t]
    /\ stage \in {"again y", "move"} =>
         /\ left = {}
         /\ focus # None => current = focus
         /\ current \notin touched => x_hat = last[current]
    /\ stage = "move" /\ current \notin touched => y_hat = last[current]

\* A target that no thread is in data_test with holds the whole of its last report.
LEMMA UntouchedWhole ==
  ASSUME PlanHandoff, CellInv, Passing, NEW u \in Targets \ touched
  PROVE  fov_x[u] = last[u] /\ fov_y[u] = last[u]
BY DEF PlanHandoff, HandoffInv, WholeBetweenReports, CellInv, UnderReport

\* A last report is a place with a distance.
LEMMA FromType ==
  ASSUME PlanHandoff, NEW u \in Targets
  PROVE  /\ From(u) \in Int /\ From(u) < Farthest
         /\ XOf[last[u]] \in Int /\ YOf[last[u]] \in Int
<1>1. last[u] \in Records \union {NoRecord}
  BY DEF PlanHandoff, HandoffInv, TypeOK
<1>. QED BY <1>1, DistanceType DEF From

LEMMA CellBegin ==
  ASSUME PlanHandoff, BeginPass
  PROVE  CellInv'
<1>1. /\ stage' = "next" /\ left' = cell /\ cell' = cell /\ before' = present
      /\ present' = present /\ focus' = None /\ nearest' = Farthest
      /\ save' = <<0, 0>> /\ touched' = UnderReport /\ subject' = subject
  BY DEF BeginPass, Pass, target, reader, PlanHandoff, PlanTypeOK, Passing, Visiting
<1>2. Pending' = cell /\ Judged' = {} /\ ~Visiting'
  BY <1>1 DEF Pending, Judged, Visiting
<1>3. UnderReport' = UnderReport
  BY <1>1 DEF UnderReport
<1>4. NearestSoFar'
  BY <1>1, <1>2 DEF NearestSoFar
<1>. QED BY <1>1, <1>2, <1>3, <1>4 DEF CellInv

\* What the steps of a pass leave alone.
PassKeeps == UNCHANGED <<subject, before, last, cell, touched>>

LEMMA PassFrame ==
  ASSUME PassKeeps
  PROVE  /\ UnderReport' = UnderReport
         /\ \A u : From(u)' = From(u) /\ Way(u)' = Way(u)
BY DEF PassKeeps, UnderReport, From, Way

LEMMA CellTestFlag ==
  ASSUME PlanHandoff, CellInv, TestFlag
  PROVE  CellInv'
<1>. USE DEF vars, target, reader, history
<1>1. PICK u \in left :
        /\ left' = left \ {u}
        /\ IF present[u] THEN t' = u /\ stage' = "acquire"
                         ELSE UNCHANGED <<t, stage>>
  BY DEF TestFlag
<1>2. /\ stage = "next" /\ Passing /\ ~Visiting /\ PassKeeps
      /\ UNCHANGED <<present, focus, nearest, save>>
  BY DEF TestFlag, Passing, Visiting, PassKeeps
<1>3. /\ UnderReport \subseteq touched /\ left \subseteq cell
      /\ NearestSoFar /\ Pending = left /\ Judged = cell \ left
      /\ \A v \in cell \ touched : present[v] <=> before[v] /\ v \in left
  BY <1>2 DEF CellInv, Pending, Judged
<1>4. UnderReport' = UnderReport /\ \A v : From(v)' = From(v) /\ Way(v)' = Way(v)
  BY <1>2, PassFrame
<1>5. CASE present[u]
  <2>1. stage' = "acquire" /\ t' = u /\ Visiting' /\ Passing'
    BY <1>1, <1>5 DEF Visiting, Passing
  <2>2. Pending' = left /\ Judged' = Judged
    BY <1>1, <1>2, <1>3, <2>1 DEF Pending, Judged, PassKeeps
  <2>3. NearestSoFar'
    BY <1>2, <1>3, <1>4, <2>2 DEF NearestSoFar, PassKeeps
  <2>4. u \notin touched => before[u]
    BY <1>1, <1>3, <1>5
  <2>. QED BY <1>1, <1>2, <1>3, <1>4, <2>1, <2>2, <2>3, <2>4 DEF CellInv, PassKeeps
<1>6. CASE ~present[u]
  <2>1. stage' = "next" /\ ~Visiting' /\ Passing'
    BY <1>1, <1>2, <1>6 DEF Visiting, Passing
  <2>2. /\ Pending' = left \ {u} /\ Judged' = Judged \union {u}
        /\ u \notin touched => ~before[u]
    BY <1>1, <1>2, <1>3, <1>6, <2>1 DEF Pending, Judged, PassKeeps
  <2>3. NearestSoFar'
    BY <1>2, <1>3, <1>4, <2>2 DEF NearestSoFar, PassKeeps
  <2>. QED BY <1>1, <1>2, <1>3, <1>4, <1>6, <2>1, <2>2, <2>3 DEF CellInv, PassKeeps
<1>. QED BY <1>5, <1>6

LEMMA CellAcquire ==
  ASSUME PlanHandoff, CellInv, Acquire
  PROVE  CellInv'
<1>1. /\ stage = "acquire" /\ stage' = "see x" /\ Passing /\ Visiting /\ Visiting'
      /\ Passing' /\ PassKeeps
      /\ present' = [present EXCEPT ![t] = FALSE]
      /\ UNCHANGED <<left, t, focus, nearest, save>>
  BY DEF Acquire, Passing, Visiting, PassKeeps, reader
<1>2. /\ UnderReport \subseteq touched /\ left \subseteq cell
      /\ NearestSoFar /\ t \in cell \ left /\ (t \notin touched => before[t])
      /\ Pending = left \union {t}
      /\ \A u \in cell \ touched :
           present[u] <=> before[u] /\ u \in left \union {t}
  BY <1>1 DEF CellInv, Pending
<1>3. Pending' = left /\ Judged' = Judged
  BY <1>1 DEF Pending, Judged, PassKeeps
<1>4. UnderReport' = UnderReport /\ \A v : From(v)' = From(v) /\ Way(v)' = Way(v)
  BY <1>1, PassFrame
<1>5. NearestSoFar'
  BY <1>1, <1>2, <1>3, <1>4 DEF NearestSoFar, PassKeeps
<1>6. \A u \in cell \ touched : present'[u] <=> before[u] /\ u \in left
  <2>1. /\ cell \subseteq Targets /\ present \in [Targets -> BOOLEAN]
    BY DEF PlanHandoff, PlanTypeOK, HandoffInv, TypeOK
  <2>. QED BY <1>1, <1>2, <2>1
<1>. QED BY <1>1, <1>2, <1>3, <1>4, <1>5, <1>6 DEF CellInv, PassKeeps

LEMMA CellSeeX ==
  ASSUME PlanHandoff, CellInv, SeeX
  PROVE  CellInv'
<1>1. /\ stage = "see x" /\ stage' = "see y" /\ Passing /\ Visiting /\ Visiting'
      /\ Passing' /\ PassKeeps
      /\ UNCHANGED <<present, left, t, focus, nearest, save>>
      /\ xx' = fov_x[t]
  BY DEF SeeX, Passing, Visiting, PassKeeps, vars, target, reader, history
<1>2. Pending' = Pending /\ Judged' = Judged
  BY <1>1 DEF Pending, Judged, PassKeeps
<1>3. UnderReport' = UnderReport /\ \A v : From(v)' = From(v) /\ Way(v)' = Way(v)
  BY <1>1, PassFrame
<1>4. NearestSoFar'
  BY <1>1, <1>2, <1>3 DEF CellInv, NearestSoFar, PassKeeps
<1>5. t \notin touched => xx' = last[t]
  <2>1. t \in Targets
    BY <1>1 DEF CellInv, PlanHandoff, PlanTypeOK
  <2>. QED BY <1>1, <2>1, UntouchedWhole
<1>. QED BY <1>1, <1>2, <1>3, <1>4, <1>5 DEF CellInv, PassKeeps

LEMMA CellSeeY ==
  ASSUME PlanHandoff, CellInv, SeeY
  PROVE  CellInv'
<1>1. /\ stage = "see y" /\ stage' = "next" /\ Passing /\ Visiting /\ ~Visiting'
      /\ Passing' /\ PassKeeps
      /\ UNCHANGED <<present, left>>
  BY DEF SeeY, Passing, Visiting, PassKeeps, vars, target, reader, history
<1>2. /\ UnderReport \subseteq touched /\ left \subseteq cell
      /\ NearestSoFar /\ t \in cell \ left /\ (t \notin touched => before[t])
      /\ (t \notin touched => xx = last[t]) /\ Pending = left
      /\ Judged = cell \ (left \union {t})
      /\ \A u \in cell \ touched : present[u] <=> before[u] /\ u \in left
  BY <1>1 DEF CellInv, Pending, Judged
<1>3. /\ cell \subseteq Targets /\ t \in Targets /\ t # None
      /\ nearest \in Int /\ Dist(xx, fov_y[t]) \in Int
      /\ Dist(xx, fov_y[t]) < Farthest
      /\ \A u \in Targets : From(u) \in Int
  <2>1. cell \subseteq Targets /\ t \in Targets /\ t # None /\ nearest \in Int
    BY <1>2, OrderAssumption DEF PlanHandoff, PlanTypeOK
  <2>2. /\ xx \in Records \union {NoRecord}
        /\ fov_y[t] \in Records \union {NoRecord}
    BY <2>1 DEF PlanHandoff, PlanTypeOK, HandoffInv, TypeOK
  <2>. QED BY <2>1, <2>2, DistanceType, FromType
<1>4. Pending' = left /\ Judged' = Judged \union {t} /\ t \notin Judged
  BY <1>1, <1>2 DEF Pending, Judged, PassKeeps
<1>5. t \notin touched => /\ Dist(xx, fov_y[t]) = From(t)
                          /\ <<FovW - XOf[xx], FovH - YOf[fov_y[t]]>> = Way(t)
  <2>1. SUFFICES ASSUME t \notin touched PROVE xx = last[t] /\ fov_y[t] = last[t]
    BY DEF From, Way
  <2>2. t \in Targets \ touched
    BY <1>3, <2>1
  <2>3. fov_y[t] = last[t]
    BY <1>1, <2>2, UntouchedWhole
  <2>. QED BY <1>2, <2>1, <2>3
<1>6. UnderReport' = UnderReport /\ \A v : From(v)' = From(v) /\ Way(v)' = Way(v)
  BY <1>1, PassFrame
<1>7. CASE Nearer(fov_y[t])
  <2>1. /\ focus' = t /\ nearest' = Dist(xx, fov_y[t])
        /\ save' = <<FovW - XOf[xx], FovH - YOf[fov_y[t]]>>
    BY <1>7 DEF SeeY
  <2>2. nearest' < nearest
    BY <1>7, <2>1 DEF Nearer
  <2>3. ASSUME NEW u \in Judged' \ touched, before[u] PROVE nearest' <= From(u)
    <3>1. CASE u = t
      BY <1>3, <1>5, <2>1, <2>3, <3>1
    <3>2. CASE u # t
      <4>1. u \in Judged \ touched /\ u \in Targets
        BY <1>2, <1>3, <1>4, <2>3, <3>2
      <4>2. nearest <= From(u)
        BY <1>2, <2>3, <4>1 DEF NearestSoFar
      <4>. QED BY <1>3, <2>1, <2>2, <4>1, <4>2
    <3>. QED BY <3>1, <3>2
  <2>4. t \in Judged'
    BY <1>4
  <2>5. NearestSoFar'
    BY <1>1, <1>2, <1>3, <1>5, <1>6, <2>1, <2>3, <2>4 DEF NearestSoFar, PassKeeps
  <2>. QED BY <1>1, <1>2, <1>4, <1>6, <2>5 DEF CellInv, PassKeeps
<1>8. CASE ~Nearer(fov_y[t])
  <2>1. UNCHANGED <<focus, nearest, save>>
    BY <1>8 DEF SeeY
  <2>2. nearest <= Dist(xx, fov_y[t])
    BY <1>3, <1>8 DEF Nearer
  <2>3. focus # None
    BY <1>2, <1>3, <2>2 DEF NearestSoFar, Farthest
  <2>4. t \notin touched => nearest <= From(t)
    BY <1>5, <2>2
  <2>5. NearestSoFar'
    BY <1>1, <1>2, <1>4, <1>6, <2>1, <2>3, <2>4 DEF NearestSoFar, PassKeeps
  <2>. QED BY <1>1, <1>2, <1>4, <1>6, <2>5 DEF CellInv, PassKeeps
<1>. QED BY <1>7, <1>8

LEMMA CellAgain ==
  ASSUME PlanHandoff, CellInv, AgainX \/ AgainY
  PROVE  CellInv'
<1>. USE DEF target, reader, history
<1>1. /\ ~Visiting /\ ~Visiting' /\ stage \in {"next", "again y"} /\ Passing
      /\ stage' \in {"again y", "move"} /\ Passing' /\ PassKeeps
      /\ UNCHANGED <<present, left, t, focus, nearest, save>>
  BY DEF AgainX, AgainY, Passing, Visiting, PassKeeps
<1>2. Pending' = Pending /\ Judged' = Judged
  BY <1>1 DEF Pending, Judged, PassKeeps
<1>3. UnderReport' = UnderReport /\ \A v : From(v)' = From(v) /\ Way(v)' = Way(v)
  BY <1>1, PassFrame
<1>4. NearestSoFar'
  BY <1>1, <1>2, <1>3 DEF CellInv, NearestSoFar, PassKeeps
<1>5. /\ current \in Targets /\ focus \in Targets \union {None}
      /\ \A u \in Targets \ touched : fov_x[u] = last[u] /\ fov_y[u] = last[u]
  BY <1>1, UntouchedWhole DEF PlanHandoff, PlanTypeOK
<1>6. CASE AgainX
  <2>1. /\ left = {} /\ current' = (IF focus = None THEN current ELSE focus)
        /\ x_hat' = fov_x[current'] /\ stage' = "again y"
    BY <1>6 DEF AgainX
  <2>2. current' \in Targets
    BY <1>5, <2>1
  <2>. QED BY <1>1, <1>2, <1>3, <1>4, <1>5, <2>1, <2>2 DEF CellInv, PassKeeps
<1>7. CASE AgainY
  <2>1. /\ stage = "again y" /\ stage' = "move" /\ y_hat' = fov_y[current]
        /\ UNCHANGED <<current, x_hat>>
    BY <1>7 DEF AgainY
  <2>. QED BY <1>1, <1>2, <1>3, <1>4, <1>5, <2>1 DEF CellInv, PassKeeps
<1>. QED BY <1>6, <1>7

\* A thread that is not in data_test with a target, before and after its step,
\* leaves that target alone.
LEMMA OthersKeep ==
  ASSUME PlanHandoff, Next, ~Begin, ~Main,
         NEW u \in Targets, u \notin UnderReport
  PROVE  present'[u] = present[u] /\ last'[u] = last[u]
<1>1. CASE \E v \in Targets : Emit(v)
  BY <1>1 DEF Emit, target
<1>2. ASSUME NEW r \in Readers, DataTest(r)
      PROVE  present'[u] = present[u] /\ last'[u] = last[u]
  <2>1. at[r] # "idle" /\ subject[r] # u
    <3>1. at[r] # "idle"
      BY <1>2 DEF DataTest, TestAbsent, TestPresent, WriteX, WriteY,
                  WriteDegrees, WriteRadians, WriteMatch
    <3>2. ReaderOf[subject[r]] = r
      BY <3>1 DEF PlanHandoff, HandoffInv, TypeOK
    <3>. QED BY <3>1, <3>2 DEF UnderReport
  <2>2. present \in [Targets -> BOOLEAN] /\ last \in [Targets -> Records \union {NoRecord}]
    BY DEF PlanHandoff, HandoffInv, TypeOK
  <2>3. CASE TestAbsent(r) \/ TestPresent(r)
    BY <2>1, <2>2, <2>3 DEF TestAbsent, TestPresent, history
  <2>4. CASE WriteMatch(r)
    BY <2>1, <2>2, <2>4 DEF WriteMatch
  <2>5. CASE WriteX(r) \/ WriteY(r) \/ WriteDegrees(r) \/ WriteRadians(r)
    BY <2>5 DEF WriteX, WriteY, WriteDegrees, WriteRadians, history
  <2>. QED BY <1>2, <2>3, <2>4, <2>5 DEF DataTest
<1>. QED BY <1>1, <1>2 DEF Next

LEMMA CellBeside ==
  ASSUME PlanHandoff, CellInv, Beside(Next), Passing
  PROVE  CellInv'
<1>1. /\ UNCHANGED <<stage, cell, current, left, t, focus, xx, nearest, save>>
      /\ touched' = touched \union UnderReport' /\ Next
  BY DEF Beside, plan
<1>2. Passing' = Passing /\ Visiting' = Visiting /\ Pending' = Pending
      /\ Judged' = Judged
  BY <1>1 DEF Passing, Visiting, Pending, Judged
<1>3. ~Begin /\ ~Main
  BY PlanOther DEF PlanHandoff, HandoffInv, Passing, Visiting
<1>4. UNCHANGED <<x_hat, y_hat, before>>
  BY <1>1, <1>3 DEF Next, Emit, DataTest, TestAbsent, TestPresent, WriteX, WriteY,
                    WriteDegrees, WriteRadians, WriteMatch, main, result, history
<1>5. /\ UnderReport \subseteq touched /\ left \subseteq cell /\ cell \subseteq Targets
      /\ Visiting => t \in cell \ left /\ (t \notin touched => before[t])
      /\ \A u \in cell \ touched : present[u] <=> before[u] /\ u \in Pending
      /\ NearestSoFar
      /\ current \in Targets /\ focus \in Targets \union {None}
  BY DEF CellInv, PlanHandoff, PlanTypeOK
<1>6. ASSUME NEW u \in Targets \ touched'
      PROVE  /\ present'[u] = present[u] /\ last'[u] = last[u]
             /\ From(u)' = From(u) /\ Way(u)' = Way(u)
  <2>1. u \in Targets /\ u \notin UnderReport
    BY <1>1, <1>5, <1>6
  <2>2. present'[u] = present[u] /\ last'[u] = last[u]
    BY <1>1, <1>3, <2>1, OthersKeep
  <2>. QED BY <2>2 DEF From, Way
<1>7. NearestSoFar'
  <2>1. Judged \subseteq Targets
    BY <1>5 DEF Judged
  <2>2. focus \notin touched' \union {None} =>
          before'[focus] /\ nearest = From(focus)' /\ save = Way(focus)'
    BY <1>1, <1>4, <1>5, <1>6 DEF NearestSoFar
  <2>3. \A u \in Judged \ touched' :
          before'[u] => focus # None /\ nearest <= From(u)'
    BY <1>1, <1>4, <1>5, <1>6, <2>1 DEF NearestSoFar
  <2>. QED BY <1>1, <1>2, <1>5, <2>2, <2>3 DEF NearestSoFar
<1>8. \A u \in cell \ touched' : present'[u] <=> before'[u] /\ u \in Pending
  BY <1>1, <1>4, <1>5, <1>6
<1>9. Visiting /\ t \notin touched' => before'[t]
  BY <1>1, <1>4, <1>5
<1>10. stage = "see y" /\ t \notin touched' => xx = last'[t]
  <2>1. stage = "see y" => Visiting /\ t \in Targets
    BY <1>5 DEF Visiting
  <2>. QED BY <1>1, <1>6, <2>1 DEF CellInv
<1>11. /\ stage \in {"again y", "move"} =>
            /\ left = {} /\ (focus # None => current = focus)
            /\ current \notin touched' => x_hat' = last'[current]
       /\ stage = "move" /\ current \notin touched' => y_hat' = last'[current]
  BY <1>1, <1>4, <1>5, <1>6 DEF CellInv
<1>. QED BY <1>1, <1>2, <1>5, <1>7, <1>8, <1>9, <1>10, <1>11 DEF CellInv

LEMMA CellNext == PlanHandoff /\ CellInv /\ [PlanNext]_planVars => CellInv'
<1>. SUFFICES ASSUME PlanHandoff, CellInv, [PlanNext]_planVars PROVE CellInv'
  OBVIOUS
<1>1. CASE ToTarget \/ EmptyPass \/ Move \/ Schedule
  <2>1. ~Passing'
    BY <1>1 DEF ToTarget, EmptyPass, Move, Schedule, Passing, Visiting
  <2>. QED BY <2>1 DEF CellInv
<1>2. CASE TestFlag \/ Acquire \/ SeeX \/ SeeY \/ AgainX \/ AgainY
  BY <1>2, CellTestFlag, CellAcquire, CellSeeX, CellSeeY, CellAgain
<1>3. CASE Beside(Next)
  <2>1. CASE Passing
    BY <1>3, <2>1, CellBeside
  <2>2. CASE ~Passing
    <3>1. ~Passing'
      BY <1>3, <2>2 DEF Beside, plan, Passing, Visiting
    <3>. QED BY <3>1 DEF CellInv
  <2>. QED BY <2>1, <2>2
<1>4. CASE UNCHANGED planVars
  BY <1>4 DEF planVars, vars, target, reader, main, result, history, plan, CellInv,
              NearestSoFar, Pending, Judged, From, Way, Passing, Visiting, UnderReport
<1>. QED
  BY <1>1, <1>2, <1>3, <1>4, CellBegin DEF PlanNext, PlanStep

\* Of the targets that no report comes to during a pass of locate_in_cell, whatever
\* comes to the others and in whatever order the cell is taken: the pass acquires
\* all that were in view, overlooks none nearer to (fov_w, fov_h) than its focus, and
\* sends the arm to that corner if its focus is one of them.
THEOREM FocusIsFound == PlanSpec => []FocusIsNearest
<1>1. PlanInit => PlanHandoff /\ CellInv
  BY PlanTypeInit, HandoffInit
     DEF PlanInit, Init, PlanHandoff, CellInv, Passing, Visiting
<1>2. PlanHandoff /\ CellInv => FocusIsNearest
  <2>. SUFFICES ASSUME PlanHandoff, CellInv, stage = "move"
                PROVE  FocusIsNearest
    BY DEF FocusIsNearest
  <2>1. Passing /\ ~Visiting
    BY DEF Passing, Visiting
  <2>2. /\ left = {} /\ Pending = {} /\ Judged = cell /\ NearestSoFar
        /\ focus # None => current = focus
        /\ current \notin touched => x_hat = last[current] /\ y_hat = last[current]
        /\ \A u \in cell \ touched : ~present[u]
    BY <2>1 DEF CellInv, Pending, Judged
  <2>3. cell \subseteq Targets /\ current \in Targets
    BY <2>1 DEF PlanHandoff, PlanTypeOK
  <2>4. /\ XOf[last[current]] \in Int /\ YOf[last[current]] \in Int
        /\ FovW \in Int /\ FovH \in Int
    BY <2>3, FromType, PlannerAssumption
  <2>5. focus \notin touched \union {None} => place = <<FovW, FovH>>
    <3>1. SUFFICES ASSUME focus \notin touched \union {None}
                   PROVE  place = <<FovW, FovH>>
      OBVIOUS
    <3>2. current = focus /\ save = Way(current)
          /\ x_hat = last[current] /\ y_hat = last[current]
      BY <2>2, <3>1 DEF NearestSoFar
    <3>. QED BY <2>4, <3>2 DEF place, Way
  <2>6. focus = None /\ current \notin touched =>
          place = <<XOf[last[current]], YOf[last[current]]>>
    <3>1. SUFFICES ASSUME focus = None, current \notin touched
                   PROVE  place = <<XOf[last[current]], YOf[last[current]]>>
      OBVIOUS
    <3>2. save = <<0, 0>> /\ x_hat = last[current] /\ y_hat = last[current]
      BY <2>2, <3>1 DEF NearestSoFar
    <3>. QED BY <2>4, <3>2 DEF place
  <2>. QED BY <2>2, <2>5, <2>6 DEF NearestSoFar, FocusIsNearest, From
<1>. QED BY <1>1, <1>2, PlanHandoffNext, CellNext, PTL DEF PlanSpec

\* What the handoff promises it promises the planner too.
THEOREM PlannerRecordsWhole == PlanSpec => []WholeBetweenReports
<1>1. PlanInit => PlanHandoff
  BY PlanTypeInit, HandoffInit DEF PlanInit, PlanHandoff
<1>2. PlanHandoff => WholeBetweenReports
  BY DEF PlanHandoff, HandoffInv
<1>. QED BY <1>1, <1>2, PlanHandoffNext, PTL DEF PlanSpec

-----------------------------------------------------------------------------
(* Each report is acquired once *)

\* Between the test of the flag and its assignment the report is still there to
\* be acquired, whatever the target's thread does meanwhile.
OnceInv == AcquiredOnce /\ (stage = "acquire" => ~spent[t])

LEMMA OncePlanStep ==
  ASSUME TypeOK, PlanTypeOK, OnceInv, ToTarget \/ PlanStep
  PROVE  OnceInv'
<1>1. pc = "idle" /\ pc' = "idle"
  BY DEF ToTarget, PlanStep, BeginPass, Pass, EmptyPass, TestFlag, Acquire, SeeX,
         SeeY, AgainX, AgainY, Move, Schedule, vars, main, PlanTypeOK
<1>2. ASSUME UNCHANGED <<present, spent>>, stage' # "acquire" PROVE OnceInv'
  BY <1>1, <1>2 DEF OnceInv, AcquiredOnce
<1>3. CASE TestFlag
  <2>1. UNCHANGED <<present, spent>>
    BY <1>3 DEF TestFlag, vars, target, history
  <2>2. PICK u \in left :
          IF present[u] THEN t' = u /\ stage' = "acquire"
                        ELSE UNCHANGED <<t, stage>>
    BY <1>3 DEF TestFlag
  <2>3. stage' = "acquire" => t' \in Targets /\ present[t']
    BY <1>3, <2>2 DEF TestFlag, PlanTypeOK
  <2>. QED BY <1>1, <2>1, <2>3 DEF OnceInv, AcquiredOnce
<1>4. CASE Acquire
  <2>1. /\ present' = [present EXCEPT ![t] = FALSE]
        /\ spent' = [spent EXCEPT ![t] = TRUE]
        /\ stage' # "acquire"
    BY <1>4 DEF Acquire
  <2>2. \A u \in Targets : present'[u] => ~spent'[u]
    BY <2>1 DEF TypeOK, OnceInv, AcquiredOnce
  <2>. QED BY <1>1, <2>1, <2>2 DEF OnceInv, AcquiredOnce
<1>5. CASE \/ ToTarget \/ BeginPass \/ EmptyPass \/ SeeX \/ SeeY
           \/ AgainX \/ AgainY \/ Move \/ Schedule
  BY <1>2, <1>5
     DEF ToTarget, BeginPass, Pass, EmptyPass, SeeX, SeeY, AgainX, AgainY, Move,
         Schedule, vars, target, history
<1>. QED BY <1>3, <1>4, <1>5 DEF PlanStep

LEMMA OnceNext == PlanHandoff /\ OnceInv /\ [PlanNext]_planVars => OnceInv'
<1>. SUFFICES ASSUME PlanHandoff, OnceInv, [PlanNext]_planVars PROVE OnceInv'
  OBVIOUS
<1>1. TypeOK /\ PlanTypeOK
  BY DEF PlanHandoff, HandoffInv
<1>2. CASE ToTarget \/ PlanStep
  BY <1>1, <1>2, OncePlanStep
<1>3. CASE UNCHANGED planVars
  <2>1. AcquiredOnce'
    BY <1>1, <1>3, AcquiredNext DEF OnceInv, planVars
  <2>. QED BY <1>3, <2>1 DEF OnceInv, planVars, plan, vars, history
<1>4. CASE Beside(Next)
  <2>0. Next /\ UNCHANGED plan
    BY <1>4 DEF Beside
  <2>1. AcquiredOnce'
    BY <1>1, <2>0, AcquiredNext DEF OnceInv
  <2>2. ASSUME stage = "acquire" PROVE ~spent'[t]
    <3>1. ~Begin /\ ~Main /\ t \in Targets /\ ~spent[t]
      BY <1>1, <1>4, <2>2, PlanOther DEF PlanTypeOK, Visiting, OnceInv
    <3>2. CASE \E u \in Targets : Emit(u)
      BY <3>1, <3>2 DEF Emit
    <3>3. ASSUME NEW r \in Readers, DataTest(r) PROVE ~spent'[t]
      <4>1. CASE TestPresent(r)
        BY <1>1, <3>1, <4>1 DEF TestPresent, TypeOK
      <4>2. CASE ~TestPresent(r)
        BY <3>1, <3>3, <4>2
           DEF DataTest, TestAbsent, WriteX, WriteY, WriteDegrees,
               WriteRadians, WriteMatch, history
      <4>. QED BY <4>1, <4>2
    <3>. QED BY <2>0, <3>1, <3>2, <3>3 DEF Next
  <2>. QED BY <2>0, <2>1, <2>2 DEF OnceInv, plan
<1>. QED BY <1>2, <1>3, <1>4 DEF PlanNext

\* The planner's passes, too, acquire each report at most once, whatever the
\* other functions of the main thread acquired before T.
THEOREM PlannerAcquiresOnce == PlanSpec => []AcquiredOnce
<1>1. PlanInit => PlanHandoff /\ OnceInv
  BY PlanTypeInit, HandoffInit
     DEF PlanInit, Init, PlanHandoff, OnceInv, AcquiredOnce
<1>2. OnceInv => AcquiredOnce
  BY DEF OnceInv
<1>. QED BY <1>1, <1>2, PlanHandoffNext, OnceNext, PTL DEF PlanSpec
===============================================================================
