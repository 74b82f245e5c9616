------------------------------- MODULE Planner -------------------------------
(***************************************************************************)
(* T, to_target: the arm wanders from pattern to pattern towards a goal.   *)
(*                                                                         *)
(* The planner keeps a cell, the set of targets it looks for.  Each pass   *)
(* of locate_in_cell acquires the sightings of the cell, goes where the    *)
(* one nearest to (fov_w, fov_h), a corner of its camera's view, should    *)
(* be, and schedule_relative_targets adds the targets that are in view by  *)
(* then.  Both read what the sensor threads of TargetHandoff write,        *)
(* without a lock.  at_goal is false on every path, so the loop does not   *)
(* end.                                                                    *)
(***************************************************************************)
EXTENDS TargetHandoff

CONSTANTS
  Goal,       \* the target with the id "goal"; None when there is none
  FirstTiers, \* which targets may be those of level 1
  XOf, YOf,   \* the place in the view, in pixels, that a record reports
  FovW, FovH  \* fov_w, fov_h: the size of the view

\* How far from mid_x, mid_y, the corner, x of record a and y of record b are; as
\* distances are only compared, the square of it.
Dist(a, b) ==
  (FovW - XOf[a]) * (FovW - XOf[a]) + (FovH - YOf[b]) * (FovH - YOf[b])

\* The distance locate_in_cell begins with, 10000.0, squared.
Farthest == 10000 * 10000

ASSUME PlannerAssumption ==
  /\ Goal \in Targets \union {None}
  /\ FirstTiers \subseteq SUBSET Targets
  /\ XOf \in [Records \union {NoRecord} -> Int]
  /\ YOf \in [Records \union {NoRecord} -> Int]
  /\ FovW \in Nat /\ FovH \in Nat
  /\ \A a, b \in Records \union {NoRecord} : Dist(a, b) < Farthest

VARIABLES
  stage,      \* what to_target does next, or "idle"
  cell,       \* t_set
  current,    \* current_target, or None for NULL
  left,       \* the targets that the loop of locate_in_cell has not come to
  t,          \* the target locate_in_cell is at
  focus,      \* new_focus
  xx,         \* the x of t, as read to compare it
  nearest,    \* distance
  save,       \* save_delta_x, save_delta_y
  touched     \* history: the targets a report came to since the pass began

plan == <<stage, cell, current, left, t, focus, xx, nearest, save>>
planVars == <<vars, plan, touched>>

PlanInit ==
  /\ Init
  /\ stage = "idle" /\ cell = {} /\ current = None
  /\ left = {} /\ t = None /\ focus = None
  /\ xx = NoRecord /\ nearest = Farthest /\ save = <<0, 0>>
  /\ touched = {}

\* The targets a sensor thread is in data_test with.
UnderReport == {u \in Targets : subject[ReaderOf[u]] = u}

\* locate_in_cell is in its loop or behind it.
Visiting == stage \in {"acquire", "see x", "see y"}
Passing == Visiting \/ stage \in {"next", "again y", "move"}

-----------------------------------------------------------------------------
\* to_target, when there is a goal: the cell is the first tier.
ToTarget ==
  /\ mode = "idle" /\ Goal # None
  /\ mode' = "target" /\ stage' = "pass"
  /\ cell' \in FirstTiers /\ current' = None
  /\ UNCHANGED <<target, reader, pc, j, result, history, left, t, focus, xx,
                 nearest, save, touched>>

\* A pass over the targets of T.
Pass(T) ==
  /\ stage = "pass" /\ cell # {}
  /\ stage' = "next" /\ left' = T
  /\ current' = IF current = None THEN Goal ELSE current
  /\ before' = present /\ touched' = UnderReport
  /\ UNCHANGED <<target, reader, main, spent, last, quiet, cell, t, focus, xx,
                 nearest, save>>

\* Mutant of BeginPass: the pass looks at all targets.
BeginPassAll == Pass(Targets)

\* locate_in_cell begins ...
BeginPass == Pass(cell)

\* ... or returns NULL for an empty cell: the arm is sent to where it was sent
\* before, and schedule_relative_targets does nothing for NULL.
EmptyPass ==
  /\ stage = "pass" /\ cell = {}
  /\ current' = None
  /\ UNCHANGED <<vars, stage, cell, left, t, focus, xx, nearest, save, touched>>

\* acquired_target reads the flag of another target of the cell (a set of
\* pointers is in the order of addresses) ...
TestFlag ==
  /\ stage = "next"
  /\ \E u \in left :
       /\ left' = left \ {u}
       /\ IF present[u] THEN t' = u /\ stage' = "acquire" ELSE UNCHANGED <<t, stage>>
  /\ UNCHANGED <<vars, cell, current, focus, xx, nearest, save, touched>>

\* ... and clears it.
Acquire ==
  /\ stage = "acquire"
  /\ present' = [present EXCEPT ![t] = FALSE]
  /\ spent' = [spent EXCEPT ![t] = TRUE]
  /\ stage' = "see x"
  /\ UNCHANGED <<fov_x, fov_y, fov_theta, fov_match, reader, main, last, quiet,
                 before, cell, current, left, t, focus, xx, nearest, save,
                 touched>>

SeeX ==
  /\ stage = "see x"
  /\ xx' = fov_x[t] /\ stage' = "see y"
  /\ UNCHANGED <<vars, cell, current, left, t, focus, nearest, save, touched>>

\* Mutant of Nearer: distance is not kept, so every sighting counts as nearer.
NearerAlways(yy) == TRUE

Nearer(yy) == Dist(xx, yy) < nearest

\* A target nearer to the corner than those before becomes the focus; the way
\* from where it was seen to the corner is saved.
SeeY ==
  /\ stage = "see y"
  /\ LET yy == fov_y[t]
     IN IF Nearer(yy)
        THEN /\ focus' = t /\ nearest' = Dist(xx, yy)
             /\ save' = <<FovW - XOf[xx], FovH - YOf[yy]>>
        ELSE UNCHANGED <<focus, nearest, save>>
  /\ stage' = "next" /\ t' = None /\ xx' = NoRecord
  /\ UNCHANGED <<vars, cell, current, left, touched>>

\* After the loop the position of the focus, or of the target of the pass
\* before, is read again ...
AgainX ==
  /\ stage = "next" /\ left = {}
  /\ current' = IF focus = None THEN current ELSE focus
  /\ x_hat' = fov_x[current'] /\ stage' = "again y"
  /\ UNCHANGED <<target, reader, mode, pc, j, best, percent_match, y_hat, theta,
                 match, history, cell, left, t, focus, xx, nearest, save, touched>>

AgainY ==
  /\ stage = "again y"
  /\ y_hat' = fov_y[current] /\ stage' = "move"
  /\ UNCHANGED <<target, reader, mode, pc, j, best, percent_match, x_hat, theta,
                 match, history, cell, current, left, t, focus, xx, nearest, save,
                 touched>>

\* ... and the way that was saved is added to it: the place in the view that the
\* arm is sent to, before scale_x, scale_y and the travel's offset.
place == <<XOf[x_hat] + save[1], YOf[y_hat] + save[2]>>

\* move_by_command; target_accuracy is satisfied with every place.
Move ==
  /\ stage = "move"
  /\ stage' = "schedule" /\ j' = 1
  /\ focus' = None /\ nearest' = Farthest /\ save' = <<0, 0>>
  /\ x_hat' = NoRecord /\ y_hat' = NoRecord
  /\ before' = [u \in Targets |-> FALSE] /\ touched' = {}
  /\ UNCHANGED <<target, reader, mode, pc, best, percent_match, theta, match,
                 spent, last, quiet, cell, current, left, t, xx>>

\* schedule_relative_targets, in the order of the storage: who is in view joins
\* the cell, and nobody leaves it.
Schedule ==
  /\ stage = "schedule"
  /\ cell' = IF present[Order[j]] THEN cell \union {Order[j]} ELSE cell
  /\ IF LastOne THEN stage' = "pass" /\ j' = 1 ELSE stage' = stage /\ j' = j + 1
  /\ UNCHANGED <<target, reader, mode, pc, result, history, current, left, t,
                 focus, xx, nearest, save, touched>>

PlanStep ==
  \/ BeginPass \/ EmptyPass \/ TestFlag \/ Acquire
  \/ SeeX \/ SeeY \/ AgainX \/ AgainY
  \/ Move \/ Schedule

\* A step of TargetHandoff: the planner stays where it is, and a report that
\* comes during a pass is noted.
Beside(A) ==
  /\ A /\ UNCHANGED plan
  /\ touched' = IF Passing THEN touched \union UnderReport' ELSE touched

PlanNext == ToTarget \/ PlanStep \/ Beside(Next)

PlanSpec == PlanInit /\ [][PlanNext]_planVars

\* The threads run and the cameras report, as in TargetHandoff.
PlanFairSpec ==
  /\ PlanSpec
  /\ WF_planVars(PlanStep)
  /\ WF_planVars(Beside(Main))
  /\ \A r \in Readers : WF_planVars(Beside(DataTest(r)))
  /\ \A u \in Targets : SF_planVars(Beside(Emit(u)))

-----------------------------------------------------------------------------
(* Properties *)

\* What a pass of locate_in_cell makes of the targets that no report comes to
\* while it lasts, whatever comes to the others: it has acquired every sighting of
\* them and overlooked none that was nearer to (fov_w, fov_h) than its focus; if
\* its focus is one of them, it was in view and the arm is sent to that corner,
\* whatever the report said.  ("x_hat,y_hat is now at the center of the pattern",
\* says arm_2d.cpp:807; the centre of the view is at half of fov_w, fov_h.)  A pass
\* that has seen nothing goes where its target was last seen.
FocusIsNearest ==
  LET Seen(u) == Dist(last[u], last[u])
  IN stage = "move" =>
       /\ focus # None => current = focus /\ focus \in cell
       /\ \A u \in cell \ touched :
            ~present[u] /\ (before[u] => focus # None /\ nearest <= Seen(u))
       /\ focus \notin touched \union {None} =>
            /\ before[focus] /\ nearest = Seen(focus)
            /\ place = <<FovW, FovH>>
       /\ focus = None /\ current \notin touched =>
            place = <<XOf[last[current]], YOf[last[current]]>>

\* While all patterns stay in view the planner comes to look for all of them,
\* although it never looks at a flag at the moment it is set: a sighting of a
\* target outside the cell is not consumed before schedule_relative_targets
\* finds it.  (With no target of level 1 the cell stays empty.)
CellFills == mode = "target" /\ cell # {} ~> cell = Targets
=============================================================================
