----------------------------- MODULE ArmInvariant -----------------------------
(***************************************************************************)
(* Why the arm is where the console's commands believe it, when answers    *)
(* are prompt: the inductive invariant of ArmMotion.                       *)
(*                                                                         *)
(* It looks two ways.  Of a drive it says what the commands that are still *)
(* in its lists will leave: rest, or a goal.  Of a plan it says that what  *)
(* step k relies on has been brought about by an earlier step, or holds    *)
(* now, and is not undone in between.                                      *)
(***************************************************************************)
EXTENDS ArmMotion

\* What the invariant needs of parameters.ini: the last command of
\* single_motion_var that steers the drive is its feed, stop_motion leaves the
\* drive at rest, and the macros of the start-up do not set a drive in motion.
Stopping == {"ST", "SJ"}
Moving == {"FP", "CJ"}
Steering == Stopping \union Moving \union {"SPn"}

ASSUME MotionMacroAssumption ==
  \A d \in Drives :
    LET run == Macro[d]["single_motion_var"]
        stop == Macro[d]["stop_motion"]
    IN /\ \E i \in DOMAIN run :
            run[i] = "FP" /\ \A j \in i + 1..Len(run) : run[j] \notin Steering
       /\ \E i \in DOMAIN stop :
            stop[i] \in Stopping /\ \A j \in i + 1..Len(stop) : stop[j] \notin Moving
       /\ \A key \in {"read_power_up", "set_run_parameters", "read_reset"} :
            \A i \in DOMAIN Macro[d][key] : Macro[d][key][i] \notin Moving

-----------------------------------------------------------------------------
(* What a list of commands does to a drive that executes it *)

\* It leaves a drive at rest at rest ...
Calm(s) == \A i \in DOMAIN s : s[i].op \notin Moving
\* ... does not change its goal ...
Neutral(s) == \A i \in DOMAIN s : s[i].op \notin Steering
\* ... brings it to rest ...
Stops(s) ==
  \E i \in DOMAIN s : /\ s[i].op \in Stopping
                      /\ \A j \in i + 1..Len(s) : s[j].op \notin Moving
\* ... or sends it to n.
Feeds(s, n) ==
  \E i \in DOMAIN s : /\ s[i].op = "FP" /\ s[i].steps = n
                      /\ \A j \in i + 1..Len(s) : s[j].op \notin Steering

\* The drive is at rest, and what it has not executed yet keeps it there.
Settled(d) == AtRest(d) /\ Calm(todo[d]) /\ Calm(inbox[d])

\* The drive will be at rest when it has executed what is in its lists ...
Resting(d) ==
  \/ Stops(todo[d])
  \/ Calm(todo[d]) /\ Stops(inbox[d])
  \/ Settled(d)

\* ... or on its way to n, or there.
Bound(d, n) ==
  \/ Feeds(todo[d], n)
  \/ Neutral(todo[d]) /\ Feeds(inbox[d], n)
  \/ Neutral(todo[d]) /\ Neutral(inbox[d]) /\ goal[d] = n

\* The drive stands still, and its rotation is or will be the one reported.
Located(d) ==
  /\ AtRest(d) /\ Neutral(todo[d]) /\ Neutral(inbox[d])
  /\ IF call # None /\ call.fn = "current_rotation" /\ call.drive = d
     THEN call.at = pos[d]
     ELSE reported_steps[d] = pos[d]

-----------------------------------------------------------------------------
(* What a plan does *)

Touches(s, d) == s.do = "run" /\ s.drive = d

Moves(s, d) == Touches(s, d) /\ s.key # "stop_motion"

Sends(s, d, n) == Touches(s, d) /\ s.key = "single_motion_var" /\ s.n = n

\* A step that waits for drive d.
Waits(s, d) ==
  \/ s.do = "wait" /\ \E i \in DOMAIN s.drives : s.drives[i] = d
  \/ s.do = "watch" /\ s.drive = d

Stills(s, d) ==
  \/ Waits(s, d)
  \/ Touches(s, d) /\ s.key = "stop_motion"

\* At step k something holds that holds from a step in good on, or now if 0 is
\* in good, and that only a step in bad undoes.
Holds(good, bad, k) ==
  \E j \in good : j < k /\ \A i \in j + 1..k - 1 : i \notin bad

\* When step k of plan p is due drive d will be at rest, ...
Rested(p, d, k) ==
  Holds({i \in 0..Len(p) : IF i = 0 THEN Resting(d) ELSE Stills(p[i], d)},
        {i \in DOMAIN p : Moves(p[i], d)}, k)

\* ... have n as its goal, ...
Placed(p, d, n, k) ==
  Holds({i \in 0..Len(p) : IF i = 0 THEN Bound(d, n) ELSE Sends(p[i], d, n)},
        {i \in DOMAIN p : Touches(p[i], d)}, k)

\* ... have been asked for its rotation after its last motion.
Asked(p, d, k) ==
  Holds({i \in 0..Len(p) : IF i = 0 THEN Located(d) ELSE p[i] = Ask(d)},
        {i \in DOMAIN p : Touches(p[i], d)}, k)

\* Steps that decide what the plan is from there on, or compute with where the
\* arm is, are for an arm at rest; so is the end of a plan.  While one motor is
\* watched or, in a sweep, sent somewhere, the other one is at rest.
Deciding == {"locate", "aim", "cell", "edge", "raster", "fault"}

RestDue(p, d, k) ==
  \/ k = Len(p) + 1
  \/ k \in DOMAIN p /\ p[k].do \in Deciding \union {"note", "ask"}
  \/ k \in DOMAIN p /\ p[k].do = "watch" /\ p[k].drive # d
  \/ k \in DOMAIN p /\ p[k].do = "run" /\ p[k].drive # d /\ p[Len(p)].do = "raster"

\* Where the drive of a joint has to be at a step that relies on it.
Due(s, d) ==
  CASE s.do = "note" -> Gear[d] * steps[d]
    [] s.do = "raster" /\ d = Base -> Gear[Base] * s.at
    [] OTHER -> Gear[Elbow] * RowSteps(s.row, steps[Elbow])

\* What can stand behind what, and which motor is watched.
Shape(p) ==
  /\ \A i \in DOMAIN p : p[i].do = "watch" => p[i].drive = Base
  /\ \A i, k \in DOMAIN p : i < k =>
       /\ p[i].do # "raster"
       /\ p[i].do \in Deciding => p[k].do \in {"aim", "fault"}
       /\ p[i].do = "note" => p[k].do \notin {"note", "raster", "locate"}

-----------------------------------------------------------------------------
(* The parts of the invariant *)

\* Before the first command the drives are described and stay at rest; then
\* every call runs one macro.
DutyInv ==
  /\ command = None =>
       /\ plan = <<>> /\ round = <<>>
       /\ \A d \in Drives : Settled(d)
       /\ call # None =>
            \A i \in DOMAIN call.left : call.left[i] \in {"set_run_parameters", "read_reset"}
  /\ command # None => started = Drives /\ (call # None => call.left = <<>>)

\* The camera is looked at last in a round, and only while a motion is watched;
\* in_motion is FALSE only within a round or at its end.
RoundInv ==
  /\ \A i \in DOMAIN round : round[i] = Camera => i = Len(round) /\ At("watch")
  /\ ~in_motion => At("wait") \/ At("watch")

\* In a round without motion so far each drive that has been asked stands still.
WaitInv ==
  ~in_motion =>
    \A d \in Drives : Waits(Head(plan), d) =>
      \/ \E i \in DOMAIN round : round[i] = d
      \/ call # None /\ call.fn = "check_status" /\ call.drive = d
      \/ Settled(d)

RestInv ==
  \A k \in 1..Len(plan) + 1, d \in Drives : RestDue(plan, d, k) => Rested(plan, d, k)

PlaceInv ==
  \A k \in DOMAIN plan, d \in Drives :
    plan[k].do \in {"note", "raster"} => Placed(plan, d, Due(plan[k], d), k)

AskInv ==
  \A k \in DOMAIN plan, d \in Drives : plan[k].do = "locate" => Asked(plan, d, k)

\* In a sweep one joint at least stands still.
JointInv ==
  plan # <<>> /\ plan[Len(plan)].do = "raster" => Settled(Base) \/ Settled(Elbow)

\* How far HOME has come.
HomeInv ==
  command = "home" =>
    /\ Len(plan) <= 4
    /\ \A i \in DOMAIN plan : plan[i] = HomePlan[4 - Len(plan) + i]
    /\ Len(plan) <= 3 => Bound(Base, 0)
    /\ Len(plan) <= 2 => Settled(Base)
    /\ Len(plan) <= 1 => Bound(Elbow, 0)

PlanInv ==
  /\ DutyInv /\ RoundInv /\ WaitInv /\ Shape(plan)
  /\ RestInv /\ PlaceInv /\ AskInv
  /\ JointInv /\ HomeInv

\* The inductive invariant of the arm with prompt answers: what a plan relies on
\* at each of its steps is brought about before, whatever line and drives do.
MotionInv == ArmTypeOK /\ PromptInv /\ PlanInv
=============================================================================
