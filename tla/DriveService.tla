---------------------------- MODULE DriveService ----------------------------
(***************************************************************************)
(* What check_status and current_rotation promise their callers: the drive *)
(* that was asked answers once, at one moment between call and return, and *)
(* what it says is true of it at that moment.  The other methods steer the *)
(* drive they are called for and no other.                                 *)
(***************************************************************************)
EXTENDS Integers

CONSTANTS Drives, None

VARIABLES
  pos, goal,    \* of each drive; None is the goal of one that is jogging
  call,         \* the method in progress and its drive, or None
  answer        \* what the drive has answered, or None

vars == <<pos, goal, call, answer>>

Queries == {"check_status", "current_rotation"}
Methods == Queries \cup {"process_parameters", "run_action"}

\* A status is 1 for a drive at rest; a rotation is a position.
True(fn, d) ==
  IF fn = "current_rotation" THEN pos[d] ELSE IF goal[d] = pos[d] THEN 1 ELSE 0

Init ==
  /\ pos = [d \in Drives |-> 0] /\ goal = [d \in Drives |-> 0]
  /\ call = None /\ answer = None

Ask(fn, d) ==
  /\ call = None
  /\ call' = [fn |-> fn, drive |-> d]
  /\ UNCHANGED <<pos, goal, answer>>

Serve ==
  /\ call # None /\ call.fn \in Queries
  /\ answer = None
  /\ answer' = True(call.fn, call.drive)
  /\ UNCHANGED <<pos, goal, call>>

Steer ==
  /\ call # None /\ call.fn \notin Queries
  /\ \A d \in Drives \ {call.drive} : pos'[d] = pos[d] /\ goal'[d] = goal[d]
  /\ UNCHANGED <<call, answer>>

\* A drive that is not at rest takes a step towards its goal.
Move(d) ==
  /\ goal[d] # pos[d]
  /\ pos' = [pos EXCEPT ![d] =
               IF goal[d] = None \/ goal[d] > @ THEN @ + 1 ELSE @ - 1]
  /\ UNCHANGED <<goal, call, answer>>

\* A query has been answered when it returns.
Return ==
  /\ call # None
  /\ call.fn \in Queries => answer # None
  /\ call' = None /\ answer' = None
  /\ UNCHANGED <<pos, goal>>

Next ==
  \/ \E d \in Drives : Move(d) \/ \E fn \in Methods : Ask(fn, d)
  \/ Serve \/ Steer \/ Return

Spec == Init /\ [][Next]_vars
=============================================================================
