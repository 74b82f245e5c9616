------------------------------ MODULE PlannerMC ------------------------------
(* Small instances of Planner for TLC. *)
EXTENDS Planner

\* One camera that reports the goal and a target of level 1.
MCOrder == <<"goal", "alpha">>
MCOneReader == [u \in Targets |-> "camera"]

\* A view of 4 by 4.  Record 1 is its centre; record 2 is nearer to the corner
\* that distances are measured to; x of one and y of the other lie between.
MCMatch == [r \in Records \union {NoRecord} |-> 90 * (r \div 2)]
MCX == [r \in Records \union {NoRecord} |-> 2 * r]
MCY == [r \in Records \union {NoRecord} |-> IF r = 0 THEN 0 ELSE r + 1]

\* Bound: of the main thread's other functions only the waits of move_to_pattern
\* (handoff_race has the rest).
WaitsAndPlans == mode \in {"idle", "pattern", "target"}
=============================================================================
