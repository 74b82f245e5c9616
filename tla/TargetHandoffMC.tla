--------------------------- MODULE TargetHandoffMC ---------------------------
(* Small instances of TargetHandoff for TLC. *)
EXTENDS TargetHandoff

\* Two sensors with a target each.
MCOrder == <<"mug", "cap">>
MCTwoReaders == [t \in Targets |-> IF t = "mug" THEN "r1" ELSE "r2"]

\* A poor match and a good one; the target begins with none (NoRecord is 0).
MCMatch == [r \in Records \union {NoRecord} |-> 45 * r]
=============================================================================
