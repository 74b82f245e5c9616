---------------------------- MODULE ArmGeometryMC ----------------------------
(* Small instances of ArmGeometry for TLC. *)
EXTENDS ArmGeometry

CONSTANT Extent     \* the bound on the coordinates

Norm(p) == {r \in 0..Extent : r * r = p[1] * p[1] + p[2] * p[2]}

\* The points whose distance is an integer: the arm's whole plane, from the
\* shoulder to beyond its reach.
MCPoints ==
  {p \in (-Extent..Extent) \X (-Extent..Extent) : Norm(p) # {}}
MCRadius == [p \in MCPoints |-> CHOOSE r \in Norm(p) : TRUE]
=============================================================================
