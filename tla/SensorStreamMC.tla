--------------------------- MODULE SensorStreamMC ---------------------------
(* A small instance of SensorStream for TLC. *)
EXTENDS SensorStream
=============================================================================
