----------------------------- MODULE ArmMotionMC -----------------------------
(* Small instances of ArmMotion for TLC. *)
EXTENDS ArmInvariant

\* The macros of parameters.ini without the lines that only set or ask for
\* parameters; MotorDriverMC has those.
MCMacro ==
  [d \in Drives |->
     [read_power_up |-> <<>>,
      set_run_parameters |-> <<"SPn">>,
      read_reset |-> <<>>,
      single_motion_var |-> <<"ST", "FP">>,
      scan_jog_action |-> <<"CJ">>,
      stop_motion |-> <<"SJ", "ST">>,
      rotation_query |-> <<"SP">>]]

MCStartSteps == [d \in Drives |-> IF d = Base THEN 1 ELSE 0]

\* Motor 1 is geared; far is a place of its own, to which the elbow turns the
\* other way, out is out of range (0 steps).
MCGear == [d \in Drives |-> IF d = Base THEN 2 ELSE 1]
MCPlaces == {"far", "out"}
MCPose ==
  [p \in MCPlaces |-> [d \in Drives |-> CASE p = "out" -> 0
                                          [] d = Base -> 1
                                          [] OTHER -> -1]]

\* SPD goes out to one edge; SPR has two rows of columns 1, 0, -1.
MCSteps == -2..2
MCEdges == <<"far">>
MCNoEdges == <<>>
=============================================================================
