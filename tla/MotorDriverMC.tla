---------------------------- MODULE MotorDriverMC ----------------------------
(* Small instances of MotorDriver for TLC. *)
EXTENDS MotorDriver

\* The macros of parameters.ini, with one parameter line for each run of them.
MCMacro ==
  [d \in Drives |->
     [read_power_up |-> <<"SC">>,
      set_run_parameters |-> <<"SPn", "VE">>,
      read_reset |-> <<"SP">>,
      single_motion_var |-> IF d = 2 THEN <<"ST", "VE", "FP">> ELSE <<"ST", "FP">>,
      scan_jog_action |-> <<"CJ">>,
      stop_motion |-> <<"SJ", "ST">>,
      rotation_query |-> <<"SP">>]]

MCStartSteps == [d \in Drives |-> IF d = 1 THEN 0 ELSE 1]
=============================================================================
