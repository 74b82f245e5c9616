---------------------------- MODULE RecordStream ----------------------------
(* What a sensor thread promises: the complete records of its camera reach the
   targets, each once, whole and in the camera's order. *)
EXTENDS Naturals, Sequences, SequencesExt

VARIABLES
  complete,   \* the records the camera has completed
  delivered   \* the records emit_to_target has been called with

vars == <<complete, delivered>>

Init == complete = <<>> /\ delivered = <<>>

Complete ==
  /\ complete' # complete /\ IsPrefix(complete, complete')
  /\ UNCHANGED delivered

Deliver ==
  /\ Len(delivered) < Len(complete)
  /\ delivered' = Append(delivered, complete[Len(delivered) + 1])
  /\ UNCHANGED complete

Next == Complete \/ Deliver
Safety == Init /\ [][Next]_vars
Spec == Safety /\ WF_vars(Deliver)
=============================================================================
