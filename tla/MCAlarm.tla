------------------------------ MODULE MCAlarm ------------------------------
(* Model values for Alarm. *)
EXTENDS Alarm

Values == {-1, 0}
=============================================================================
