------------------------------ MODULE MCE1000 ------------------------------
(* Model values for E1000. *)
EXTENDS E1000

CONSTANTS m1, m2, m3, m4, m5, m6, m7
=============================================================================
