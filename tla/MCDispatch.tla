------------------------------ MODULE MCDispatch ------------------------------
(* Model values for checking Dispatch. *)
EXTENDS Dispatch

CONSTANTS m1, m2, p1, p2
===============================================================================
