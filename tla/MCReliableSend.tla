---------------------------- MODULE MCReliableSend ----------------------------
(* Model values for checking ReliableSend. *)
EXTENDS ReliableSend

CONSTANTS m1, i1

OneMessage == {m1}
OneInstance == {i1}
===============================================================================
