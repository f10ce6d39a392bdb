------------------------------ MODULE MCShutdown ------------------------------
(* Model values for checking Shutdown: one worker gets a record. *)
EXTENDS Shutdown, TLC

CONSTANTS w1, w2

OneRecord == w1 :> 1 @@ w2 :> 0
===============================================================================
