-------------------------------- MODULE Dispatch --------------------------------
(***************************************************************************)
(* A message from its creation to its producer: the thread of a client     *)
(* that has made an id sends the message to the service, which may be      *)
(* about to stop.                                                          *)
(***************************************************************************)
EXTENDS MessageId, Producers

ASSUME DispatchConstantsOK == Request = Message

dispatchVars == <<idVars, producersVars>>

TypeOK == IdTypeOK /\ ProducersTypeOK

Init == IdInit /\ ProducersInit

Client == (Tick \/ \E m \in Message : GeneratorId(m)) /\ UNCHANGED producersVars

Service ==
    /\ hook # "halted"
    /\ ServiceStep \/ \E r \in Request : at[r] = "made" /\ RequestThread(r)
    /\ UNCHANGED idVars

Next == Client \/ Service \/ (hook = "halted" /\ UNCHANGED dispatchVars)

(* Threads that can go on do, and a producer completes its records, at the *)
(* latest when their time limit has passed.                                *)
Fairness ==
    /\ \A m \in Message : WF_dispatchVars(GeneratorId(m) /\ UNCHANGED producersVars)
    /\ \A r \in Request :
          WF_dispatchVars(hook # "halted" /\ at[r] = "made" /\ RequestThread(r) /\ UNCHANGED idVars)
    /\ \A r \in Request, p \in Producer :
          WF_dispatchVars(hook # "halted" /\ Complete(p, r) /\ UNCHANGED idVars)
    /\ WF_dispatchVars(hook # "halted" /\ HookThread /\ UNCHANGED idVars)

Spec == Init /\ [][Next]_dispatchVars /\ Fairness

-------------------------------------------------------------------------------
(* A service that was told to stop does, however the requests that are     *)
(* still under way meet its producers.                                     *)
Stops == hook = "next" ~> hook = "halted"

(* Every message that is created gets an answer, unless the service is     *)
(* gone by then.                                                           *)
Answered == \A m \in Message : at[m] = "look" ~> call[m] \in {"ok", "error"} \/ hook = "halted"
===============================================================================
