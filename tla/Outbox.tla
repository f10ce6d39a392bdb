-------------------------------- MODULE Outbox --------------------------------
(***************************************************************************)
(* What the producer side promises.  A message the process log has owed    *)
(* for once stays owed until the broker holds it or the dead letter log    *)
(* does: an owed message is never simply forgotten.  Nothing here says how *)
(* often a message is sent: delivery is at least once.                     *)
(***************************************************************************)
CONSTANT Message

VARIABLES owed,       \* messages some log still tracks
          delivered,  \* messages the broker holds
          dead        \* messages handed to the dead letter log

vars == <<owed, delivered, dead>>

Init == owed = {} /\ delivered = {} /\ dead = {}

(* A message is owed from the moment its row is written; a callback or a   *)
(* compensation that lost a race may write the row again.                  *)
Accept(m) == owed' = owed \cup {m} /\ UNCHANGED <<delivered, dead>>

(* A crash may leave several of the records in flight with the broker.     *)
Deliver(S) == delivered' = delivered \cup S /\ UNCHANGED <<owed, dead>>

Bury(m) == dead' = dead \cup {m} /\ UNCHANGED <<owed, delivered>>

Settle(m) ==
    /\ m \in delivered \cup dead
    /\ owed' = owed \ {m}
    /\ UNCHANGED <<delivered, dead>>

Next ==
    \/ \E m \in Message : Accept(m) \/ Bury(m) \/ Settle(m)
    \/ \E S \in SUBSET Message : Deliver(S)

Spec == Init /\ [][Next]_vars
===============================================================================
