-------------------------------- MODULE Lease --------------------------------
(***************************************************************************)
(* What a lock with a time to live promises the processes that share it.   *)
(* The server has granted each key to one process at most; a process is    *)
(* inside while it thinks, rightly, that the key is its own.  A key is     *)
(* taken back only by the process it was granted to or by time, and time   *)
(* puts the process outside.  So a process inside always has its key: it   *)
(* loses it neither to another one that gives up waiting or lets go late,  *)
(* nor to one that crashes.  A process may fail to learn that it was       *)
(* granted a key, and then only time frees it.                             *)
(***************************************************************************)
CONSTANTS Process, Key

VARIABLES granted,  \* what the server has: pairs of a process and a key
          inside    \* what the processes rely on

vars == <<granted, inside>>

Init == granted = {} /\ inside = {}

Free(k) == \A p \in Process : <<p, k>> \notin granted

Grant(p, k) ==
    /\ Free(k)
    /\ granted' = granted \cup {<<p, k>>}
    /\ inside' \in {inside, inside \cup {<<p, k>>}}

Leave(p, k) ==
    /\ granted' \in {granted, granted \ {<<p, k>>}}
    /\ inside' = inside \ {<<p, k>>}

Expire(K) ==
    /\ granted' = {x \in granted : x[2] \notin K}
    /\ inside' = {x \in inside : x[2] \notin K}

Crash(P) ==
    /\ inside' = {x \in inside : x[1] \notin P}
    /\ UNCHANGED granted

Next ==
    \/ \E p \in Process, k \in Key : Leave(p, k) \/ Grant(p, k)
    \/ \E K \in SUBSET Key : Expire(K)
    \/ \E P \in SUBSET Process : Crash(P)

Spec == Init /\ [][Next]_vars
===============================================================================
