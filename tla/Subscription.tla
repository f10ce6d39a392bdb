----------------------------- MODULE Subscription -----------------------------
(***************************************************************************)
(* What the consumer side promises a group on one partition: the places an *)
(* offset is resumed from may move, also backwards, but never to an offset *)
(* that has an unreached record below it.  A record is reached when the    *)
(* business handler was given it, and also when the group started beyond   *)
(* it.                                                                     *)
(***************************************************************************)
EXTENDS Naturals

VARIABLES length,   \* records in the partition
          reached,  \* records, numbered from 1, that need no further handling
          resume    \* offsets a consumer of the group may be resumed from

Covered(n) == 1..n \subseteq reached

Init == length = 0 /\ reached = {} /\ resume = {}

Append == length' = length + 1 /\ reached \subseteq reached' /\ UNCHANGED resume

Reach == length' = length /\ reached \subseteq reached' /\ UNCHANGED resume

Store == \E n \in 0..length :
    /\ Covered(n)
    /\ resume' \subseteq resume \cup {n}
    /\ UNCHANGED <<length, reached>>

Next == Append \/ Reach \/ Store

Spec == Init /\ [][Next]_<<length, reached, resume>>
===============================================================================
