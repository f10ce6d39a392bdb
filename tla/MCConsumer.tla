------------------------------ MODULE MCConsumer ------------------------------
(* Model values and symmetry for checking Consumer. *)
EXTENDS Consumer, TLC

CONSTANTS m1, m2, bad, c1, c2

OneMessage == {m1}
TwoMessages == {m1, m2}
SomeBroken == {m1, bad}
OneConsumer == {c1}
TwoConsumers == {c1, c2}

Symmetry == Permutations(Message \ Broken) \cup Permutations(Consumer)
===============================================================================
