----------------------------- MODULE MCGlobalLock -----------------------------
(* Model values and symmetry for checking GlobalLock: two threads share a  *)
(* JVM and one runs alone in another.                                      *)
EXTENDS GlobalLock, TLC

CONSTANTS t1, t2, t3, j1, j2, s1, s2

TwoThreads == {t1, t2}
ThreeThreads == {t1, t2, t3}
HomeOfTwo == t1 :> j1 @@ t2 :> j1
HomeOfThree == HomeOfTwo @@ t3 :> j2

Symmetry == Permutations({s1, s2}) \cup Permutations({t1, t2})
===============================================================================
