---------------------------- MODULE MCCodeGenerator ----------------------------
(* Two schemas that share a table, and windows on both sides of the width  *)
(* and the height at which the layout changes.                             *)
EXTENDS CodeGenerator

CONSTANTS A, B, own, both

MCHas == [s \in {A, B, NoSchema} |->
            CASE s = A -> {own, both} [] s = B -> {both} [] OTHER -> {}]
MCWidths == {767, 768}
MCHeights == {3, 5}
===============================================================================
