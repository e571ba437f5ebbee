------------------------------ MODULE MCCalendar ------------------------------
(* Small instances of Calendar for TLC *)
EXTENDS Calendar, TLC

CONSTANTS r1, r2

Symmetry == Permutations(Request)
===============================================================================
