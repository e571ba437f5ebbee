----------------------------- MODULE MCImports -----------------------------
(* Small instances of Imports for TLC *)
EXTENDS Imports, TLC

CONSTANTS a, b, p1, p2, j1, j2, q1, q2

Symmetry == Permutations(Code) \cup Permutations(Seat) \cup Permutations(Job)
            \cup Permutations(Request)
=============================================================================
