----------------------------- MODULE MCAbsenceSms -----------------------------
(* Small instances of AbsenceSms for TLC *)
EXTENDS AbsenceSms, TLC

CONSTANTS s1, s2, w1, w2

Symmetry == Permutations(Worker)
===============================================================================
