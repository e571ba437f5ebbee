------------------------------- MODULE MCCards -------------------------------
(* Small instances of Cards for TLC *)
EXTENDS Cards, TLC

CONSTANTS s1, s2, c1, c2, c3, g1, w1, w2

Symmetry == Permutations(Student) \cup Permutations(Card) \cup Permutations(Worker)
=============================================================================
