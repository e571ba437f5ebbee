---------------------------- MODULE MCOfflineSync ----------------------------
(* Small instances of OfflineSync for TLC *)
EXTENDS OfflineSync, TLC

CONSTANTS e1, e2, f1, f2, r1, r2

Symmetry == Permutations(Flush) \cup Permutations(Request) \cup Permutations(Event)
===============================================================================
