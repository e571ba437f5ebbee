----------------------------- MODULE MCRegister -----------------------------
(* Small instances of Register for TLC *)
EXTENDS Register, TLC

CONSTANTS s1, s2, r1, r2, d1, d2
=============================================================================
