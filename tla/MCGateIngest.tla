---------------------------- MODULE MCGateIngest ----------------------------
(* Small instances of GateIngest for TLC *)
EXTENDS GateIngest, TLC

CONSTANTS b1, b2

\* One card may be read twice.
MCKey == {<<1, 1>>, <<2, 1>>, <<2, 2>>}

Symmetry == Permutations(Batch)
=============================================================================
