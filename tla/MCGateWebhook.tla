---------------------------- MODULE MCGateWebhook ----------------------------
(* Small instances of GateWebhook for TLC *)
EXTENDS GateWebhook, TLC

CONSTANTS s1, r1, g1, g2

Symmetry == Permutations(Delivery)
=============================================================================
