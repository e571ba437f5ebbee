---------------------------- MODULE MCGovReports ----------------------------
(* Small instances of GovReports for TLC *)
EXTENDS GovReports, TLC

CONSTANTS r1, r2, r3, v1, k1, k2
=============================================================================
