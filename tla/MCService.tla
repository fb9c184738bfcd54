----------------------------- MODULE MCService -----------------------------
(* The instance of MCEngine with snapshots.                                *)
EXTENDS MCEngine, Snapshots
=============================================================================
