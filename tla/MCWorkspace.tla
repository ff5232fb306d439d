----------------------------- MODULE MCWorkspace -----------------------------
(***************************************************************************)
(* Instances of the workspace for TLC.  The cfg files choose the sessions, *)
(* the methods they call and the faults.                                   *)
(***************************************************************************)
EXTENDS WorkspaceProperties, TLC

CONSTANTS d1, d2, e1, e2, c1, c2

AllMethods == Methods
PinningMethods == {"ingest", "extract", "start_review", "save_review",
                   "approve", "assess", "refresh", "pin", "delete"}
Symmetry == Permutations({c1, c2})
=============================================================================
