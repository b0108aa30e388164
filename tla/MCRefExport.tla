---------------------------- MODULE MCRefExport ----------------------------
(* An object of either kind, its own namespace, one that exports may go to  *)
(* and one they may not.                                                    *)
EXTENDS RefExport
=============================================================================
