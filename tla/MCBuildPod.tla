----------------------------- MODULE MCBuildPod -----------------------------
(* One build over a source with two revisions, the first packed twice.      *)
EXTENDS BuildPod

MCRevision == [t \in {"a1", "a2", "b1"} |-> IF t = "b1" THEN "b" ELSE "a"]
MCKinds    == <<"push", "context">>
=============================================================================
