----------------------------- MODULE MCSources ------------------------------
(* Two objects, one pinned, over one cache; a source with two revisions,    *)
(* the first of which can be packed twice.                                  *)
EXTENDS LayerCache

MCRevision == [t \in {"a1", "a2", "b1"} |-> IF t = "b1" THEN "b" ELSE "a"]
MCPin      == [o \in {"free", "pinned"} |-> IF o = "pinned" THEN "a" ELSE None]
=============================================================================
