------------------------------ MODULE RefExport ------------------------------
(***************************************************************************)
(* push.writeRefTo: the ConfigMap in which one object, of either kind,     *)
(* publishes its reference, from the first write until the object is gone. *)
(* Its name is derived from the object, so there is one cell per namespace.*)
(* status.refExport is the only record of the namespace it was written to. *)
(*                                                                         *)
(* The two controllers differ: an ImageComposition always has a finalizer  *)
(* and patches the record when the ConfigMap is written; an ImageBuild has *)
(* a finalizer while its export is foreign, and carries the record to the  *)
(* one status patch that ends the pass.                                    *)
(***************************************************************************)
EXTENDS Naturals, FiniteSets

CONSTANTS
  Own,          \* the object's own namespace
  Foreign,      \* the other namespaces
  Permitted,    \* those of them in --ref-export-namespaces
  None,         \* no namespace
  Kinds,        \* the kinds of object explored
  MaxDigests, MaxUids, MaxDisturbances  \* bounds

Namespaces == Foreign \cup {Own}

ASSUME NamespaceAssumption ==
  Own \notin Foreign /\ None \notin Namespaces /\ Permitted \subseteq Foreign
ASSUME KindAssumption  == Kinds \subseteq {"ImageBuild", "ImageComposition"}
ASSUME BoundAssumption ==
  MaxDigests \in Nat \ {0} /\ MaxUids \in Nat \ {0} /\ MaxDisturbances \in Nat

VARIABLES
  kind, uid,    \* the object: its kind, its incarnation
  life,         \* "live", "deleting" or "gone"
  finalizer,
  target,       \* spec.push.writeRefTo.namespace
  record,       \* status.refExport
  artifact,     \* status.artifact: the number of its digest, 0 before the first
  cm,           \* the ConfigMap of the derived name in each namespace
  pc, at,       \* the pass: its next call; the object in its memory
  due,          \* queued, or to be queued by a timer
  lost,         \* namespaces written to by a pass that died before the record,
                \* or by an incarnation that is gone
  disturbed     \* model only: how many disturbances have happened

object == <<kind, uid, life, finalizer, target, record, artifact>>
vars == <<object, cm, pc, at, due, lost, disturbed>>

IsBuild == kind = "ImageBuild"
Targets == Namespaces \cup {None}

(* of: whose labels it carries. owner: the incarnation that owns it, or 0.  *)
ConfigMap == [of : {"nobody", "self", "other"}, digest : 0..MaxDigests, owner : 0..MaxUids]
Absent    == [of |-> "nobody", digest |-> 0, owner |-> 0]
Stranger  == [of |-> "other", digest |-> 0, owner |-> 0]

Steps == {"idle", "drop", "finalizer", "publish", "read", "write", "record",
          "replace", "end", "reclaim", "release", "delete"}
Removals == {"drop", "replace", "reclaim"}

Memory == [target : Targets, record : Targets, artifact : 0..MaxDigests,
           written : Targets, read : ConfigMap, next : Steps]

TypeOK ==
  /\ kind \in Kinds /\ uid \in 1..MaxUids
  /\ life \in {"live", "deleting", "gone"} /\ finalizer \in BOOLEAN
  /\ target \in Targets /\ record \in Targets /\ artifact \in 0..MaxDigests
  /\ cm \in [Namespaces -> ConfigMap]
  /\ pc \in Steps /\ at \in Memory
  /\ due \in BOOLEAN /\ lost \subseteq Namespaces
  /\ disturbed \in 0..MaxDisturbances

Nothing == [target |-> None, record |-> None, artifact |-> 0, written |-> None,
            read |-> Absent, next |-> "idle"]

Init ==
  /\ kind \in Kinds /\ uid = 1
  /\ life = "live" /\ finalizer = FALSE
  /\ target \in Targets /\ record = None /\ artifact = 0
  /\ cm \in {[n \in Namespaces |-> Absent], [n \in Namespaces |-> Stranger]}
  /\ pc = "idle" /\ at = Nothing
  /\ due = TRUE /\ lost = {}
  /\ disturbed = 0

Disturb == disturbed < MaxDisturbances /\ disturbed' = disturbed + 1
Quiet   == UNCHANGED disturbed

-----------------------------------------------------------------------------
(* A pass. An error that is retried ends it in Retry.                       *)

Goto(step) == pc' = step
InPass(step) == pc = step /\ Quiet /\ UNCHANGED <<kind, uid, life, target, lost>>

Begin ==
  /\ InPass("idle") /\ due /\ life # "gone"
  /\ due' = FALSE
  /\ at' = [Nothing EXCEPT !.target = target, !.record = record, !.artifact = artifact]
  /\ Goto(CASE life = "deleting" /\ finalizer -> "reclaim"
            [] life = "deleting" /\ ~finalizer -> "idle"
            [] life = "live" /\ IsBuild /\ target = None /\ record # None -> "drop"
            [] OTHER -> "finalizer")
  /\ UNCHANGED <<finalizer, record, artifact, cm>>

(* DeleteExportedRef reads what status recorded, and deletes it if it       *)
(* carries this object's labels: drop, because the export is no longer      *)
(* asked for; replace, because it was written elsewhere; reclaim, because   *)
(* the object is being deleted.                                             *)
FindExported ==
  /\ pc \in Removals /\ InPass(pc)
  /\ at' = [at EXCEPT !.read = IF at.record = None THEN Absent ELSE cm[at.record],
                      !.next = CASE pc = "drop"    -> "finalizer"
                                 [] pc = "replace" -> "end"
                                 [] pc = "reclaim" -> "release"]
  /\ Goto("delete")
  /\ UNCHANGED <<finalizer, record, artifact, cm, due>>

DeleteExported ==
  /\ InPass("delete")
  /\ cm' = IF at.read.of = "self" THEN [cm EXCEPT ![at.record] = Absent] ELSE cm
  /\ at' = [at EXCEPT !.record = at.written, !.read = Absent]
  /\ Goto(at.next)
  /\ UNCHANGED <<finalizer, record, artifact, due>>

(* Mutant: the composer too keeps a finalizer only while its export is foreign. *)
FinalizerWhileForeign ==
  /\ InPass("finalizer")
  /\ finalizer' = (at.target \in Foreign)
  /\ life = "gone" => finalizer' = finalizer
  /\ at' = IF finalizer' = finalizer THEN at
           ELSE [at EXCEPT !.record = record, !.artifact = artifact, !.target = target]
  /\ Goto("publish")
  /\ UNCHANGED <<record, artifact, cm, due>>

(* A patch of the finalizer answers with the object as the server has it,   *)
(* and so undoes what the pass changed in memory.                           *)
Finalizer ==
  /\ InPass("finalizer")
  /\ finalizer' = IF IsBuild THEN at.target \in Foreign ELSE TRUE
  /\ life = "gone" => finalizer' = finalizer
  /\ at' = IF finalizer' = finalizer THEN at
           ELSE [at EXCEPT !.record = record, !.artifact = artifact, !.target = target]
  /\ Goto("publish")
  /\ UNCHANGED <<record, artifact, cm, due>>

(* exportRef, of each kind. An export that is no longer asked for a build   *)
(* has dropped by now; a composition drops it here.                         *)
BuildExports == IF at.target # None THEN "read" ELSE "end"
CompositionExports ==
  CASE at.target # None                      -> "read"
    [] at.target = None /\ at.record # None -> "record"
    [] OTHER                                 -> "end"

(* Mutant: the composer exports what its status will say.                   *)
PublishUnrecorded ==
  /\ InPass("publish")
  /\ \E d \in {at.artifact, at.artifact + 1} \cap (1..MaxDigests) :
       at' = [at EXCEPT !.artifact = d]
  /\ Goto(IF IsBuild THEN BuildExports ELSE CompositionExports)
  /\ UNCHANGED <<finalizer, record, artifact, cm, due>>

(* The rest of the pass: converged, or something new is published. The      *)
(* composer's status says so before the export, the builder's afterwards.   *)
Publish ==
  /\ InPass("publish")
  /\ \E d \in {at.artifact, at.artifact + 1} \cap (1..MaxDigests) :
       /\ at' = [at EXCEPT !.artifact = d]
       /\ artifact' = IF IsBuild \/ life = "gone" THEN artifact ELSE d
  /\ Goto(IF IsBuild THEN BuildExports ELSE CompositionExports)
  /\ UNCHANGED <<finalizer, record, cm, due>>

(* Pending, or a build in flight: nothing is exported.                      *)
Wait ==
  /\ InPass("publish")
  /\ Goto("end")
  /\ UNCHANGED <<finalizer, record, artifact, cm, at, due>>

(* ExportRef reads. A namespace that is not permitted and a ConfigMap that  *)
(* is not this object's are Terminal: the object stalls, and is not due.    *)
Refused(n) == n \notin Permitted \cup {Own} \/ cm[n].of = "other"

Read ==
  /\ InPass("read")
  /\ ~Refused(at.target)
  /\ at' = [at EXCEPT !.read = cm[at.target]]
  /\ Goto("write")
  /\ UNCHANGED <<finalizer, record, artifact, cm, due>>

Stall ==
  /\ InPass("read")
  /\ Refused(at.target)
  /\ record' = IF IsBuild /\ life # "gone" THEN at.record ELSE record
  /\ artifact' = IF IsBuild /\ life # "gone" THEN at.artifact ELSE artifact
  /\ at' = Nothing
  /\ Goto("idle")
  /\ UNCHANGED <<finalizer, cm, due>>

(* Mutant: the write carries no resourceVersion.                            *)
WriteBlind ==
  /\ InPass("write")
  /\ cm' = [cm EXCEPT ![at.target] = [of |-> "self", digest |-> at.artifact, owner |-> 0]]
  /\ at' = [at EXCEPT !.written = at.target]
  /\ Goto("record")
  /\ UNCHANGED <<finalizer, record, artifact, due>>

(* Create, owned when it is the object's namespace, or Update. Either is    *)
(* refused when the ConfigMap is no longer what was read.                   *)
Write ==
  /\ InPass("write")
  /\ cm[at.target] = at.read
  /\ cm' = [cm EXCEPT ![at.target] =
              [of |-> "self", digest |-> at.artifact,
               owner |-> IF at.read # Absent THEN at.read.owner
                         ELSE IF at.target = Own THEN uid ELSE 0]]
  /\ at' = [at EXCEPT !.written = at.target]
  /\ Goto("record")
  /\ UNCHANGED <<finalizer, record, artifact, due>>

(* RecordExport: the previous one is removed if it is another.              *)
Record ==
  /\ InPass("record")
  /\ Goto(IF at.record = at.written THEN "end" ELSE "replace")
  /\ UNCHANGED <<finalizer, record, artifact, cm, at, due>>

(* The patch that ends the pass; the object is due again in an interval.    *)
End ==
  /\ pc = "end" /\ Quiet
  /\ record' = IF life = "gone" THEN record ELSE at.record
  /\ artifact' = IF life # "gone" /\ IsBuild THEN at.artifact ELSE artifact
  /\ lost' = lost \ {record'}
  /\ at' = Nothing
  /\ due' = TRUE
  /\ Goto("idle")
  /\ UNCHANGED <<kind, uid, life, target, finalizer, cm>>

(* finalize: what status records was deleted, now the finalizer goes.       *)
Release ==
  /\ pc = "release" /\ Quiet
  /\ finalizer' = FALSE /\ life' = "gone"
  /\ at' = Nothing
  /\ Goto("idle")
  /\ UNCHANGED <<kind, uid, target, record, artifact, cm, due, lost>>

Pass ==
  \/ Begin \/ FindExported \/ DeleteExported \/ Finalizer \/ Publish \/ Wait
  \/ Read \/ Stall \/ Write \/ Record \/ End \/ Release

-----------------------------------------------------------------------------
(* Faults. Written is where the pass has written and not recorded it.       *)

Written == IF at.written \in Namespaces /\ record # at.written THEN {at.written} ELSE {}

(* Mutant: what the registry or the API server refused is not asked again.   *)
RetryNever ==
  /\ lost' = lost \cup Written
  /\ Goto("idle") /\ at' = Nothing
  /\ UNCHANGED <<object, cm, due>>

(* The builder's final patch still carries what the pass had in memory.     *)
Retry ==
  /\ due' = TRUE
  /\ lost' = lost \cup Written
  /\ IF IsBuild /\ "release" \notin {pc, at.next} /\ pc # "reclaim"
     THEN Goto("end") /\ UNCHANGED at
     ELSE Goto("idle") /\ at' = Nothing
  /\ UNCHANGED <<object, cm>>

RequestFails == pc \notin {"idle", "end", "record"} /\ Disturb /\ Retry

(* The ConfigMap is no longer the one that was read, or the object is gone. *)
Conflict ==
  /\ \/ pc = "write" /\ cm[at.target] # at.read
     \/ pc = "finalizer" /\ life = "gone" /\ finalizer # (~IsBuild \/ at.target \in Foreign)
  /\ Quiet /\ Retry

(* The process ends, or the final patch fails: what was in memory is gone.  *)
Crash ==
  /\ pc # "idle" /\ Disturb
  /\ Goto("idle") /\ at' = Nothing /\ lost' = lost \cup Written
  /\ due' = TRUE
  /\ UNCHANGED <<object, cm>>

-----------------------------------------------------------------------------
(* The user and the cluster.                                                *)

Outside == UNCHANGED <<kind, record, artifact, pc, at, lost>>

EditTarget(t) ==
  /\ life = "live" /\ t # target /\ Disturb
  /\ target' = t
  /\ due' = TRUE
  /\ Outside /\ UNCHANGED <<uid, life, finalizer, cm>>

DeleteObject ==
  /\ life = "live" /\ Disturb
  /\ life' = IF finalizer THEN "deleting" ELSE "gone"
  /\ due' = TRUE
  /\ Outside /\ UNCHANGED <<uid, finalizer, target, cm>>

(* The same name again: a new object, which owns nothing the old one owned. *)
Recreate(t) ==
  /\ life = "gone" /\ pc = "idle" /\ uid < MaxUids /\ Disturb
  /\ uid' = uid + 1 /\ life' = "live" /\ target' = t
  /\ record' = None /\ artifact' = 0 /\ due' = TRUE
  /\ lost' = {n \in Foreign : cm[n].of = "self"}
  /\ UNCHANGED <<kind, finalizer, cm, pc, at>>

(* Someone deletes the ConfigMap, or puts one of their own in its place.    *)
Meddle(n) ==
  /\ \/ cm[n].of = "self" /\ cm' = [cm EXCEPT ![n] = Absent]
     \/ cm[n].of = "nobody" /\ cm' = [cm EXCEPT ![n] = Stranger]
  /\ Disturb
  /\ Outside /\ UNCHANGED <<uid, life, finalizer, target, due>>

(* The collector takes what an owner that is gone owned.                    *)
Collect ==
  /\ cm[Own].owner # 0 /\ (cm[Own].owner # uid \/ life = "gone")
  /\ cm' = [cm EXCEPT ![Own] = Absent]
  /\ Outside /\ Quiet /\ UNCHANGED <<uid, life, finalizer, target, due>>

World ==
  \/ \E t \in Targets : EditTarget(t) \/ Recreate(t)
  \/ DeleteObject \/ Collect
  \/ \E n \in Namespaces : Meddle(n)

Next == Pass \/ Conflict \/ RequestFails \/ Crash \/ World

Fairness == WF_vars(Pass \/ Conflict) /\ SF_vars(Publish) /\ WF_vars(Collect)

Spec == Init /\ [][Next]_vars /\ Fairness

-----------------------------------------------------------------------------
(* Properties                                                               *)

Ours(n) == cm[n].of = "self"

(* ADR 0056: a ConfigMap that was not written for this object is never      *)
(* overwritten, also when someone puts it there between the read and the    *)
(* write.                                                                   *)
NeverOverwrites == [][\A n \in Namespaces : cm[n].of = "other" => ~Ours(n)']_vars

(* "after the status write, so what is exported is exactly what status      *)
(* reports": no failure or crash lets an ImageComposition export a          *)
(* reference that its status does not claim or has claimed.                 *)
NeverAheadOfStatus ==
  kind = "ImageComposition" /\ life # "gone"
    => \A n \in Foreign : Ours(n) /\ n \notin lost => cm[n].digest <= artifact

(* DeleteExportedRef: a foreign export, which nothing collects, does not    *)
(* outlive an ImageComposition however its spec moved, unless a pass died   *)
(* between writing it and recording it.                                     *)
NoOrphan ==
  kind = "ImageComposition" /\ life = "gone" =>
    \A n \in Foreign : Ours(n) => n \in lost

(* RecordExport, ADR 0056: once the spec is left alone the reference        *)
(* status claims is in the namespace the spec names, and nowhere else,      *)
(* unless the object stalled on a ConfigMap or namespace it may not write.  *)
Exported ==
  /\ target # None => Ours(target) /\ cm[target].digest = artifact
  /\ \A n \in Namespaces \ {target} : Ours(n) => n \in lost

ExportFollows ==
  <>[](life # "live" \/ (target # None /\ Refused(target)))
    \/ []<>(Exported)
=============================================================================
