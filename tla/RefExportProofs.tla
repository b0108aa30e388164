-------------------------- MODULE RefExportProofs --------------------------
(***************************************************************************)
(* What RefExport.tla promises for every set of namespaces and every       *)
(* number of digests, incarnations and disturbances.                       *)
(***************************************************************************)
EXTENDS RefExport, TLAPS

(* Where a pass is, and what it has in hand there. *)
Targeted ==
  /\ pc \in {"read", "write"} => at.target # None
  /\ pc = "write" => at.read.of # "other"
  /\ pc = "delete" => at.next \in {"finalizer", "end", "release"}

IsComposition == kind = "ImageComposition"

(* Past the finalizer a composition has one, and is not gone. *)
Guarded ==
  /\ pc \notin {"idle", "finalizer"} => finalizer
  /\ finalizer => life # "gone"
  /\ pc # "drop"
  /\ pc = "delete" => at.next \in {"end", "release"}

(* What status says of the export, and what the pass does: it has the record in memory until it
   has deleted what the record names, and by then that is no longer this object's. *)
Remembered ==
  /\ pc \notin {"idle", "end", "release"} => at.record = record
  /\ pc \in {"finalizer", "publish", "read", "write", "reclaim", "release"} => at.written = None
  /\ pc = "delete" /\ at.next = "release" => at.written = None
  /\ pc = "delete" /\ at.record \in Namespaces /\ Ours(at.record) => at.read.of = "self"
  /\ pc = "end" => /\ at.written \in {None, at.record} /\ at.record \in {record, at.written}
                   /\ at.record = record \/ (record \in Namespaces => ~Ours(record))
  /\ pc = "release" => (record \in Namespaces => ~Ours(record))

(* Every foreign export is recorded, in a pass's hands, or written off. *)
Accounted ==
  \A n \in Foreign : Ours(n) => n \in lost \/ (finalizer /\ (n = record \/ (pc # "idle" /\ n = at.written)))

(* What is exported and not written off says at most what status does. *)
Behind ==
  life # "gone" =>
    /\ pc # "idle" => at.artifact = artifact
    /\ \A n \in Foreign :
         Ours(n) /\ (n \notin lost \/ n = record \/ (pc # "idle" /\ n = at.written))
           => cm[n].digest <= artifact

Steady == IsComposition => Guarded /\ Remembered /\ Accounted /\ Behind

-----------------------------------------------------------------------------
LEMMA InitSteady == Init => TypeOK /\ Targeted /\ Steady
<1> SUFFICES ASSUME Init PROVE TypeOK /\ Targeted /\ Steady
  OBVIOUS
<1>1. /\ 0 \in 0..MaxDigests /\ 0 \in 0..MaxUids /\ 0 \in 0..MaxDisturbances /\ 1 \in 1..MaxUids
  BY BoundAssumption
<1>2. Absent \in ConfigMap /\ Stranger \in ConfigMap /\ Absent.of # "self" /\ Stranger.of # "self"
  BY <1>1 DEF Absent, Stranger, ConfigMap
<1>3. Nothing \in Memory
  BY <1>1, <1>2 DEF Nothing, Memory, Steps, Targets
<1>4. cm \in [Namespaces -> ConfigMap] /\ \A n \in Namespaces : ~Ours(n)
  BY <1>2 DEF Init, Ours
<1>5. TypeOK
  BY <1>1, <1>3, <1>4 DEF Init, TypeOK, Targets, Steps
<1>6. \A n \in Foreign : ~Ours(n)
  BY <1>4 DEF Namespaces
<1>7. QED
  BY <1>5, <1>6 DEF Init, Targeted, Steady, Guarded, Remembered, Accounted, Behind

-----------------------------------------------------------------------------
(* Types, and what a pass has in hand. *)
LEMMA MemoryTypes ==
  ASSUME TypeOK
  PROVE  /\ at.target \in Targets /\ at.record \in Targets /\ at.artifact \in 0..MaxDigests
         /\ at.written \in Targets /\ at.read \in ConfigMap /\ at.next \in Steps
         /\ at = [target |-> at.target, record |-> at.record, artifact |-> at.artifact,
                  written |-> at.written, read |-> at.read, next |-> at.next]
BY DEF TypeOK, Memory

LEMMA NextTypes == TypeOK /\ Targeted /\ [Next]_vars => TypeOK' /\ Targeted'
<1> SUFFICES ASSUME TypeOK, Targeted, [Next]_vars PROVE TypeOK' /\ Targeted'
  OBVIOUS
<1>1. /\ 0 \in 0..MaxDigests /\ 0 \in 0..MaxUids /\ 0 \in 0..MaxDisturbances
      /\ MaxDigests \in Nat /\ MaxUids \in Nat /\ MaxDisturbances \in Nat
  BY BoundAssumption
<1>2. Absent \in ConfigMap /\ Stranger \in ConfigMap /\ Absent.of = "nobody"
  BY <1>1 DEF Absent, Stranger, ConfigMap
<1>3. Nothing \in Memory
  BY <1>1, <1>2 DEF Nothing, Memory, Steps, Targets
<1>4. Disturb => disturbed' \in 0..MaxDisturbances
  BY <1>1 DEF Disturb, TypeOK
<1>5. /\ kind \in Kinds /\ uid \in 1..MaxUids /\ life \in {"live", "deleting", "gone"}
      /\ finalizer \in BOOLEAN /\ target \in Targets /\ record \in Targets
      /\ artifact \in 0..MaxDigests /\ cm \in [Namespaces -> ConfigMap] /\ pc \in Steps
      /\ at \in Memory /\ due \in BOOLEAN /\ lost \subseteq Namespaces
      /\ disturbed \in 0..MaxDisturbances /\ Namespaces = Foreign \cup {Own}
  BY DEF TypeOK, Namespaces
<1>6. /\ at.target \in Targets /\ at.record \in Targets /\ at.artifact \in 0..MaxDigests
      /\ at.written \in Targets /\ at.read \in ConfigMap /\ at.next \in Steps
  BY MemoryTypes
<1>7. CASE Begin
  <2>1. at' \in Memory
    BY <1>3, <1>5, <1>7 DEF Begin, Memory
  <2>2. pc' \in {"reclaim", "idle", "drop", "finalizer"}
    BY <1>7 DEF Begin, Goto
  <2>3. QED
    BY <1>5, <1>7, <2>1, <2>2 DEF Begin, InPass, Quiet, TypeOK, Targeted, Steps
<1>8. CASE FindExported
  <2>1. (IF at.record = None THEN Absent ELSE cm[at.record]) \in ConfigMap
    BY <1>2, <1>5, <1>6 DEF Targets
  <2>2. at'.next \in {"finalizer", "end", "release"}
    BY <1>5, <1>8 DEF FindExported, Removals, Memory
  <2>3. at' \in Memory
    BY <1>5, <1>6, <1>8, <2>1 DEF FindExported, Removals, Memory, Steps
  <2>4. QED
    BY <1>5, <1>8, <2>2, <2>3 DEF FindExported, InPass, Quiet, Goto, TypeOK, Targeted, Steps
<1>9. CASE DeleteExported
  <2>1. at' \in Memory
    BY <1>2, <1>5, <1>6, <1>9 DEF DeleteExported, Memory
  <2>2. cm' \in [Namespaces -> ConfigMap]
    BY <1>2, <1>5, <1>9 DEF DeleteExported
  <2>3. pc' \in {"finalizer", "end", "release"}
    BY <1>9 DEF DeleteExported, InPass, Goto, Targeted
  <2>4. QED
    BY <1>5, <1>9, <2>1, <2>2, <2>3 DEF Steps, DeleteExported, InPass, Quiet, TypeOK, Targeted
<1>10. CASE Finalizer
  <2>1. at' \in Memory
    BY <1>5, <1>10 DEF Finalizer, Memory
  <2>2. finalizer' \in BOOLEAN
    <3>1. finalizer' = IF IsBuild THEN at.target \in Foreign ELSE TRUE
      BY <1>10 DEF Finalizer
    <3>2. CASE IsBuild
      BY <3>1, <3>2
    <3>3. CASE ~IsBuild
      BY <3>1, <3>3
    <3>4. QED
      BY <3>2, <3>3
  <2>3. /\ pc' = "publish"
        /\ UNCHANGED <<kind, uid, life, target, record, artifact, cm, due, lost, disturbed>>
    BY <1>10 DEF Finalizer, InPass, Quiet, Goto
  <2>4. QED
    BY <1>5, <2>1, <2>2, <2>3 DEF TypeOK, Targeted, Steps
<1>11. CASE Publish
  <2>1. PICK d \in 1..MaxDigests :
          at' = [at EXCEPT !.artifact = d] /\ artifact' \in {artifact, d}
    BY <1>11 DEF Publish
  <2>2. at' \in Memory /\ artifact' \in 0..MaxDigests /\ at'.target = at.target
    BY <1>1, <1>5, <2>1 DEF Memory
  <2>3. pc' \in {"read", "record", "end"} /\ (pc' = "read" => at.target # None)
    BY <1>11 DEF Publish, Goto, BuildExports, CompositionExports
  <2>4. QED
    BY <1>5, <1>11, <2>2, <2>3 DEF Publish, InPass, Quiet, TypeOK, Targeted, Steps
<1>12. CASE Wait \/ Record
  BY <1>5, <1>12 DEF Wait, Record, InPass, Quiet, Goto, TypeOK, Targeted, Steps
<1>13. CASE Read
  <2>1. at.target \in Namespaces
    BY <1>6, <1>13 DEF Read, InPass, Targeted, Targets
  <2>2. cm[at.target] \in ConfigMap /\ cm[at.target].of # "other"
    BY <1>5, <1>13, <2>1 DEF Read, Refused
  <2>3. at' \in Memory /\ at'.read = cm[at.target] /\ at'.target = at.target
    BY <1>5, <1>13, <2>2 DEF Read, Memory
  <2>4. QED
    BY <1>5, <1>13, <2>1, <2>2, <2>3, NamespaceAssumption
       DEF Read, InPass, Quiet, Goto, TypeOK, Targeted, Steps
<1>14. CASE Stall
  BY <1>3, <1>5, <1>6, <1>14 DEF Stall, InPass, Quiet, Goto, TypeOK, Targeted, Steps
<1>15. CASE Write
  <2> DEFINE new == [of |-> "self", digest |-> at.artifact,
                     owner |-> IF at.read # Absent THEN at.read.owner
                               ELSE IF at.target = Own THEN uid ELSE 0]
  <2>1. at.read.owner \in 0..MaxUids /\ uid \in 0..MaxUids
    BY <1>1, <1>5, <1>6 DEF ConfigMap
  <2>2. new \in ConfigMap
    BY <1>1, <1>6, <2>1 DEF ConfigMap
  <2>3. cm' = [cm EXCEPT ![at.target] = new]
    BY <1>15 DEF Write
  <2> HIDE DEF new
  <2>4. cm' \in [Namespaces -> ConfigMap]
    BY <1>5, <2>2, <2>3
  <2>5. at' \in Memory
    BY <1>5, <1>6, <1>15 DEF Write, Memory
  <2>6. QED
    BY <1>5, <1>15, <2>4, <2>5 DEF Write, InPass, Quiet, Goto, TypeOK, Targeted, Steps
<1>16. CASE End
  BY <1>3, <1>5, <1>6, <1>16 DEF End, Quiet, Goto, TypeOK, Targeted, Steps
<1>17. CASE Release
  BY <1>3, <1>5, <1>17 DEF Release, Quiet, Goto, TypeOK, Targeted, Steps
<1>18. CASE Conflict \/ RequestFails
  <2>1. Retry /\ disturbed' \in 0..MaxDisturbances
    BY <1>4, <1>5, <1>18 DEF Conflict, RequestFails, Quiet
  <2>2. at' \in Memory /\ pc' \in {"end", "idle"}
    BY <1>3, <1>5, <2>1 DEF Retry, Goto
  <2>3. lost' \subseteq Namespaces
    BY <1>5, <2>1 DEF Retry, Written
  <2>4. QED
    BY <1>5, <2>1, <2>2, <2>3 DEF Retry, object, TypeOK, Targeted, Steps
<1>19. CASE Crash
  <2>1. lost' \subseteq Namespaces
    BY <1>5, <1>19 DEF Crash, Written
  <2>2. QED
    BY <1>3, <1>4, <1>5, <1>19, <2>1 DEF Crash, Goto, object, TypeOK, Targeted, Steps
<1>20. CASE World
  <2>1. CASE \E t \in Targets : EditTarget(t)
    BY <1>4, <1>5, <2>1 DEF EditTarget, Outside, TypeOK, Targeted
  <2>2. CASE \E t \in Targets : Recreate(t)
    <3>1. uid + 1 \in 1..MaxUids /\ {n \in Foreign : cm[n].of = "self"} \subseteq Namespaces
          /\ None \in Targets
      BY <1>1, <1>5, <2>2 DEF Recreate, Targets
    <3>2. QED
      BY <1>1, <1>4, <1>5, <2>2, <3>1 DEF Recreate, TypeOK, Targeted
  <2>3. CASE DeleteObject
    BY <1>4, <1>5, <2>3 DEF DeleteObject, Outside, TypeOK, Targeted
  <2>4. CASE Collect \/ \E n \in Namespaces : Meddle(n)
    <3>1. cm' \in [Namespaces -> ConfigMap]
      BY <1>2, <1>5, <2>4 DEF Collect, Meddle
    <3>2. QED
      BY <1>4, <1>5, <2>4, <3>1 DEF Collect, Meddle, Outside, Quiet, TypeOK, Targeted
  <2>5. QED
    BY <1>20, <2>1, <2>2, <2>3, <2>4 DEF World
<1>21. CASE UNCHANGED vars
  BY <1>21 DEF vars, object, TypeOK, Targeted
<1>22. QED
  BY <1>7, <1>8, <1>9, <1>10, <1>11, <1>12, <1>13, <1>14, <1>15, <1>16, <1>17, <1>18, <1>19, <1>20,
     <1>21 DEF Next, Pass

-----------------------------------------------------------------------------
(* ADR 0056: ExportRef reads before it writes, and the write is refused when the ConfigMap is no
   longer what was read, so another's is never taken over. *)
THEOREM OthersNeverOverwritten == Spec => NeverOverwrites
<1> DEFINE Keeps == \A n \in Namespaces : cm[n].of = "other" => ~Ours(n)'
<1>1. TypeOK /\ Targeted /\ [Next]_vars => [Keeps]_vars
  <2> SUFFICES ASSUME TypeOK, Targeted, Next, NEW n \in Namespaces, cm[n].of = "other"
               PROVE  cm'[n].of # "self"
    BY DEF Ours
  <2>1. cm \in [Namespaces -> ConfigMap] /\ Absent.of = "nobody" /\ Stranger.of = "other"
    BY DEF TypeOK, Absent, Stranger
  <2>2. CASE Write
    <3>1. cm[at.target] = at.read /\ at.read.of # "other"
      BY <2>2 DEF Write, InPass, Targeted
    <3>2. n # at.target
      BY <3>1
    <3>3. QED
      BY <2>1, <2>2, <3>2 DEF Write
  <2>3. CASE DeleteExported \/ Collect \/ \E m \in Namespaces : Meddle(m)
    BY <2>1, <2>3 DEF DeleteExported, Collect, Meddle
  <2>4. CASE UNCHANGED cm
    BY <2>4
  <2>5. QED
    BY <2>2, <2>3, <2>4 DEF Next, Pass, Begin, FindExported, Finalizer, Publish, Wait, Read, Stall,
       Record, End, Release, Conflict, RequestFails, Retry, Crash, World, EditTarget, Recreate,
       DeleteObject, object
<1>2. Init => TypeOK /\ Targeted
  BY InitSteady
<1>3. QED
  BY <1>1, <1>2, NextTypes, PTL DEF Spec, NeverOverwrites

-----------------------------------------------------------------------------
(* A composition's export: recorded, or written off; and never ahead of status. *)
LEMMA PassSteady ==
  ASSUME TypeOK, Targeted, Steady, IsComposition, Pass
  PROVE  Steady'
<1>1. /\ Guarded /\ Remembered /\ Accounted /\ Behind
      /\ ~IsBuild
      /\ at \in Memory /\ cm \in [Namespaces -> ConfigMap] /\ finalizer \in BOOLEAN
      /\ artifact \in Nat /\ lost \subseteq Namespaces /\ Foreign \subseteq Namespaces
      /\ at.record \in Targets /\ at.target \in Targets /\ at.written \in Targets
      /\ record \in Targets /\ at.artifact \in Nat
  BY MemoryTypes, BoundAssumption DEF Steady, IsBuild, IsComposition, TypeOK, Namespaces
<1>2. Absent.of = "nobody" /\ Nothing.written = None /\ None \notin Namespaces
  BY NamespaceAssumption DEF Absent, Nothing
<1>3. CASE Begin
  <2>1. /\ at'.record = record /\ at'.artifact = artifact /\ at'.written = None
        /\ pc' \in {"idle", "reclaim", "finalizer"}
        /\ pc' = "reclaim" => finalizer
    BY <1>1, <1>3 DEF Begin, Goto, InPass, Nothing
  <2>2. UNCHANGED <<life, finalizer, record, artifact, cm, lost>> /\ pc = "idle"
    BY <1>3 DEF Begin, InPass
  <2>3. QED
    BY <1>1, <1>2, <2>1, <2>2 DEF Guarded, Remembered, Accounted, Behind, Steady, Ours
<1>4. CASE FindExported
  <2>1. /\ at'.record = at.record /\ at'.artifact = at.artifact /\ at'.written = at.written
        /\ at'.read = IF at.record = None THEN Absent ELSE cm[at.record]
        /\ at'.next = IF pc = "replace" THEN "end" ELSE "release"
        /\ pc' = "delete" /\ pc \in {"replace", "reclaim"}
    BY <1>1, <1>4 DEF FindExported, Goto, Removals, Guarded, Memory
  <2>2. UNCHANGED <<life, finalizer, record, artifact, cm, lost>>
    BY <1>4 DEF FindExported, InPass
  <2>3. QED
    BY <1>1, <1>2, <2>1, <2>2 DEF Guarded, Remembered, Accounted, Behind, Steady, Ours
<1>5. CASE DeleteExported
  <2>1. /\ at'.record = at.written /\ at'.artifact = at.artifact /\ at'.written = at.written
        /\ pc = "delete" /\ pc' = at.next /\ at.next \in {"end", "release"}
        /\ at.record = record
    BY <1>1, <1>5 DEF DeleteExported, Goto, InPass, Guarded, Remembered, Memory
  <2>2. UNCHANGED <<life, finalizer, record, artifact, lost>>
    BY <1>5 DEF DeleteExported, InPass
  <2>3. \A n \in Namespaces : cm'[n] \in {cm[n], Absent}
    BY <1>1, <1>5 DEF DeleteExported
  <2>4. record \in Namespaces => ~Ours(record)'
    BY <1>1, <1>2, <1>5, <2>1, <2>3 DEF DeleteExported, Remembered, Ours
  <2>5. QED
    BY <1>1, <1>2, <2>1, <2>2, <2>3, <2>4
       DEF Guarded, Remembered, Accounted, Behind, Steady, Ours
<1>6. CASE Finalizer
  <2>1. finalizer' = TRUE /\ (life = "gone" => finalizer) /\ pc = "finalizer" /\ pc' = "publish"
    BY <1>1, <1>6 DEF Finalizer, InPass, Goto
  <2>2. UNCHANGED <<life, record, artifact, cm, lost>>
    BY <1>6 DEF Finalizer, InPass
  <2>3. at'.record = record /\ at'.artifact \in {at.artifact, artifact} /\ at'.written = at.written
    BY <1>1, <1>6, <2>1 DEF Finalizer, Memory, Remembered
  <2>4. QED
    BY <1>1, <1>2, <2>1, <2>2, <2>3 DEF Guarded, Remembered, Accounted, Behind, Steady, Ours
<1>7. CASE Publish
  <2>1. PICK d \in {at.artifact, at.artifact + 1} :
          /\ at' = [at EXCEPT !.artifact = d]
          /\ artifact' = IF life = "gone" THEN artifact ELSE d
    BY <1>1, <1>7 DEF Publish
  <2>2. /\ at'.artifact = d /\ at'.record = at.record /\ at'.written = at.written
        /\ pc = "publish" /\ pc' \in {"read", "record", "end"}
    BY <1>1, <1>7, <2>1 DEF Publish, InPass, Goto, CompositionExports, Memory
  <2>3. UNCHANGED <<life, finalizer, record, cm, lost>>
    BY <1>7 DEF Publish, InPass
  <2>4. life # "gone" => d >= artifact
    BY <1>1, <2>1, <2>2 DEF Behind
  <2>5. \A n \in Namespaces : cm[n].digest \in Nat
    BY <1>1, BoundAssumption DEF ConfigMap
  <2>6. QED
    BY <1>1, <1>2, <2>1, <2>2, <2>3, <2>4, <2>5
       DEF Guarded, Remembered, Accounted, Behind, Steady, Ours
<1>8. CASE Wait \/ Record
  <2>1. /\ UNCHANGED <<life, finalizer, record, artifact, cm, at, lost>>
        /\ \/ pc = "publish" /\ pc' = "end"
           \/ pc = "record" /\ pc' = IF at.record = at.written THEN "end" ELSE "replace"
    BY <1>8 DEF Wait, Record, InPass, Goto
  <2>2. QED
    BY <1>1, <1>2, <2>1 DEF Guarded, Remembered, Accounted, Behind, Steady, Ours
<1>9. CASE Read
  <2>1. at'.record = at.record /\ at'.artifact = at.artifact /\ at'.written = at.written
    BY <1>1, <1>9 DEF Read, Memory
  <2>2. UNCHANGED <<life, finalizer, record, artifact, cm, lost>> /\ pc = "read" /\ pc' = "write"
    BY <1>9 DEF Read, InPass, Goto
  <2>3. QED
    BY <1>1, <1>2, <2>1, <2>2 DEF Guarded, Remembered, Accounted, Behind, Steady, Ours
<1>10. CASE Stall
  <2>1. UNCHANGED <<life, finalizer, record, artifact, cm, lost>> /\ pc = "read" /\ pc' = "idle"
    BY <1>1, <1>10 DEF Stall, InPass, Goto
  <2>2. QED
    BY <1>1, <1>2, <2>1 DEF Guarded, Remembered, Accounted, Behind, Steady, Ours
<1>11. CASE Write
  <2>1. /\ at.target \in Namespaces
        /\ at'.record = at.record /\ at'.artifact = at.artifact /\ at'.written = at.target
    BY <1>1, <1>11 DEF Write, InPass, Targeted, Targets, Memory
  <2>2. UNCHANGED <<life, finalizer, record, artifact, lost>> /\ pc = "write" /\ pc' = "record"
    BY <1>11 DEF Write, InPass, Goto
  <2>3. \A n \in Namespaces : \/ n # at.target /\ cm'[n] = cm[n]
                              \/ n = at.target /\ cm'[n].digest = at.artifact
    BY <1>1, <1>11 DEF Write
  <2>4. finalizer /\ life # "gone" /\ at.artifact = artifact
    BY <1>1, <2>2 DEF Guarded, Behind
  <2>5. QED
    BY <1>1, <1>2, <2>1, <2>2, <2>3, <2>4
       DEF Guarded, Remembered, Accounted, Behind, Steady, Ours
<1>12. CASE End
  <2>1. pc = "end" /\ finalizer /\ life # "gone"
    BY <1>1, <1>12 DEF End, Guarded
  <2>2. /\ UNCHANGED <<life, finalizer, artifact, cm>> /\ pc' = "idle"
        /\ record' = at.record /\ lost' = lost \ {at.record}
    BY <1>1, <1>12, <2>1 DEF End, Goto
  <2>3. QED
    BY <1>1, <1>2, <2>1, <2>2 DEF Guarded, Remembered, Accounted, Behind, Steady, Ours
<1>13. CASE Release
  <2>1. /\ UNCHANGED <<record, artifact, cm, lost>> /\ pc = "release" /\ pc' = "idle"
        /\ life' = "gone" /\ finalizer' = FALSE
    BY <1>13 DEF Release, Goto
  <2>2. \A n \in Foreign : Ours(n) => n \in lost
    BY <1>1, <1>2, <2>1 DEF Remembered, Accounted
  <2>3. QED
    BY <1>1, <2>1, <2>2 DEF Guarded, Remembered, Accounted, Behind, Steady, Ours
<1>14. QED
  BY <1>3, <1>4, <1>5, <1>6, <1>7, <1>8, <1>9, <1>10, <1>11, <1>12, <1>13 DEF Pass

LEMMA OthersSteady ==
  ASSUME TypeOK, Targeted, Steady, IsComposition, Conflict \/ RequestFails \/ Crash \/ World
  PROVE  Steady'
<1>1. /\ Guarded /\ Remembered /\ Accounted /\ Behind
      /\ ~IsBuild
      /\ cm \in [Namespaces -> ConfigMap] /\ finalizer \in BOOLEAN
      /\ artifact \in Nat /\ lost \subseteq Namespaces /\ Foreign \subseteq Namespaces
      /\ at.written \in Targets /\ record \in Targets
  BY MemoryTypes, BoundAssumption DEF Steady, IsBuild, IsComposition, TypeOK, Namespaces
<1>2. Absent.of = "nobody" /\ Stranger.of = "other" /\ None \notin Namespaces
  BY NamespaceAssumption DEF Absent, Stranger
<1>3. CASE Conflict \/ RequestFails \/ Crash
  <2>1. /\ UNCHANGED object /\ UNCHANGED cm /\ pc' = "idle" /\ lost' = lost \cup Written /\ pc # "idle"
    BY <1>1, <1>3 DEF Conflict, RequestFails, Retry, Crash, Goto
  <2>2. \A n \in Foreign : n = at.written => n \in lost' \/ n = record
    BY <1>1, <2>1 DEF Written
  <2>3. QED
    BY <1>1, <2>1, <2>2 DEF object, Guarded, Remembered, Accounted, Behind, Steady, Ours
<1>4. CASE \E t \in Targets : EditTarget(t)
  BY <1>1, <1>4 DEF EditTarget, Outside, Guarded, Remembered, Accounted, Behind, Steady, Ours
<1>5. CASE \E t \in Targets : Recreate(t)
  <2>1. /\ UNCHANGED <<finalizer, cm>> /\ pc = "idle" /\ pc' = "idle" /\ life = "gone" /\ life' = "live"
        /\ record' = None /\ lost' = {n \in Foreign : cm[n].of = "self"}
    BY <1>5 DEF Recreate
  <2>2. ~finalizer
    BY <1>1, <2>1 DEF Guarded
  <2>3. QED
    BY <1>1, <1>2, <2>1, <2>2 DEF Guarded, Remembered, Accounted, Behind, Steady, Ours
<1>6. CASE DeleteObject
  <2>1. /\ UNCHANGED <<finalizer, record, artifact, cm, at, pc, lost>>
        /\ life' = IF finalizer THEN "deleting" ELSE "gone"
        /\ life = "live"
    BY <1>6 DEF DeleteObject, Outside
  <2>2. QED
    BY <1>1, <2>1 DEF Guarded, Remembered, Accounted, Behind, Steady, Ours
<1>7. CASE Collect \/ \E n \in Namespaces : Meddle(n)
  <2>1. UNCHANGED <<finalizer, record, artifact, at, pc, lost, life>>
    BY <1>7 DEF Collect, Meddle, Outside
  <2>2. \A n \in Namespaces : cm'[n] = cm[n] \/ ~Ours(n)'
    BY <1>1, <1>2, <1>7 DEF Collect, Meddle, Ours
  <2>3. QED
    BY <1>1, <2>1, <2>2 DEF Guarded, Remembered, Accounted, Behind, Steady, Ours
<1>8. QED
  BY <1>3, <1>4, <1>5, <1>6, <1>7 DEF World

LEMMA AlwaysSteady == Spec => [](TypeOK /\ Targeted /\ Steady)
<1>1. TypeOK /\ Targeted /\ Steady /\ [Next]_vars => (TypeOK /\ Targeted /\ Steady)'
  <2> SUFFICES ASSUME TypeOK, Targeted, Steady, [Next]_vars PROVE Steady'
    BY NextTypes
  <2>1. CASE ~IsComposition
    <3>1. kind' = kind
      BY DEF Next, Pass, Begin, FindExported, DeleteExported, Finalizer, Publish, Wait, Read, Stall,
         Write, Record, End, Release, InPass, Conflict, RequestFails, Retry, Crash, World,
         EditTarget, Recreate, DeleteObject, Collect, Meddle, Outside, object, vars
    <3>2. QED
      BY <2>1, <3>1 DEF Steady, IsComposition
  <2>2. CASE IsComposition /\ Next
    BY <2>2, PassSteady, OthersSteady DEF Next
  <2>3. CASE UNCHANGED vars
    BY <2>3 DEF vars, object, Steady, IsComposition, Guarded, Remembered, Accounted, Behind, Ours
  <2>4. QED
    BY <2>1, <2>2, <2>3
<1>2. QED
  BY <1>1, InitSteady, PTL DEF Spec

(* The composer writes status before it exports: no failure, crash or move of the export lets a
   foreign ConfigMap that is accounted for name a digest status does not. *)
THEOREM ExportNeverAhead == Spec => []NeverAheadOfStatus
<1>1. TypeOK /\ Steady => NeverAheadOfStatus
  BY DEF Steady, IsComposition, Behind, NeverAheadOfStatus
<1>2. QED
  BY <1>1, AlwaysSteady, PTL

(* The finalizer: when an ImageComposition is gone, so is every foreign export of it but those a
   pass wrote and died before recording. *)
THEOREM GoneLeavesNoOrphan == Spec => []NoOrphan
<1>1. TypeOK /\ Steady => NoOrphan
  BY DEF Steady, IsComposition, Guarded, Accounted, NoOrphan
<1>2. QED
  BY <1>1, AlwaysSteady, PTL
=============================================================================
