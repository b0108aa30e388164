------------------------- MODULE CompositionProofs -------------------------
(***************************************************************************)
(* What Composition.tla promises for every value of its constants.         *)
(***************************************************************************)
EXTENDS Composition, ReconcilerProofs

(* A registry that loses nothing: no tag lapses and no manifest goes. *)
NothingExpires == Disturbances \cap {"expire", "expire-stalled"} = {}

LEMMA NoExpiry ==
  ASSUME NothingExpires
  PROVE  ~Expire
BY DEF NothingExpires, Expire, Disturb

-----------------------------------------------------------------------------
(***************************************************************************)
(* What becomes of a status when it is marked, and when it is patched.     *)
(***************************************************************************)

(* Marking what a backfill learned changes what the entries say of their digests, never which
   digests there are; it claims what the backfill tagged and nothing else that was not claimed. *)
LEMMA MarkKeeps ==
  ASSUME NEW st \in Status, NEW tagged \in SUBSET Manifests, NEW gone
  PROVE  /\ Mark(st, tagged, gone) \in Status
         /\ Claimed(Mark(st, tagged, gone)) \subseteq Claimed(st) \cup tagged
         /\ OnePerDigest(st.history) => OnePerDigest(Mark(st, tagged, gone).history)
<1> DEFINE M == Mark(st, tagged, gone)
           marked == [i \in DOMAIN st.history |-> MarkBuild(st.history[i], st.digest, tagged, gone)]
<1>1. st.history \in Seq(Build)
  BY DEF Status
<1>2. /\ marked \in Seq(Build)
      /\ OwnOf(marked) \subseteq OwnOf(st.history) \cup tagged
      /\ OnePerDigest(st.history) => OnePerDigest(marked)
  BY <1>1, MarkedHistory
<1>3. /\ M = [st EXCEPT !.own = M.own, !.history = M.history]
      /\ M.own \in {st.own} \cup tagged
      /\ M.history = marked
  BY DEF Mark, Status
<1> HIDE DEF M, marked
<1>4. M \in Status
  BY <1>2, <1>3 DEF Status
<1>5. Claimed(M) \subseteq Claimed(st) \cup tagged
  BY <1>2, <1>3 DEF Claimed
<1>6. QED
  BY <1>2, <1>3, <1>4, <1>5 DEF M

(* A merge patch mixes two statuses field by field. *)
LEMMA MergeKeeps ==
  ASSUME NEW server \in Status, NEW base \in Status, NEW new \in Status
  PROVE  /\ MergePatch(server, base, new) \in Status
         /\ MergePatch(server, base, new).history \in {server.history, new.history}
         /\ Claimed(MergePatch(server, base, new)) \subseteq Claimed(server) \cup Claimed(new)
<1> DEFINE P == MergePatch(server, base, new)
<1>1. P \in Status
  BY DEF MergePatch, Merge, Status
<1>2. P.history \in {server.history, new.history} /\ P.own \in {server.own, new.own}
  BY DEF MergePatch, Merge
<1>3. Claimed(P) \subseteq Claimed(server) \cup Claimed(new)
  BY <1>2 DEF Claimed
<1>4. QED
  BY <1>1, <1>2, <1>3

-----------------------------------------------------------------------------
(***************************************************************************)
(* Types.  A status is written by WriteStatus alone, and a pass ends by    *)
(* EndPass alone, so each is typed once.                                   *)
(***************************************************************************)

LEMMA WriteStatusTypes ==
  ASSUME TypeOK, NEW new \in Status, WriteStatus(new)
  PROVE  status' \in Status /\ cache' \in Snapshot /\ spec' \in SpecType /\ generation' \in Nat
<1>1. status \in Status /\ cache \in Snapshot /\ spec \in SpecType /\ generation \in Nat
  BY DEF TypeOK
<1>2. cache.status \in Status
  BY <1>1 DEF Snapshot
<1>3. status' \in Status /\ spec' = spec /\ generation' = generation
  BY <1>1, <1>2, MergeKeeps DEF WriteStatus
<1>4. cache' \in Snapshot
  BY <1>1, <1>3 DEF WriteStatus, Observe, Snapshot
<1>5. QED
  BY <1>1, <1>3, <1>4

LEMMA SaysTypes ==
  ASSUME TypeOK, NEW d \in Manifests \cup {None},
         NEW k \in {"Unknown", "Progressing", "Published", "Kept", "Failing", "Waiting", "Stalled", "Suspended"}
  PROVE  Says(k, d) \in Condition /\ cache.generation \in Nat
BY DEF Says, Condition, TypeOK, Snapshot

LEMMA FailTypes ==
  ASSUME TypeOK, NEW kind \in {"Failing", "Waiting", "Stalled"}, Fail(kind), UNCHANGED registryVars,
         disturbed' \in Nat
  PROVE  TypeOK'
<1> DEFINE new == [cache.status EXCEPT !.ready = Says(kind, None), !.observed = cache.generation]
<1>1. cache.status \in Status
  BY DEF TypeOK, Snapshot
<1>2. new \in Status
  BY <1>1, SaysTypes DEF Status
<1>3. WriteStatus(new)
  BY DEF Fail, PatchStatus
<1>4. status' \in Status /\ cache' \in Snapshot /\ spec' \in SpecType /\ generation' \in Nat
  BY <1>2, <1>3, WriteStatusTypes
<1>5. QED
  BY <1>4 DEF TypeOK, Fail, EndPass, RegistryTypeOK, registryVars

(* What a pass may refer to: its object's spec, status and output are well typed. *)
LEMMA PassTypes ==
  ASSUME TypeOK, pc # "idle"
  PROVE  /\ obj \in Snapshot /\ obj.spec \in SpecType /\ obj.status \in Status
         /\ Built \in Manifests /\ TagsOf(obj.spec) \subseteq Tags
<1>1. obj \in Snapshot /\ obj.spec \in SpecType /\ obj.status \in Status
  BY DEF TypeOK, Snapshot
<1>2. Built \in Manifests
  BY <1>1, SpecsAssumption DEF Built, SpecType
<1>3. TagsOf(obj.spec) \subseteq Tags
  BY <1>1, ElementOfSeq, LenProperties DEF TagsOf, SpecType
<1>4. QED
  BY <1>1, <1>2, <1>3

LEMMA HeadsTypes ==
  ASSUME TypeOK, pc # "idle", NEW deaf
  PROVE  Heads(deaf) \in Seen
<1> DEFINE own == HasDigestTag(obj.status) => (obj.status.digest \in named /\ "own" \notin deaf)
           digest == obj.status.digest \in present /\ "digest" \notin deaf
           tags == [t \in Tags |-> IF t \in TagsOf(obj.spec) \ deaf THEN tag[t] ELSE None]
<1>1. Heads(deaf) = [tag |-> tags, own |-> own, digest |-> digest]
  BY DEF Heads
<1>2. own \in BOOLEAN /\ digest \in BOOLEAN
  OBVIOUS
<1>3. tags \in [Tags -> Manifests \cup {None}]
  BY DEF TypeOK, RegistryTypeOK
<1> HIDE DEF own, digest, tags
<1>4. QED
  BY <1>1, <1>2, <1>3 DEF Seen

LEMMA AttestedTypes ==
  ASSUME NEW d \in Manifests
  PROVE  Attested(d) \subseteq Manifests \cup {None}
BY DEF Attested

(* What Report writes is a status: the latest one, with the pass's result copied into it. *)
Reported ==
  [cache.status EXCEPT
     !.digest   = result.digest,
     !.own      = result.own,
     !.hash     = obj.spec.input,
     !.history  = IF result.record
                    THEN RecordHistory(cache.status.history, [digest |-> result.digest, own |-> TRUE, lost |-> FALSE])
                    ELSE cache.status.history,
     !.conflict = result.conflict,
     !.attested = result.attested,
     !.ready    = Says(IF result.conflict = None THEN "Published" ELSE "Kept", result.digest),
     !.observed = cache.generation]

LEMMA ReportWrites ==
  ASSUME TypeOK, Report
  PROVE  Reported \in Status /\ WriteStatus(Reported)
<1>1. pc = "report" /\ result \in Result /\ cache.status \in Status /\ obj.spec.input \in Inputs
  BY PassTypes DEF Report, TypeOK, Snapshot, SpecType
<1>2. RecordHistory(cache.status.history, [digest |-> result.digest, own |-> TRUE, lost |-> FALSE]) \in Seq(Build)
  BY <1>1, RecordHistoryKeeps DEF Result, Status, Build
<1>3. Says(IF result.conflict = None THEN "Published" ELSE "Kept", result.digest) \in Condition
  BY <1>1, SaysTypes DEF Result
<1>4. cache.generation \in Nat
  BY DEF TypeOK, Snapshot
<1>5. Reported \in Status
  BY <1>1, <1>2, <1>3, <1>4 DEF Reported, Result, Status
<1>6. WriteStatus(Reported)
  BY <1>1 DEF Report, Reported, PatchStatus, Status
<1>7. QED
  BY <1>5, <1>6

LEMMA InitTypes == Init => TypeOK
<1> SUFFICES ASSUME Init PROVE TypeOK
  OBVIOUS
<1>1. RegistryTypeOK
  BY InitAssumption DEF Init, RegistryTypeOK
<1>2. spec \in SpecType /\ generation \in Nat /\ status \in Status /\ cache \in Snapshot
  BY InitAssumption, SpecsAssumption DEF Init, Snapshot
<1>3. QED
  BY <1>1, <1>2 DEF Init, TypeOK

LEMMA PassTyped == TypeOK /\ Pass => TypeOK'
<1> SUFFICES ASSUME TypeOK, Pass PROVE TypeOK'
  OBVIOUS
<1> USE DEF objectVars, passVars, registryVars
<1>d. ASSUME NEW kind, Disturb(kind) PROVE disturbed' \in Nat
  BY <1>d DEF Disturb, TypeOK
<1>e. ASSUME NEW kind, NEW b, DisturbIf(b, kind) PROVE disturbed' \in Nat
  BY <1>e, <1>d DEF DisturbIf, TypeOK
<1>1. CASE Begin
  BY <1>1 DEF Begin, TypeOK, RegistryTypeOK
<1>2. CASE Backfill
  <2>1. PICK unanswered \in SUBSET Unnamed(obj.status) :
          LET asked  == Unnamed(obj.status) \ unanswered
              tagged == asked \cap present
              gone   == asked \ present
          IN /\ DisturbIf(unanswered # {}, "registry")
             /\ named' = named \cup tagged
             /\ WriteStatus(Mark(cache.status, tagged, gone))
             /\ obj' = [obj EXCEPT !.status = Mark(obj.status, tagged, gone)]
    BY <1>2 DEF Backfill
  <2> DEFINE asked  == Unnamed(obj.status) \ unanswered
             tagged == asked \cap present
             gone   == asked \ present
  <2>2. pc = "backfill" /\ pc' = "resolve" /\ UNCHANGED <<tag, present, queued, seen, todo, result>>
    BY <1>2 DEF Backfill
  <2>3. tagged \in SUBSET Manifests /\ present \in SUBSET Manifests
    BY DEF TypeOK, RegistryTypeOK
  <2>4. disturbed' \in Nat /\ named' = named \cup tagged /\ WriteStatus(Mark(cache.status, tagged, gone))
        /\ obj' = [obj EXCEPT !.status = Mark(obj.status, tagged, gone)]
    BY <2>1, <1>e
  <2> HIDE DEF tagged, gone
  <2>5. obj' \in Snapshot
    BY <2>2, <2>3, <2>4, PassTypes, MarkKeeps DEF Snapshot
  <2>6. cache.status \in Status
    BY DEF TypeOK, Snapshot
  <2>7. status' \in Status /\ cache' \in Snapshot /\ spec' \in SpecType /\ generation' \in Nat
    BY <2>3, <2>4, <2>6, MarkKeeps, WriteStatusTypes
  <2>8. QED
    BY <2>2, <2>3, <2>4, <2>5, <2>7 DEF TypeOK, RegistryTypeOK
<1>3. CASE BackfillUnrecorded
  <2>1. named' \in SUBSET Manifests /\ disturbed' \in Nat
    BY <1>3, <1>d DEF BackfillUnrecorded, TypeOK, RegistryTypeOK
  <2>2. QED
    BY <1>3, <2>1 DEF BackfillUnrecorded, TypeOK, RegistryTypeOK
<1>4. CASE Suspended
  <2> DEFINE new == [cache.status EXCEPT !.ready = Says("Suspended", None), !.observed = cache.generation]
  <2>1. WriteStatus(new)
    BY <1>4 DEF Suspended, PatchStatus
  <2>2. new \in Status
    BY SaysTypes DEF TypeOK, Snapshot, Status
  <2>3. status' \in Status /\ cache' \in Snapshot /\ spec' \in SpecType /\ generation' \in Nat
    BY <2>1, <2>2, WriteStatusTypes
  <2>4. QED
    BY <1>4, <2>3 DEF Suspended, EndPass, TypeOK, RegistryTypeOK
<1>5. CASE Pending
  BY <1>5, <1>d, FailTypes DEF Pending
<1>6. CASE Resolve
  <2>1. pc = "resolve" /\ seen' \in Seen /\ disturbed' \in Nat
    BY <1>6, <1>e, HeadsTypes DEF Resolve
  <2>2. CASE /\ obj.status.hash = obj.spec.input
             /\ Matches(seen', obj, obj.status.digest)
             /\ Complete(obj.status)
    <3>1. /\ result' = [digest |-> obj.status.digest, own |-> obj.status.own, record |-> FALSE,
                        conflict |-> None, attested |-> obj.status.attested]
          /\ pc' = "report"
          /\ UNCHANGED <<spec, generation, status, cache, tag, named, present, queued, obj, todo>>
      BY <1>6, <2>2 DEF Resolve
    <3>2. obj.status.digest \in Manifests
      <4>1. seen'.digest
        BY <2>2 DEF Matches
      <4>2. PICK deaf : seen' = Heads(deaf)
        BY <1>6 DEF Resolve
      <4>3. Heads(deaf).digest = (obj.status.digest \in present /\ "digest" \notin deaf)
        BY Zenon DEF Heads
      <4>4. obj.status.digest \in present
        BY <4>1, <4>2, <4>3
      <4>5. QED
        BY <4>4 DEF TypeOK, RegistryTypeOK
    <3>3. result' \in Result
      BY <2>1, <3>1, <3>2, PassTypes DEF Result, Status
    <3>4. QED
      BY <2>1, <3>1, <3>3, PassTypes DEF TypeOK, RegistryTypeOK
  <2>3. CASE ~(/\ obj.status.hash = obj.spec.input
               /\ Matches(seen', obj, obj.status.digest)
               /\ Complete(obj.status))
    <3> DEFINE new == [cache.status EXCEPT !.ready = Says("Progressing", obj.status.digest)]
    <3>1. WriteStatus(new) /\ pc' = "assemble" /\ UNCHANGED <<result, tag, named, present, queued, obj, todo>>
      BY <1>6, <2>3 DEF Resolve
    <3>2. new \in Status
      BY <2>1, SaysTypes, PassTypes DEF TypeOK, Snapshot, Status
    <3>3. status' \in Status /\ cache' \in Snapshot /\ spec' \in SpecType /\ generation' \in Nat
      BY <3>1, <3>2, WriteStatusTypes
    <3>4. QED
      BY <2>1, <3>1, <3>3, PassTypes DEF TypeOK, RegistryTypeOK
  <2>4. QED
    BY <2>2, <2>3
<1>7. CASE Transient
  BY <1>7, <1>d, FailTypes DEF Transient
<1>8. CASE Converged
  <2>1. Built \in Manifests /\ obj \in Snapshot
    BY <1>8, PassTypes DEF Converged
  <2>2. PICK a \in Manifests \cup {None} :
          /\ DisturbIf(AttestEnabled /\ a = None, "registry")
          /\ result' = [digest |-> Built, own |-> Built, record |-> FALSE, conflict |-> None, attested |-> a]
    BY <1>8, <2>1, AttestedTypes DEF Converged
  <2>3. result' \in Result /\ disturbed' \in Nat
    BY <2>1, <2>2, <1>e DEF Result
  <2>4. QED
    BY <1>8, <2>1, <2>3 DEF Converged, PushOwnTag, TypeOK, RegistryTypeOK
<1>9. CASE ConvergedButLost
  BY <1>9, FailTypes DEF ConvergedButLost, TypeOK
<1>10. CASE RefuseConflict
  BY <1>10, FailTypes DEF RefuseConflict, TypeOK
<1>11. CASE KeepExisting
  <2>1. pc = "assemble" /\ Built \in Manifests /\ obj \in Snapshot /\ obj.spec \in SpecType /\ seen \in Seen
    BY <1>11, PassTypes DEF KeepExisting, Refused, TypeOK
  <2>2. PICK i \in Conflicting(seen, obj, Built) :
          result' = [digest |-> seen.tag[obj.spec.tags[i]], own |-> None, record |-> FALSE, attested |-> None,
                     conflict |-> [tag |-> obj.spec.tags[i], existing |-> seen.tag[obj.spec.tags[i]],
                                   dropped |-> Built]]
    BY <1>11 DEF KeepExisting
  <2> DEFINE t == obj.spec.tags[i]
  <2>3. t \in Tags /\ seen.tag[t] \in Manifests
    <3>1. i \in DOMAIN obj.spec.tags /\ seen.tag[t] # None
      BY <2>2 DEF Conflicting
    <3>2. t \in Tags
      BY <2>1, <3>1, ElementOfSeq, LenProperties DEF SpecType
    <3>3. QED
      BY <2>1, <3>1, <3>2 DEF Seen
  <2>4. result' \in Result
    <3> HIDE DEF t
    <3>1. QED
      BY <2>1, <2>2, <2>3 DEF Result, Conflict, t
  <2>5. QED
    BY <1>11, <2>1, <2>4 DEF KeepExisting, TypeOK, RegistryTypeOK
<1>12. CASE Write
  <2>1. Built \in Manifests /\ obj \in Snapshot /\ obj.spec.tags \in Seq(Tags)
    BY <1>12, PassTypes DEF Write, SpecType
  <2>2. QED
    BY <1>12, <2>1 DEF Write, PushDigest, TypeOK, RegistryTypeOK
<1>13. CASE WriteTag
  <2>1. Built \in Manifests /\ obj \in Snapshot
    BY <1>13, PassTypes DEF WriteTag
  <2>2. Head(todo) \in Tags /\ Tail(todo) \in Seq(Tags)
    BY <1>13, HeadTailProperties DEF WriteTag, TypeOK
  <2>3. RegistryTypeOK'
    BY <1>13, <2>1, <2>2 DEF WriteTag, PushTag, TypeOK, RegistryTypeOK
  <2>4. QED
    BY <1>13, <2>1, <2>2, <2>3 DEF WriteTag, TypeOK
<1>14. CASE WriteOwnTag
  <2>1. Built \in Manifests /\ obj \in Snapshot
    BY <1>14, PassTypes DEF WriteOwnTag
  <2>2. PICK a \in Manifests \cup {None} :
          /\ DisturbIf(AttestEnabled /\ a = None, "registry")
          /\ result' = [digest |-> Built, own |-> Built, record |-> TRUE, conflict |-> None, attested |-> a]
    BY <1>14, <2>1, AttestedTypes DEF WriteOwnTag
  <2>3. result' \in Result /\ disturbed' \in Nat
    BY <2>1, <2>2, <1>e DEF Result
  <2>4. QED
    BY <1>14, <2>1, <2>3 DEF WriteOwnTag, PushOwnTag, TypeOK, RegistryTypeOK
<1>15. CASE Report
  <2>1. pc = "report" /\ result \in Result /\ cache.status \in Status /\ obj.spec.input \in Inputs
    BY <1>15, PassTypes DEF Report, TypeOK, Snapshot, SpecType
  <2>2. PICK new \in Status : WriteStatus(new)
    BY <1>15, <2>1, ReportWrites
  <2>3. status' \in Status /\ cache' \in Snapshot /\ spec' \in SpecType /\ generation' \in Nat
    BY <2>2, WriteStatusTypes
  <2>4. QED
    BY <1>15, <2>3 DEF Report, EndPass, TypeOK, RegistryTypeOK
<1>16. QED
  BY <1>1, <1>2, <1>3, <1>4, <1>5, <1>6, <1>7, <1>8, <1>9, <1>10, <1>11, <1>12, <1>13, <1>14, <1>15 DEF Pass

LEMMA DeliverTypes ==
  ASSUME TypeOK, Deliver, spec' \in SpecType, generation' \in Nat
  PROVE  cache' \in Snapshot /\ queued' \in BOOLEAN
<1>1. status \in Status /\ cache \in Snapshot /\ queued \in BOOLEAN
  BY DEF TypeOK
<1>2. CASE CacheLag
  BY <1>1, <1>2 DEF Deliver
<1>3. CASE ~CacheLag
  <2>1. cache' = [spec |-> spec', generation |-> generation', status |-> status] /\ queued' = TRUE
    BY <1>3 DEF Deliver
  <2>2. QED
    BY <1>1, <2>1 DEF Snapshot
<1>4. QED
  BY <1>2, <1>3

LEMMA WorldTyped == TypeOK /\ (Sync \/ World) => TypeOK'
<1> SUFFICES ASSUME TypeOK, Sync \/ World PROVE TypeOK'
  OBVIOUS
<1> USE DEF objectVars, passVars, registryVars
<1>d. ASSUME NEW kind, Disturb(kind) PROVE disturbed' \in Nat
  BY <1>d DEF Disturb, TypeOK
<1>1. CASE Sync
  BY <1>1 DEF Sync, TypeOK, RegistryTypeOK, Snapshot
<1>2. ASSUME NEW s \in Specs, EditSpec(s) PROVE TypeOK'
  <2>1. spec' \in SpecType /\ generation' \in Nat /\ disturbed' \in Nat
    BY <1>2, <1>d, SpecsAssumption DEF EditSpec, TypeOK
  <2>2. cache' \in Snapshot /\ queued' \in BOOLEAN
    BY <1>2, <2>1, DeliverTypes DEF EditSpec
  <2>3. QED
    BY <1>2, <2>1, <2>2 DEF EditSpec, TypeOK, RegistryTypeOK
<1>3. ASSUME NEW i \in Inputs, MoveSource(i) PROVE TypeOK'
  <2>1. spec' \in SpecType /\ generation' \in Nat /\ disturbed' \in Nat
    BY <1>3, <1>d DEF MoveSource, TypeOK, SpecType
  <2>2. cache' \in Snapshot /\ queued' \in BOOLEAN
    BY <1>3, <2>1, DeliverTypes DEF MoveSource
  <2>3. QED
    BY <1>3, <2>1, <2>2 DEF MoveSource, TypeOK, RegistryTypeOK
<1>4. ASSUME NEW d \in Manifests, NEW t \in Tags, ForeignPush(d, t) PROVE TypeOK'
  <2>1. RegistryTypeOK' /\ disturbed' \in Nat
    BY <1>4, <1>d DEF ForeignPush, PushTag, TypeOK, RegistryTypeOK
  <2>2. QED
    BY <1>4, <2>1 DEF ForeignPush, TypeOK
<1>5. CASE Expire
  <2>1. RegistryTypeOK'
    BY <1>5 DEF Expire, ExpireTag, LoseManifest, TypeOK, RegistryTypeOK
  <2>2. QED
    BY <1>5, <1>d, <2>1 DEF Expire, TypeOK
<1>6. CASE ApiError
  BY <1>6, <1>d DEF ApiError, EndPass, TypeOK, RegistryTypeOK
<1>7. CASE Restart
  BY <1>7, <1>d DEF Restart, TypeOK, RegistryTypeOK, Snapshot
<1>8. QED
  BY <1>1, <1>2, <1>3, <1>4, <1>5, <1>6, <1>7 DEF World

(* Every reachable state is well typed, whatever the tags, inputs, specs and disturbances: among
   others, a pass that keeps a conflicting tag always has a digest to report, and a converged one
   only ever reports a digest the registry resolved. *)
THEOREM TypeCorrect == Spec => []TypeOK
<1>1. Init => TypeOK
  BY InitTypes
<1>2. TypeOK /\ [Next]_vars => TypeOK'
  <2>1. TypeOK /\ Next => TypeOK'
    BY PassTyped, WorldTyped DEF Next
  <2>2. TypeOK /\ UNCHANGED vars => TypeOK'
    BY DEF vars, registryVars, objectVars, passVars, TypeOK, RegistryTypeOK
  <2>3. QED
    BY <2>1, <2>2
<1>3. QED
  BY <1>1, <1>2, PTL DEF Spec

-----------------------------------------------------------------------------
(***************************************************************************)
(* What status claims is served.  ClaimedIsServed is not inductive: the    *)
(* next status is computed from the cache, from the object the pass read   *)
(* and from the pass's result, so each of these may only claim what is     *)
(* named too; and a manifest that is named must be one no tag move drops.  *)
(***************************************************************************)

ServedInv ==
  /\ named \subseteq present
  /\ Claimed(status) \subseteq named
  /\ Claimed(cache.status) \subseteq named
  /\ pc # "idle" => Claimed(obj.status) \subseteq named
  /\ pc = "report" => /\ result.own \in named \cup {None}
                      /\ result.record => result.digest \in named

(* Moving a tag never drops a manifest that carries its own. *)
LEMMA PushTagServes ==
  ASSUME named \subseteq present, NEW d, NEW t, PushTag(d, t)
  PROVE  named' = named /\ named' \subseteq present'
BY DEF PushTag, NamedWithout

LEMMA ClaimedOf ==
  ASSUME NEW st, NEW new, new.own = st.own, new.history = st.history
  PROVE  Claimed(new) = Claimed(st)
BY DEF Claimed

LEMMA WriteStatusServes ==
  ASSUME TypeOK, ServedInv, NEW new \in Status, WriteStatus(new),
         named \subseteq named', Claimed(new) \subseteq named'
  PROVE  Claimed(status') \subseteq named' /\ Claimed(cache'.status) \subseteq named'
<1>1. status \in Status /\ cache.status \in Status
  BY DEF TypeOK, Snapshot
<1>2. status' = MergePatch(status, cache.status, new)
  BY DEF WriteStatus
<1>3. Claimed(status') \subseteq named'
  BY <1>1, <1>2, MergeKeeps DEF ServedInv
<1>4. cache' = cache \/ cache'.status = status'
  BY DEF WriteStatus, Observe
<1>5. QED
  BY <1>3, <1>4 DEF ServedInv

(* A patch that claims nothing the cached status does not. *)
LEMMA PatchServes ==
  ASSUME TypeOK, ServedInv, NEW c \in Condition, NEW g \in Nat, named \subseteq named',
         WriteStatus([cache.status EXCEPT !.ready = c, !.observed = g])
  PROVE  Claimed(status') \subseteq named' /\ Claimed(cache'.status) \subseteq named'
<1> DEFINE new == [cache.status EXCEPT !.ready = c, !.observed = g]
<1>1. cache.status \in Status
  BY DEF TypeOK, Snapshot
<1>2. new \in Status /\ new.own = cache.status.own /\ new.history = cache.status.history
  BY <1>1 DEF Status
<1>3. Claimed(new) \subseteq named'
  BY <1>2, ClaimedOf DEF ServedInv
<1> HIDE DEF new
<1>4. QED
  BY <1>2, <1>3, WriteStatusServes DEF new

LEMMA FailServes ==
  ASSUME TypeOK, ServedInv, NEW kind \in {"Failing", "Waiting", "Stalled"}, Fail(kind),
         UNCHANGED registryVars
  PROVE  ServedInv'
<1>1. Says(kind, None) \in Condition /\ cache.generation \in Nat /\ cache.status \in Status
  BY SaysTypes DEF TypeOK, Snapshot
<1>2. WriteStatus([cache.status EXCEPT !.ready = Says(kind, None), !.observed = cache.generation])
  BY <1>1 DEF Fail, PatchStatus
<1>3. Claimed(status') \subseteq named' /\ Claimed(cache'.status) \subseteq named'
  BY <1>1, <1>2, PatchServes DEF registryVars
<1>4. pc' = "idle" /\ named' = named /\ present' = present
  BY DEF Fail, EndPass, registryVars
<1>5. QED
  BY <1>3, <1>4 DEF ServedInv

LEMMA PassServes == TypeOK /\ ServedInv /\ Pass => ServedInv'
<1> SUFFICES ASSUME TypeOK, ServedInv, Pass PROVE ServedInv'
  OBVIOUS
<1> USE DEF objectVars, passVars, registryVars
<1>1. CASE Begin
  BY <1>1 DEF Begin, ServedInv
<1>2. CASE Backfill
  <2>1. PICK unanswered \in SUBSET Unnamed(obj.status) :
          LET asked  == Unnamed(obj.status) \ unanswered
              tagged == asked \cap present
              gone   == asked \ present
          IN /\ named' = named \cup tagged
             /\ WriteStatus(Mark(cache.status, tagged, gone))
             /\ obj' = [obj EXCEPT !.status = Mark(obj.status, tagged, gone)]
    BY <1>2 DEF Backfill
  <2> DEFINE asked  == Unnamed(obj.status) \ unanswered
             tagged == asked \cap present
             gone   == asked \ present
  <2>2. pc = "backfill" /\ pc' = "resolve" /\ present' = present
    BY <1>2 DEF Backfill
  <2>3. tagged \in SUBSET Manifests /\ tagged \subseteq present
    BY DEF TypeOK, RegistryTypeOK
  <2>4. /\ named' = named \cup tagged
        /\ WriteStatus(Mark(cache.status, tagged, gone))
        /\ obj' = [obj EXCEPT !.status = Mark(obj.status, tagged, gone)]
    BY <2>1
  <2> HIDE DEF tagged, gone
  <2>5. obj \in Snapshot /\ obj.status \in Status /\ cache.status \in Status
    BY <2>2, PassTypes DEF TypeOK, Snapshot
  <2>6. Mark(cache.status, tagged, gone) \in Status /\ Claimed(Mark(cache.status, tagged, gone)) \subseteq named'
    BY <2>3, <2>4, <2>5, MarkKeeps DEF ServedInv
  <2>7. Claimed(status') \subseteq named' /\ Claimed(cache'.status) \subseteq named'
    BY <2>4, <2>6, WriteStatusServes
  <2>8. Claimed(obj'.status) \subseteq named'
    <3>1. obj'.status = Mark(obj.status, tagged, gone)
      BY <2>4, <2>5 DEF Snapshot
    <3>2. QED
      BY <2>2, <2>3, <2>4, <2>5, <3>1, MarkKeeps DEF ServedInv
  <2>9. QED
    BY <2>2, <2>3, <2>4, <2>7, <2>8 DEF ServedInv
<1>3. CASE BackfillUnrecorded
  BY <1>3 DEF BackfillUnrecorded, ServedInv
<1>4. CASE Suspended
  <2>1. Says("Suspended", None) \in Condition /\ cache.generation \in Nat /\ cache.status \in Status
    BY SaysTypes DEF TypeOK, Snapshot
  <2>2. WriteStatus([cache.status EXCEPT !.ready = Says("Suspended", None), !.observed = cache.generation])
    BY <1>4, <2>1 DEF Suspended, PatchStatus
  <2>3. Claimed(status') \subseteq named' /\ Claimed(cache'.status) \subseteq named'
    BY <1>4, <2>1, <2>2, PatchServes DEF Suspended
  <2>4. QED
    BY <1>4, <2>3 DEF Suspended, EndPass, ServedInv
<1>5. CASE Pending
  BY <1>5, FailServes DEF Pending
<1>6. CASE Resolve
  <2>1. pc = "resolve" /\ obj' = obj /\ named' = named /\ present' = present
    BY <1>6 DEF Resolve
  <2>2. CASE /\ obj.status.hash = obj.spec.input
             /\ Matches(seen', obj, obj.status.digest)
             /\ Complete(obj.status)
    <3>1. /\ result' = [digest |-> obj.status.digest, own |-> obj.status.own, record |-> FALSE,
                        conflict |-> None, attested |-> obj.status.attested]
          /\ pc' = "report"
          /\ UNCHANGED <<status, cache>>
      BY <1>6, <2>2 DEF Resolve
    <3>2. obj.status.own \in named \cup {None}
      BY <2>1 DEF ServedInv, Claimed
    <3>3. QED
      BY <2>1, <3>1, <3>2 DEF ServedInv
  <2>3. CASE ~(/\ obj.status.hash = obj.spec.input
               /\ Matches(seen', obj, obj.status.digest)
               /\ Complete(obj.status))
    <3> DEFINE c == Says("Progressing", obj.status.digest)
    <3>1. WriteStatus([cache.status EXCEPT !.ready = c]) /\ pc' = "assemble"
      BY <1>6, <2>3 DEF Resolve
    <3>2. c \in Condition /\ cache.status \in Status
      BY <2>1, SaysTypes, PassTypes DEF TypeOK, Snapshot, Status
    <3> HIDE DEF c
    <3>3. [cache.status EXCEPT !.ready = c] = [cache.status EXCEPT !.ready = c, !.observed = cache.status.observed]
      BY <3>2 DEF Status
    <3>4. Claimed(status') \subseteq named' /\ Claimed(cache'.status) \subseteq named'
      BY <2>1, <3>1, <3>2, <3>3, PatchServes DEF Status
    <3>5. QED
      BY <2>1, <3>1, <3>4 DEF ServedInv
  <2>4. QED
    BY <2>2, <2>3
<1>7. CASE Transient
  BY <1>7, FailServes DEF Transient
<1>8. CASE Converged
  <2>1. result'.own \in named' /\ ~result'.record
    BY <1>8 DEF Converged, PushOwnTag
  <2>2. QED
    BY <1>8, <2>1 DEF Converged, PushOwnTag, ServedInv
<1>9. CASE ConvergedButLost
  BY <1>9, FailServes DEF ConvergedButLost
<1>10. CASE RefuseConflict
  BY <1>10, FailServes DEF RefuseConflict
<1>11. CASE KeepExisting
  <2>1. result'.own = None /\ ~result'.record
    BY <1>11 DEF KeepExisting
  <2>2. QED
    BY <1>11, <2>1 DEF KeepExisting, Refused, ServedInv
<1>12. CASE Write
  BY <1>12 DEF Write, PushDigest, ServedInv
<1>13. CASE WriteTag
  <2>1. named' = named /\ named' \subseteq present'
    BY <1>13, PushTagServes DEF WriteTag, ServedInv
  <2>2. QED
    BY <1>13, <2>1 DEF WriteTag, ServedInv
<1>14. CASE WriteOwnTag
  <2>1. result'.own \in named' /\ result'.digest \in named'
    BY <1>14 DEF WriteOwnTag, PushOwnTag
  <2>2. QED
    BY <1>14, <2>1 DEF WriteOwnTag, PushOwnTag, ServedInv
<1>15. CASE Report
  <2> DEFINE b == [digest |-> result.digest, own |-> TRUE, lost |-> FALSE]
  <2>1. pc = "report" /\ result \in Result /\ cache.status \in Status /\ cache.status.history \in Seq(Build)
    BY <1>15 DEF Report, TypeOK, Snapshot, Status
  <2>2. /\ Reported \in Status /\ WriteStatus(Reported)
        /\ Reported.own = result.own
        /\ Reported.history = IF result.record THEN RecordHistory(cache.status.history, b)
                                               ELSE cache.status.history
    BY <1>15, <2>1, ReportWrites DEF Reported, Status
  <2>3. named' = named /\ present' = present /\ pc' = "idle"
    BY <1>15 DEF Report, EndPass
  <2>4. OwnOf(Reported.history) \subseteq named
    <3>1. CASE ~result.record
      BY <2>2, <3>1 DEF ServedInv, Claimed
    <3>2. CASE result.record
      <4>1. b \in Build /\ b.digest \in named
        BY <2>1, <3>2 DEF Build, Result, ServedInv
      <4>2. OwnOf(Reported.history) \subseteq OwnOf(cache.status.history) \cup {b.digest}
        BY <2>1, <2>2, <3>2, <4>1, RecordHistoryKeeps
      <4>3. QED
        BY <4>1, <4>2 DEF ServedInv, Claimed
    <3>3. QED
      BY <3>1, <3>2
  <2>5. Claimed(Reported) \subseteq named'
    BY <2>1, <2>2, <2>3, <2>4 DEF Claimed, ServedInv
  <2>6. Claimed(status') \subseteq named' /\ Claimed(cache'.status) \subseteq named'
    BY <2>2, <2>3, <2>5, WriteStatusServes
  <2>7. QED
    BY <2>3, <2>6 DEF ServedInv
<1>16. QED
  BY <1>1, <1>2, <1>3, <1>4, <1>5, <1>6, <1>7, <1>8, <1>9, <1>10, <1>11, <1>12, <1>13, <1>14, <1>15 DEF Pass

LEMMA WorldServes ==
  ASSUME NothingExpires, TypeOK, ServedInv, Sync \/ World
  PROVE  ServedInv'
<1> USE DEF objectVars, passVars, registryVars
<1>1. CASE Sync
  BY <1>1 DEF Sync, ServedInv
<1>2. ASSUME Deliver, UNCHANGED <<named, present, status, pc, obj, result>> PROVE ServedInv'
  BY <1>2 DEF Deliver, ServedInv
<1>3. ASSUME NEW s \in Specs, EditSpec(s) PROVE ServedInv'
  BY <1>2, <1>3 DEF EditSpec
<1>4. ASSUME NEW i \in Inputs, MoveSource(i) PROVE ServedInv'
  BY <1>2, <1>4 DEF MoveSource
<1>5. ASSUME NEW d \in Manifests, NEW t \in Tags, ForeignPush(d, t) PROVE ServedInv'
  BY <1>5, PushTagServes DEF ForeignPush, ServedInv
<1>6. CASE Expire
  BY <1>6, NoExpiry
<1>7. CASE ApiError
  BY <1>7 DEF ApiError, EndPass, ServedInv
<1>8. CASE Restart
  BY <1>8 DEF Restart, ServedInv
<1>9. QED
  BY <1>1, <1>3, <1>4, <1>5, <1>6, <1>7, <1>8 DEF World

(* ADR 0060, for every set of tags, specs, statuses and disturbances but expiry: if what the first
   status claims is named and what is named is there, then every digest status ever claims its own
   tag for carries that tag and is served - after any crash, stale read, failed request or foreign
   tag move. *)
THEOREM ClaimsAreServed ==
  ASSUME NothingExpires,
         \A st \in InitStatuses, r \in InitRepositories :
           r.named \subseteq r.present /\ Claimed(st) \subseteq r.named
  PROVE  Spec => []ClaimedIsServed
<1>1. Init => ServedInv
  BY DEF Init, ServedInv
<1>2. TypeOK /\ ServedInv /\ [Next]_vars => ServedInv'
  <2>1. TypeOK /\ ServedInv /\ Next => ServedInv'
    BY PassServes, WorldServes DEF Next
  <2>2. ServedInv /\ UNCHANGED vars => ServedInv'
    BY DEF vars, registryVars, objectVars, passVars, ServedInv
  <2>3. QED
    BY <2>1, <2>2
<1>3. ServedInv => ClaimedIsServed
  BY DEF ServedInv, ClaimedIsServed
<1>4. QED
  BY <1>1, <1>2, <1>3, TypeCorrect, PTL DEF Spec

-----------------------------------------------------------------------------
(***************************************************************************)
(* Tags.  While the pass writes the tags, its policy is Overwrite or no    *)
(* tag it saw conflicts; that was decided when the write began, and        *)
(* nothing the pass reads afterwards changes it.                           *)
(***************************************************************************)

TagsInv ==
  pc = "tags" => \/ obj.spec.policy = "Overwrite"
                 \/ \A u \in TagsOf(obj.spec) : seen.tag[u] \in {None, Built}

LEMMA TagsInvHolds == Spec => []TagsInv
<1>1. Init => TagsInv
  BY DEF Init, TagsInv
<1>2. TagsInv /\ [Next]_vars => TagsInv'
  <2> SUFFICES ASSUME TagsInv, [Next]_vars, pc' = "tags"
               PROVE  \/ obj'.spec.policy = "Overwrite"
                      \/ \A u \in TagsOf(obj'.spec) : seen'.tag[u] \in {None, Built'}
    BY DEF TagsInv
  <2> USE DEF objectVars, passVars
  <2>1. CASE Write
    <3>1. obj' = obj /\ seen' = seen /\ Built' = Built
      BY <2>1 DEF Write, Built
    <3>2. CASE Conflicting(seen, obj, Built) = {}
      BY <3>1, <3>2 DEF Conflicting, TagsOf
    <3>3. QED
      BY <2>1, <3>1, <3>2 DEF Write
  <2>2. CASE pc = "tags" /\ UNCHANGED <<obj, seen>>
    BY <2>2 DEF TagsInv, Built
  <2>3. CASE UNCHANGED vars
    BY <2>2, <2>3 DEF vars
  <2>4. CASE Pass
    BY <2>1, <2>2, <2>4 DEF Pass, Begin, Backfill, BackfillUnrecorded, Suspended, Pending, Resolve, Transient,
       Converged, ConvergedButLost, RefuseConflict, KeepExisting, WriteTag, WriteOwnTag, Report, Fail, EndPass
  <2>5. CASE Sync
    BY <2>2, <2>5 DEF Sync
  <2>6. CASE World
    BY <2>2, <2>6 DEF World, EditSpec, MoveSource, ForeignPush, Expire, ApiError, Restart, EndPass
  <2>7. QED
    BY <2>3, <2>4, <2>5, <2>6 DEF Next
<1>3. QED
  BY <1>1, <1>2, PTL DEF Spec

(* onConflict, for every policy, tag list and interleaving: Fail and Keep never move a tag off
   content the pass itself saw under any of the object's tags. *)
THEOREM OnlyOverwriteMovesTags == Spec => OnlyOverwriteMoves
<1>1. TagsInv /\ [Next]_vars =>
        [\A t \in Tags : Moves(t) => \/ obj.spec.policy = "Overwrite"
                                     \/ \A u \in TagsOf(obj.spec) : seen.tag[u] \in {None, Built}]_vars
  <2> SUFFICES ASSUME TagsInv, Next, NEW t \in Tags, Moves(t)
               PROVE  \/ obj.spec.policy = "Overwrite"
                      \/ \A u \in TagsOf(obj.spec) : seen.tag[u] \in {None, Built}
    OBVIOUS
  <2> USE DEF Moves, objectVars, registryVars
  <2>1. CASE WriteTag
    BY <2>1 DEF WriteTag, TagsInv
  <2>2. CASE UNCHANGED tag
    BY <2>2
  <2>3. CASE UNCHANGED passVars
    BY <2>3
  <2>4. CASE Pass
    BY <2>1, <2>2, <2>4 DEF Pass, Begin, Backfill, BackfillUnrecorded, Suspended, Pending, Resolve, Transient,
       Converged, ConvergedButLost, RefuseConflict, KeepExisting, Write, WriteOwnTag, Report, PushDigest, PushOwnTag
  <2>5. CASE Sync
    BY <2>2, <2>5 DEF Sync
  <2>6. CASE World
    BY <2>2, <2>3, <2>6 DEF World, EditSpec, MoveSource, ForeignPush, Expire, ApiError, Restart
  <2>7. QED
    BY <2>4, <2>5, <2>6 DEF Next
<1>2. QED
  BY <1>1, TagsInvHolds, PTL DEF Spec, OnlyOverwriteMoves

-----------------------------------------------------------------------------
(***************************************************************************)
(* History.  One record per digest, at the API server and in the cache: a  *)
(* patch takes the whole list from one or the other.                       *)
(***************************************************************************)

HistoryInv == OnePerDigest(status.history) /\ OnePerDigest(cache.status.history)

LEMMA WriteStatusUnique ==
  ASSUME TypeOK, HistoryInv, NEW new \in Status, WriteStatus(new), OnePerDigest(new.history)
  PROVE  HistoryInv'
<1>1. status \in Status /\ cache.status \in Status
  BY DEF TypeOK, Snapshot
<1>2. status' = MergePatch(status, cache.status, new)
  BY DEF WriteStatus
<1>3. OnePerDigest(status'.history)
  BY <1>1, <1>2, MergeKeeps DEF HistoryInv
<1>4. cache' = cache \/ cache'.status = status'
  BY DEF WriteStatus, Observe
<1>5. QED
  BY <1>3, <1>4 DEF HistoryInv

LEMMA PatchUnique ==
  ASSUME TypeOK, HistoryInv, NEW c \in Condition, NEW g \in Nat,
         WriteStatus([cache.status EXCEPT !.ready = c, !.observed = g])
  PROVE  HistoryInv'
<1> DEFINE new == [cache.status EXCEPT !.ready = c, !.observed = g]
<1>1. cache.status \in Status
  BY DEF TypeOK, Snapshot
<1>2. new \in Status /\ new.history = cache.status.history
  BY <1>1 DEF Status
<1> HIDE DEF new
<1>3. QED
  BY <1>2, WriteStatusUnique DEF new, HistoryInv

LEMMA FailUnique ==
  ASSUME TypeOK, HistoryInv, NEW kind \in {"Failing", "Waiting", "Stalled", "Suspended"},
         PatchStatus([cache.status EXCEPT !.ready = Says(kind, None)])
  PROVE  HistoryInv'
<1>1. Says(kind, None) \in Condition /\ cache.generation \in Nat /\ cache.status \in Status
  BY SaysTypes DEF TypeOK, Snapshot
<1>2. WriteStatus([cache.status EXCEPT !.ready = Says(kind, None), !.observed = cache.generation])
  BY <1>1 DEF PatchStatus
<1>3. QED
  BY <1>1, <1>2, PatchUnique

LEMMA PassUnique == TypeOK /\ HistoryInv /\ Pass => HistoryInv'
<1> SUFFICES ASSUME TypeOK, HistoryInv, Pass PROVE HistoryInv'
  OBVIOUS
<1> USE DEF objectVars
<1>1. CASE UNCHANGED <<status, cache>>
  BY <1>1 DEF HistoryInv
<1>2. CASE Backfill
  <2>1. PICK tagged, gone : tagged \subseteq present /\ WriteStatus(Mark(cache.status, tagged, gone))
    BY <1>2 DEF Backfill
  <2>2. cache.status \in Status /\ tagged \in SUBSET Manifests
    BY <2>1 DEF TypeOK, RegistryTypeOK, Snapshot
  <2>3. /\ Mark(cache.status, tagged, gone) \in Status
        /\ OnePerDigest(Mark(cache.status, tagged, gone).history)
    BY <2>2, MarkKeeps DEF HistoryInv
  <2>4. QED
    BY <2>1, <2>3, WriteStatusUnique
<1>3. CASE Resolve
  <2>1. CASE UNCHANGED objectVars
    BY <1>1, <2>1
  <2>2. CASE WriteStatus([cache.status EXCEPT !.ready = Says("Progressing", obj.status.digest)])
    <3> DEFINE c == Says("Progressing", obj.status.digest)
    <3>1. c \in Condition /\ cache.status \in Status
      BY <1>3, SaysTypes, PassTypes DEF Resolve, TypeOK, Snapshot, Status
    <3>2. WriteStatus([cache.status EXCEPT !.ready = c])
      BY <2>2
    <3> HIDE DEF c
    <3>3. [cache.status EXCEPT !.ready = c] = [cache.status EXCEPT !.ready = c, !.observed = cache.status.observed]
      BY <3>1 DEF Status
    <3>4. QED
      BY <3>1, <3>2, <3>3, PatchUnique DEF Status
  <2>3. QED
    BY <1>3, <2>1, <2>2 DEF Resolve
<1>4. CASE Report
  <2> DEFINE h == cache.status.history
             b == [digest |-> result.digest, own |-> TRUE, lost |-> FALSE]
  <2>1. Reported \in Status /\ WriteStatus(Reported)
    BY <1>4, ReportWrites
  <2>2. h \in Seq(Build) /\ b \in Build /\ cache.status \in Status
    BY <1>4 DEF Report, TypeOK, Snapshot, Status, Result, Build
  <2>3. Reported.history = IF result.record THEN RecordHistory(h, b) ELSE h
    BY <2>2 DEF Reported, Status
  <2>4. OnePerDigest(h)
    BY DEF HistoryInv
  <2> HIDE DEF h, b
  <2>5. OnePerDigest(Reported.history)
    BY <2>2, <2>3, <2>4, RecordHistoryKeeps
  <2>6. QED
    BY <2>1, <2>5, WriteStatusUnique
<1>5. CASE Suspended
  BY <1>5, FailUnique DEF Suspended
<1>6. CASE Pending
  BY <1>6, FailUnique DEF Pending, Fail
<1>7. CASE Transient
  BY <1>7, FailUnique DEF Transient, Fail
<1>8. CASE ConvergedButLost
  BY <1>8, FailUnique DEF ConvergedButLost, Fail
<1>9. CASE RefuseConflict
  BY <1>9, FailUnique DEF RefuseConflict, Fail
<1>10. QED
  BY <1>1, <1>2, <1>3, <1>4, <1>5, <1>6, <1>7, <1>8, <1>9
     DEF Pass, Begin, BackfillUnrecorded, Converged, KeepExisting, Write, WriteTag, WriteOwnTag

(* However many builds are recorded, reproduced, evicted and recorded on a stale list, the history
   names each digest once: a limit of n retains n distinct images. *)
THEOREM HistoryIsUnique ==
  ASSUME \A st \in InitStatuses : OnePerDigest(st.history)
  PROVE  Spec => []UniqueHistory
<1>1. Init => HistoryInv
  BY DEF Init, HistoryInv
<1>2. TypeOK /\ HistoryInv /\ [Next]_vars => HistoryInv'
  <2> SUFFICES ASSUME TypeOK, HistoryInv, [Next]_vars PROVE HistoryInv'
    OBVIOUS
  <2> USE DEF objectVars
  <2>1. CASE UNCHANGED <<status, cache>>
    BY <2>1 DEF HistoryInv
  <2>2. CASE status' = status /\ cache'.status = status
    BY <2>2 DEF HistoryInv
  <2>3. CASE Pass
    BY <2>3, PassUnique
  <2>4. CASE Sync \/ Restart
    BY <2>2, <2>4 DEF Sync, Restart
  <2>5. CASE (\E s \in Specs : EditSpec(s)) \/ (\E i \in Inputs : MoveSource(i))
    BY <2>1, <2>2, <2>5 DEF EditSpec, MoveSource, Deliver
  <2>6. CASE (\E d \in Manifests, t \in Tags : ForeignPush(d, t)) \/ Expire \/ ApiError
    BY <2>1, <2>6 DEF ForeignPush, Expire, ApiError
  <2>7. CASE UNCHANGED vars
    BY <2>1, <2>7 DEF vars
  <2>8. QED
    BY <2>3, <2>4, <2>5, <2>6, <2>7 DEF Next, World
<1>3. HistoryInv => UniqueHistory
  BY DEF HistoryInv, UniqueHistory
<1>4. QED
  BY <1>1, <1>2, <1>3, TypeCorrect, PTL DEF Spec

-----------------------------------------------------------------------------
(***************************************************************************)
(* Where the cache does not lag.  A pass then patches the status it read   *)
(* from: what it computes is what status becomes.                          *)
(***************************************************************************)

Current == cache = [spec |-> spec, generation |-> generation, status |-> status]

LEMMA FreshWrite ==
  ASSUME ~CacheLag, TypeOK, Current, NEW new \in Status, WriteStatus(new)
  PROVE  status' = new /\ Current' /\ UNCHANGED <<spec, generation>>
<1>1. cache.status = status /\ status \in Status
  BY DEF Current, TypeOK
<1>2. status' = MergePatch(status, status, new)
  BY <1>1 DEF WriteStatus
<1>3. MergePatch(status, status, new) = new
  BY <1>1 DEF MergePatch, Merge, Status
<1>4. UNCHANGED <<spec, generation>>
  BY DEF WriteStatus
<1>5. cache' = [spec |-> spec, generation |-> generation, status |-> status']
  BY DEF WriteStatus, Observe
<1>6. QED
  BY <1>2, <1>3, <1>4, <1>5 DEF Current

(* A patch of the conditions leaves everything else of status as it was. *)
LEMMA FreshPatch ==
  ASSUME ~CacheLag, TypeOK, Current, NEW c \in Condition, NEW g \in Nat,
         WriteStatus([cache.status EXCEPT !.ready = c, !.observed = g])
  PROVE  /\ status' = [status EXCEPT !.ready = c, !.observed = g]
         /\ Current' /\ UNCHANGED <<spec, generation>>
<1>1. cache.status = status /\ status \in Status
  BY DEF Current, TypeOK
<1>2. [status EXCEPT !.ready = c, !.observed = g] \in Status
  BY <1>1 DEF Status
<1>3. QED
  BY <1>1, <1>2, FreshWrite

LEMMA FreshFail ==
  ASSUME ~CacheLag, TypeOK, Current,
         NEW kind \in {"Failing", "Waiting", "Stalled", "Suspended"},
         PatchStatus([cache.status EXCEPT !.ready = Says(kind, None)])
  PROVE  /\ status' = [status EXCEPT !.ready = Says(kind, None), !.observed = generation]
         /\ Current' /\ UNCHANGED <<spec, generation>>
<1>1. Says(kind, None) \in Condition /\ cache.generation \in Nat /\ cache.status \in Status
  BY SaysTypes DEF TypeOK, Snapshot
<1>2. WriteStatus([cache.status EXCEPT !.ready = Says(kind, None), !.observed = cache.generation])
  BY <1>1 DEF PatchStatus
<1>3. cache.generation = generation
  BY DEF Current
<1>4. QED
  BY <1>1, <1>2, <1>3, FreshPatch

(* The progress report of a pass that goes on to assemble. *)
LEMMA FreshProgress ==
  ASSUME ~CacheLag, TypeOK, Current, pc # "idle",
         WriteStatus([cache.status EXCEPT !.ready = Says("Progressing", obj.status.digest)])
  PROVE  /\ status' = [status EXCEPT !.ready = Says("Progressing", obj.status.digest)]
         /\ Current' /\ UNCHANGED <<spec, generation>>
<1> DEFINE c == Says("Progressing", obj.status.digest)
<1>1. c \in Condition
  BY SaysTypes, PassTypes DEF Status
<1>2. cache.status = status /\ status \in Status
  BY DEF Current, TypeOK
<1> HIDE DEF c
<1>3. [status EXCEPT !.ready = c] \in Status
  BY <1>1, <1>2 DEF Status
<1>4. QED
  BY <1>2, <1>3, FreshWrite DEF c

LEMMA FreshReport ==
  ASSUME ~CacheLag, TypeOK, Current, Report
  PROVE  status' = Reported /\ Current' /\ UNCHANGED <<spec, generation>>
BY ReportWrites, FreshWrite

(* What a backfill learned, and where it is recorded. *)
LEMMA BackfillSays ==
  ASSUME TypeOK, Backfill
  PROVE  \E unanswered \in SUBSET Unnamed(obj.status) :
           LET asked  == Unnamed(obj.status) \ unanswered
               tagged == asked \cap present
               gone   == asked \ present
           IN /\ tagged \in SUBSET Manifests
              /\ Mark(cache.status, tagged, gone) \in Status
              /\ WriteStatus(Mark(cache.status, tagged, gone))
              /\ obj' = [obj EXCEPT !.status = Mark(obj.status, tagged, gone)]
              /\ obj'.spec = obj.spec
              /\ obj'.status = Mark(obj.status, tagged, gone)
<1>1. PICK unanswered \in SUBSET Unnamed(obj.status) :
        LET asked  == Unnamed(obj.status) \ unanswered
            tagged == asked \cap present
            gone   == asked \ present
        IN /\ WriteStatus(Mark(cache.status, tagged, gone))
           /\ obj' = [obj EXCEPT !.status = Mark(obj.status, tagged, gone)]
  BY DEF Backfill
<1> DEFINE asked  == Unnamed(obj.status) \ unanswered
           tagged == asked \cap present
           gone   == asked \ present
<1>2. obj \in Snapshot /\ cache.status \in Status
  BY PassTypes DEF Backfill, TypeOK, Snapshot
<1>3. tagged \in SUBSET Manifests
  BY DEF TypeOK, RegistryTypeOK
<1>4. Mark(cache.status, tagged, gone) \in Status
  BY <1>2, <1>3, MarkKeeps
<1>5. obj'.spec = obj.spec /\ obj'.status = Mark(obj.status, tagged, gone)
  BY <1>1, <1>2 DEF Snapshot
<1>6. QED
  BY <1>1, <1>3, <1>4, <1>5

LEMMA DeliverCurrent ==
  ASSUME ~CacheLag, Deliver, status' = status
  PROVE  Current'
BY DEF Deliver, Current

(* Without lag the cache is the object, whatever else happens. *)
LEMMA CurrentAlways ==
  ASSUME ~CacheLag
  PROVE  Spec => []Current
<1>1. Init => Current
  BY DEF Init, Current
<1>2. TypeOK /\ Current /\ [Next]_vars => Current'
  <2> SUFFICES ASSUME TypeOK, Current, [Next]_vars PROVE Current'
    OBVIOUS
  <2> USE DEF objectVars
  <2>1. CASE UNCHANGED objectVars
    BY <2>1 DEF Current
  <2>2. CASE Backfill
    BY <2>2, BackfillSays, FreshWrite
  <2>3. CASE Resolve
    <3>1. CASE WriteStatus([cache.status EXCEPT !.ready = Says("Progressing", obj.status.digest)])
      BY <2>3, <3>1, FreshProgress DEF Resolve
    <3>2. QED
      BY <2>1, <2>3, <3>1 DEF Resolve
  <2>4. CASE Suspended
    BY <2>4, FreshFail DEF Suspended
  <2>5. CASE Pending \/ Transient \/ ConvergedButLost \/ RefuseConflict
    BY <2>5, FreshFail DEF Pending, Transient, ConvergedButLost, RefuseConflict, Fail
  <2>6. CASE Report
    BY <2>6, FreshReport
  <2>7. CASE Sync \/ Restart
    BY <2>7 DEF Sync, Restart, Current
  <2>8. CASE (\E s \in Specs : EditSpec(s)) \/ (\E i \in Inputs : MoveSource(i))
    BY <2>8, DeliverCurrent DEF EditSpec, MoveSource
  <2>9. CASE (\E d \in Manifests, t \in Tags : ForeignPush(d, t)) \/ Expire \/ ApiError
    BY <2>1, <2>9 DEF ForeignPush, Expire, ApiError
  <2>10. CASE Pass
    BY <2>1, <2>2, <2>3, <2>4, <2>5, <2>6, <2>10
       DEF Pass, Begin, BackfillUnrecorded, Converged, KeepExisting, Write, WriteTag, WriteOwnTag
  <2>11. CASE UNCHANGED vars
    BY <2>1, <2>11 DEF vars
  <2>12. QED
    BY <2>7, <2>8, <2>9, <2>10, <2>11 DEF Next, World
<1>3. QED
  BY <1>1, <1>2, TypeCorrect, PTL DEF Spec

(* What marking leaves of a status: all but the own tag of its artifact, and its history. *)
LEMMA MarkFields ==
  ASSUME NEW st \in Status, NEW tagged, NEW gone
  PROVE  LET m == Mark(st, tagged, gone)
         IN /\ m.digest = st.digest /\ m.hash = st.hash /\ m.conflict = st.conflict
            /\ m.attested = st.attested /\ m.ready = st.ready /\ m.observed = st.observed
            /\ m.own \in {st.digest, st.own}
            /\ m.history = [i \in DOMAIN st.history |-> MarkBuild(st.history[i], st.digest, tagged, gone)]
BY DEF Mark, Status

(* A step that touches the history marks it or records a build on it. *)
LEMMA HistoryStep ==
  ASSUME ~CacheLag, TypeOK, Current, Next
  PROVE  \/ status'.history = status.history
         \/ \E tagged, gone :
              /\ gone \cap present = {}
              /\ status'.history = [i \in DOMAIN status.history |->
                                      MarkBuild(status.history[i], status.digest, tagged, gone)]
         \/ \E b \in Build : ~b.lost /\ status'.history = RecordHistory(status.history, b)
<1> USE DEF objectVars
<1>t. status \in Status /\ cache.status = status
  BY DEF TypeOK, Current
<1>1. CASE status' = status
  BY <1>1
<1>2. CASE Backfill
  <2>1. PICK tagged, gone :
          /\ gone \cap present = {}
          /\ Mark(cache.status, tagged, gone) \in Status
          /\ WriteStatus(Mark(cache.status, tagged, gone))
    BY <1>2, BackfillSays
  <2>2. status' = Mark(status, tagged, gone)
    BY <1>t, <2>1, FreshWrite
  <2>3. status'.history = [i \in DOMAIN status.history |->
                             MarkBuild(status.history[i], status.digest, tagged, gone)]
    BY <1>t, <2>2, MarkFields
  <2>4. QED
    BY <2>1, <2>3
<1>3. CASE Resolve
  <2>1. CASE WriteStatus([cache.status EXCEPT !.ready = Says("Progressing", obj.status.digest)])
    BY <1>3, <1>t, <2>1, FreshProgress DEF Resolve, Status
  <2>2. QED
    BY <1>1, <1>3, <2>1 DEF Resolve
<1>4. CASE Suspended \/ Pending \/ Transient \/ ConvergedButLost \/ RefuseConflict
  <2>1. PICK kind \in {"Failing", "Waiting", "Stalled", "Suspended"} :
          PatchStatus([cache.status EXCEPT !.ready = Says(kind, None)])
    BY <1>4 DEF Suspended, Pending, Transient, ConvergedButLost, RefuseConflict, Fail
  <2>2. status' = [status EXCEPT !.ready = Says(kind, None), !.observed = generation]
    BY <2>1, FreshFail
  <2>3. QED
    BY <1>t, <2>2 DEF Status
<1>5. CASE Report
  <2> DEFINE b == [digest |-> result.digest, own |-> TRUE, lost |-> FALSE]
  <2>1. status' = Reported
    BY <1>5, FreshReport
  <2>2. Reported.history = IF result.record THEN RecordHistory(status.history, b) ELSE status.history
    BY <1>t DEF Reported, Status
  <2>3. b \in Build /\ ~b.lost
    BY <1>5 DEF Report, TypeOK, Result, Build
  <2> HIDE DEF b
  <2>4. QED
    BY <2>1, <2>2, <2>3
<1>6. CASE Pass
  BY <1>1, <1>2, <1>3, <1>4, <1>5, <1>6
     DEF Pass, Begin, BackfillUnrecorded, Converged, KeepExisting, Write, WriteTag, WriteOwnTag
<1>7. CASE Sync \/ World
  BY <1>1, <1>7 DEF Sync, World, EditSpec, MoveSource, ForeignPush, Expire, ApiError, Restart
<1>8. QED
  BY <1>6, <1>7 DEF Next

(* A record of d in the first places of a list is in the list of these places. *)
LEMMA ListedBefore ==
  ASSUME NEW h, NEW d, NEW n \in Nat, NEW p \in 1 .. n, h[p].digest = d
  PROVE  Listed(SubSeq(h, 1, n), d)
BY DEF Listed

(* ADR 0031, for every limit and every interleaving of passes, edits and failures with a current
   cache: history stays newest first, and what leaves it is pushed off its end by a full limit. *)
THEOREM HistoryLosesOnlyToTheLimit ==
  ASSUME ~CacheLag
  PROVE  Spec => HistoryOnlyEvicts
<1> DEFINE old == status.history
           new == status'.history
           Full == \A k \in DOMAIN old : Listed(new, old[k].digest) \/ Len(new) = Limit
           Follows(q, k) == /\ new[q].digest = old[k].digest
                            /\ \A j \in 1..(k - 1) : Listed(SubSeq(new, 1, q - 1), old[j].digest)
           Ordered == \A q \in DOMAIN new \ {1} : \E k \in DOMAIN old : Follows(q, k)
<1>1. TypeOK /\ Current /\ [Next]_vars => [Full /\ Ordered]_vars
  <2> SUFFICES ASSUME TypeOK, Current, Next PROVE Full /\ Ordered
    OBVIOUS
  <2>1. old \in Seq(Build)
    BY DEF TypeOK, Status
  <2>2. ASSUME DOMAIN new = DOMAIN old, \A k \in DOMAIN old : new[k].digest = old[k].digest
        PROVE  Full /\ Ordered
    <3>1. Full
      BY <2>2 DEF Listed
    <3>2. ASSUME NEW q \in DOMAIN new PROVE Follows(q, q)
      <4>1. q \in 1 .. Len(old) /\ Len(old) \in Nat
        BY <2>1, <2>2, <3>2, LenProperties
      <4>2. ASSUME NEW j \in 1 .. (q - 1)
            PROVE  j \in DOMAIN old /\ new[j].digest = old[j].digest
        BY <2>1, <2>2, <4>1, LenProperties
      <4>3. \A j \in 1 .. (q - 1) : Listed(SubSeq(new, 1, q - 1), old[j].digest)
        BY <4>1, <4>2, ListedBefore
      <4>4. QED
        BY <2>2, <3>2, <4>3
    <3> HIDE DEF Follows
    <3>3. QED
      BY <2>2, <3>1, <3>2
  <2>3. CASE new = old
    BY <2>2, <2>3
  <2>4. ASSUME NEW tagged, NEW gone,
               new = [i \in DOMAIN old |-> MarkBuild(old[i], status.digest, tagged, gone)]
        PROVE  Full /\ Ordered
    <3>1. \A i \in DOMAIN old : old[i] \in Build
      BY <2>1, ElementOfSeq, LenProperties
    <3>2. \A c \in Build : MarkBuild(c, status.digest, tagged, gone).digest = c.digest
      BY DEF MarkBuild, Build
    <3>3. /\ DOMAIN new = DOMAIN old
          /\ \A i \in DOMAIN old : new[i] = MarkBuild(old[i], status.digest, tagged, gone)
      BY <2>4
    <3>4. \A i \in DOMAIN old : new[i].digest = old[i].digest
      BY <3>1, <3>2, <3>3
    <3> HIDE DEF old, new, Full, Ordered
    <3>5. QED
      BY <2>2, <3>3, <3>4
  <2>5. ASSUME NEW b \in Build, new = RecordHistory(old, b)
        PROVE  Full /\ Ordered
    <3> DEFINE R == RecordHistory(old, b)
    <3> HIDE DEF old, new
    <3>r. /\ R \in Seq(Build)
          /\ Len(R) = Limit \/ \A j \in DOMAIN old : \E i \in DOMAIN R : R[i].digest = old[j].digest
          /\ \A q \in DOMAIN R \ {1} : \E k \in DOMAIN old :
               /\ R[q] = old[k]
               /\ \A l \in 1 .. (k - 1) : \E p \in 1 .. (q - 1) : R[p].digest = old[l].digest
      BY ONLY <2>1, b \in Build, RecordHistoryKeeps
    <3>1. /\ new \in Seq(Build)
          /\ Len(new) = Limit \/ \A j \in DOMAIN old : \E i \in DOMAIN new : new[i].digest = old[j].digest
          /\ \A q \in DOMAIN new \ {1} : \E k \in DOMAIN old :
               /\ new[q] = old[k]
               /\ \A l \in 1 .. (k - 1) : \E p \in 1 .. (q - 1) : new[p].digest = old[l].digest
      BY ONLY <3>r, <2>5
    <3>2. Full
      BY <3>1 DEF Listed
    <3>3. ASSUME NEW q \in DOMAIN new \ {1}
          PROVE  \E k \in DOMAIN old : Follows(q, k)
      <4>1. PICK k \in DOMAIN old :
              /\ new[q] = old[k]
              /\ \A l \in 1 .. (k - 1) : \E p \in 1 .. (q - 1) : new[p].digest = old[l].digest
        BY <3>1
      <4>2. q \in Nat /\ q >= 1
        BY <3>1, LenProperties
      <4>3. \A j \in 1 .. (k - 1) : Listed(SubSeq(new, 1, q - 1), old[j].digest)
        BY <4>1, <4>2, ListedBefore
      <4>4. QED
        BY <4>1, <4>3
    <3>4. QED
      BY <3>2, <3>3
  <2> HIDE DEF Full, Ordered
  <2>6. CASE \E tagged, gone :
               /\ gone \cap present = {}
               /\ status'.history = [i \in DOMAIN status.history |->
                                       MarkBuild(status.history[i], status.digest, tagged, gone)]
    BY <2>4, <2>6
  <2>7. CASE \E b \in Build : ~b.lost /\ status'.history = RecordHistory(status.history, b)
    BY <2>5, <2>7
  <2>8. QED
    BY <2>3, <2>6, <2>7, HistoryStep
<1>2. QED
  BY <1>1, TypeCorrect, CurrentAlways, PTL DEF Spec, HistoryOnlyEvicts

(* ADR 0060 on history, for every registry and every interleaving with a current cache: an entry is
   retired only for a digest the registry does not have, and never the current one. *)
THEOREM RetiredAreGone ==
  ASSUME ~CacheLag, \A st \in InitStatuses : OnePerDigest(st.history)
  PROVE  Spec => OnlyLossRetires
<1> DEFINE Loss ==
      \A i \in DOMAIN status'.history :
        LET b == status'.history[i]
        IN /\ b.lost
           /\ \E j \in DOMAIN status.history : status.history[j].digest = b.digest /\ ~status.history[j].lost
           => b.digest \notin present /\ b.digest # status.digest
<1>1. TypeOK /\ Current /\ UniqueHistory /\ [Next]_vars => [Loss]_vars
  <2> SUFFICES ASSUME TypeOK, Current, OnePerDigest(status.history), Next,
                      NEW i \in DOMAIN status'.history, status'.history[i].lost,
                      NEW j \in DOMAIN status.history,
                      status.history[j].digest = status'.history[i].digest, ~status.history[j].lost
               PROVE  status'.history[i].digest \notin present /\ status'.history[i].digest # status.digest
    BY DEF UniqueHistory
  <2> DEFINE h == status.history
  <2>1. h \in Seq(Build) /\ \A k \in DOMAIN h : h[k] \in Build
    BY ElementOfSeq, LenProperties DEF TypeOK, Status
  <2>2. \A k \in DOMAIN h : status'.history[i] # h[k]
    BY DEF OnePerDigest
  <2>3. status'.history # h
    BY <2>2
  <2>4. ASSUME NEW b \in Build, ~b.lost, status'.history = RecordHistory(h, b)
        PROVE  FALSE
    <3> HIDE DEF h
    <3>1. status'.history[i] = b \/ \E k \in DOMAIN h : status'.history[i] = h[k]
      BY <2>1, <2>4, RecordHistoryKeeps
    <3>2. QED
      BY <2>2, <2>4, <3>1
  <2>5. ASSUME NEW tagged, NEW gone, gone \cap present = {},
               status'.history = [k \in DOMAIN h |-> MarkBuild(h[k], status.digest, tagged, gone)]
        PROVE  status'.history[i].digest \notin present /\ status'.history[i].digest # status.digest
    <3>1. i \in DOMAIN h /\ status'.history[i] = MarkBuild(h[i], status.digest, tagged, gone) /\ h[i] \in Build
      BY <2>1, <2>5
    <3>2. NeedsDigestTag(h[i])
      BY <2>2, <3>1 DEF MarkBuild
    <3>3. /\ status'.history[i].digest = h[i].digest
          /\ status'.history[i].lost = (h[i].digest \in gone /\ h[i].digest # status.digest)
      BY <3>1, <3>2 DEF MarkBuild, Build
    <3>4. h[i].digest \in gone /\ h[i].digest # status.digest
      BY <3>3
    <3>5. QED
      BY <2>5, <3>3, <3>4
  <2>6. ~ \E b \in Build : ~b.lost /\ status'.history = RecordHistory(h, b)
    BY <2>4
  <2>7. PICK tagged, gone :
          /\ gone \cap present = {}
          /\ status'.history = [k \in DOMAIN h |-> MarkBuild(h[k], status.digest, tagged, gone)]
    BY <2>3, <2>6, HistoryStep
  <2>8. QED
    BY <2>5, <2>7
<1>2. QED
  BY <1>1, TypeCorrect, CurrentAlways, HistoryIsUnique, PTL DEF Spec, OnlyLossRetires

-----------------------------------------------------------------------------
(***************************************************************************)
(* Conflicts.  A conflict is withdrawn by a report that has none.  Such a  *)
(* report was decided on two steps back, where the pass compared the tags, *)
(* or wrote them all; nothing since changes what it saw or was given.      *)
(***************************************************************************)

(* What is kept is reported with a conflict, and unattested. *)
LEMMA KeptConflicts ==
  ASSUME TypeOK, KeepExisting
  PROVE  result'.digest \in Manifests /\ result'.attested = None /\ result'.conflict \in Conflict
<1>1. obj.spec \in SpecType /\ Built \in Manifests /\ seen \in Seen
  BY PassTypes DEF KeepExisting, Refused, TypeOK
<1>2. PICK i \in Conflicting(seen, obj, Built) :
        result' = [digest |-> seen.tag[obj.spec.tags[i]], own |-> None, record |-> FALSE, attested |-> None,
                   conflict |-> [tag |-> obj.spec.tags[i], existing |-> seen.tag[obj.spec.tags[i]],
                                 dropped |-> Built]]
  BY DEF KeepExisting
<1> DEFINE t == obj.spec.tags[i]
<1>3. i \in DOMAIN obj.spec.tags /\ seen.tag[t] # None
  BY <1>2 DEF Conflicting
<1>4. t \in Tags
  BY <1>1, <1>3, ElementOfSeq, LenProperties DEF SpecType
<1>5. seen.tag[t] \in Manifests
  BY <1>1, <1>3, <1>4 DEF Seen
<1> HIDE DEF t
<1>6. QED
  BY <1>1, <1>2, <1>4, <1>5 DEF Conflict, t

Agreement(r) ==
  /\ r.record \/ \A t \in TagsOf(obj.spec) : seen.tag[t] = r.digest
  /\ r.digest = Built \/ obj.status.hash = obj.spec.input

AgreementInv == pc = "report" /\ result.conflict = None => Agreement(result)

LEMMA AgreementHolds == Spec => []AgreementInv
<1>1. Init => AgreementInv
  BY DEF Init, AgreementInv
<1>2. TypeOK /\ AgreementInv /\ [Next]_vars => AgreementInv'
  <2> SUFFICES ASSUME TypeOK, AgreementInv, [Next]_vars, pc' = "report", result'.conflict = None
               PROVE  Agreement(result)'
    BY DEF AgreementInv
  <2> USE DEF objectVars, passVars
  <2>1. CASE pc = "report" /\ UNCHANGED passVars
    BY <2>1 DEF AgreementInv, Agreement, Built
  <2>2. CASE Resolve
    <3>1. /\ obj' = obj /\ obj.status.hash = obj.spec.input
          /\ Matches(seen', obj, obj.status.digest) /\ result'.digest = obj.status.digest
      BY <2>2 DEF Resolve
    <3>2. QED
      BY <3>1 DEF Agreement, Matches
  <2>3. CASE Converged
    <3>1. obj' = obj /\ seen' = seen /\ Matches(seen, obj, Built) /\ result'.digest = Built
      BY <2>3 DEF Converged
    <3>2. QED
      BY <3>1 DEF Agreement, Matches, Built
  <2>4. CASE WriteOwnTag
    BY <2>4 DEF WriteOwnTag, Agreement, Built
  <2>5. CASE KeepExisting
    BY <2>5, KeptConflicts, AbsenceAssumption
  <2>6. CASE Pass
    BY <2>2, <2>3, <2>4, <2>5, <2>6 DEF Pass, Begin, Backfill, BackfillUnrecorded, Suspended, Pending, Transient,
       ConvergedButLost, RefuseConflict, Refused, Write, WriteTag, Report, Fail, EndPass
  <2>7. CASE Sync
    BY <2>1, <2>7 DEF Sync
  <2>8. CASE World
    BY <2>1, <2>8 DEF World, EditSpec, MoveSource, ForeignPush, Expire, ApiError, Restart, EndPass
  <2>9. CASE UNCHANGED vars
    BY <2>1, <2>9 DEF vars
  <2>10. QED
    BY <2>6, <2>7, <2>8, <2>9 DEF Next
<1>3. QED
  BY <1>1, <1>2, TypeCorrect, PTL DEF Spec

(* A patch leaves the conflict at the API server alone, or writes the one it was given. *)
LEMMA ConflictPatched ==
  ASSUME NEW new, WriteStatus(new)
  PROVE  /\ status'.conflict \in {status.conflict, new.conflict}
         /\ new.conflict = cache.status.conflict => status'.conflict = status.conflict
BY DEF WriteStatus, MergePatch, Merge

(* Only a report without a conflict withdraws the one on record. *)
LEMMA ReportWithdraws ==
  ASSUME TypeOK, Next, status.conflict # None, status'.conflict = None
  PROVE  pc = "report" /\ result.conflict = None
<1> USE DEF objectVars
<1>t. cache.status \in Status
  BY DEF TypeOK, Snapshot
<1>1. status' # status
  OBVIOUS
<1>2. ASSUME NEW new, WriteStatus(new), new.conflict = cache.status.conflict PROVE FALSE
  BY <1>2, ConflictPatched
<1>3. CASE Backfill
  <2>1. PICK tagged, gone : WriteStatus(Mark(cache.status, tagged, gone))
    BY <1>3, BackfillSays
  <2>2. Mark(cache.status, tagged, gone).conflict = cache.status.conflict
    BY <1>t DEF Mark, Status
  <2>3. QED
    BY <1>2, <2>1, <2>2
<1>4. CASE Resolve
  <2>1. [cache.status EXCEPT !.ready = Says("Progressing", obj.status.digest)].conflict = cache.status.conflict
    BY <1>t DEF Status
  <2>2. QED
    BY <1>1, <1>2, <1>4, <2>1 DEF Resolve
<1>5. CASE Suspended \/ Pending \/ Transient \/ ConvergedButLost \/ RefuseConflict
  <2>1. PICK kind \in {"Failing", "Waiting", "Stalled", "Suspended"} :
          PatchStatus([cache.status EXCEPT !.ready = Says(kind, None)])
    BY <1>5 DEF Suspended, Pending, Transient, ConvergedButLost, RefuseConflict, Fail
  <2> DEFINE new == [[cache.status EXCEPT !.ready = Says(kind, None)] EXCEPT !.observed = cache.generation]
  <2>2. WriteStatus(new)
    BY <2>1 DEF PatchStatus
  <2>3. new.conflict = cache.status.conflict
    BY <1>t DEF Status
  <2> HIDE DEF new
  <2>4. QED
    BY <1>2, <2>2, <2>3
<1>6. CASE Report
  <2>1. WriteStatus(Reported) /\ pc = "report"
    BY <1>6, ReportWrites DEF Report
  <2>2. Reported.conflict = result.conflict
    BY <1>t DEF Reported, Status
  <2>3. QED
    BY <2>1, <2>2, ConflictPatched
<1>7. CASE Pass
  BY <1>1, <1>3, <1>4, <1>5, <1>6, <1>7
     DEF Pass, Begin, BackfillUnrecorded, Converged, KeepExisting, Write, WriteTag, WriteOwnTag
<1>8. CASE Sync \/ World
  BY <1>1, <1>8 DEF Sync, World, EditSpec, MoveSource, ForeignPush, Expire, ApiError, Restart
<1>9. QED
  BY <1>7, <1>8 DEF Next

(* Keep, for every policy it is mixed with, every attestation setting, cache lag and disturbance: no
   pass withdraws a conflict on record without having written every tag or found them all to agree. *)
THEOREM ConflictsEndInAgreement == Spec => ConflictEndsInAgreement
<1>1. TypeOK /\ AgreementInv /\ [Next]_vars =>
        [status.conflict # None /\ status'.conflict = None =>
           /\ result.record \/ \A t \in TagsOf(obj.spec) : seen.tag[t] = result.digest
           /\ result.digest = Built \/ obj.status.hash = obj.spec.input]_vars
  BY ReportWithdraws DEF AgreementInv, Agreement
<1>2. QED
  BY <1>1, TypeCorrect, AgreementHolds, PTL DEF Spec, ConflictEndsInAgreement

-----------------------------------------------------------------------------
(***************************************************************************)
(* What status says of its inputs: the cheap path reports what the object  *)
(* recorded earlier, so where Ready is to mean published a record that may *)
(* take it - no conflict, or fully attested - has to name what its inputs  *)
(* assemble to, in status, in the object the pass read and in the pass's   *)
(* result.  A kept tag is what breaks it unless what is published is       *)
(* attested, because what is kept never is.                                *)
(***************************************************************************)

Accurate(r, i) == r.conflict = None \/ Complete(r) => r.digest = Output[i]

AccurateStatus(st) == st.hash # None => Accurate(st, st.hash)

KeepAttested(s) == AttestEnabled \/ s.policy # "Keep"

RecordInv ==
  /\ KeepAttested(spec)
  /\ AccurateStatus(status)
  /\ pc # "idle" => KeepAttested(obj.spec) /\ AccurateStatus(obj.status)
  /\ pc = "report" => Accurate(result, obj.spec.input)

(* Accurate looks at four fields alone, and marking touches none of them. *)
LEMMA SameRecord ==
  ASSUME NEW st, NEW new,
         new.digest = st.digest, new.hash = st.hash, new.conflict = st.conflict, new.attested = st.attested,
         AccurateStatus(st)
  PROVE  AccurateStatus(new)
BY DEF AccurateStatus, Accurate, Complete

LEMMA MarkedRecord ==
  ASSUME NEW st \in Status, NEW tagged, NEW gone, AccurateStatus(st)
  PROVE  AccurateStatus(Mark(st, tagged, gone))
<1> DEFINE m == Mark(st, tagged, gone)
<1>1. m.digest = st.digest /\ m.hash = st.hash /\ m.conflict = st.conflict /\ m.attested = st.attested
  BY DEF Mark, Status
<1> HIDE DEF m
<1>2. AccurateStatus(m)
  BY <1>1, SameRecord
<1>3. QED
  BY <1>2 DEF m

(* What is kept is no record: it is reported with a conflict, and would have to be attested. *)
LEMMA KeptIsNoRecord ==
  ASSUME TypeOK, RecordInv, KeepExisting
  PROVE  result'.conflict # None /\ ~Complete(result')
<1>1. AttestEnabled
  BY DEF KeepExisting, Refused, RecordInv, KeepAttested
<1>2. QED
  BY <1>1, KeptConflicts, NoneAssumption, AbsenceAssumption DEF Complete

LEMMA FailRecords ==
  ASSUME ~CacheLag, TypeOK, Current, RecordInv,
         NEW kind \in {"Failing", "Waiting", "Stalled", "Suspended"},
         PatchStatus([cache.status EXCEPT !.ready = Says(kind, None)]), pc' = "idle"
  PROVE  RecordInv'
<1>1. /\ status' = [status EXCEPT !.ready = Says(kind, None), !.observed = generation]
      /\ spec' = spec /\ status \in Status
  BY FreshFail DEF TypeOK
<1>2. AccurateStatus(status')
  BY <1>1, SameRecord DEF RecordInv, Status
<1>3. QED
  BY <1>1, <1>2 DEF RecordInv

LEMMA PassRecords ==
  ASSUME ~CacheLag, TypeOK, Current, RecordInv, Pass
  PROVE  RecordInv'
<1> USE DEF objectVars, passVars
<1>t. status \in Status /\ cache.status = status /\ cache.spec = spec
  BY DEF TypeOK, Current
<1>1. CASE Begin
  BY <1>1, <1>t DEF Begin, RecordInv
<1>2. CASE Backfill
  <2>1. PICK tagged, gone :
          /\ Mark(cache.status, tagged, gone) \in Status
          /\ WriteStatus(Mark(cache.status, tagged, gone))
          /\ obj'.spec = obj.spec
          /\ obj'.status = Mark(obj.status, tagged, gone)
    BY <1>2, BackfillSays
  <2>2. status' = Mark(status, tagged, gone) /\ spec' = spec
    BY <1>t, <2>1, FreshWrite
  <2>3. pc = "backfill" /\ pc' = "resolve" /\ obj.status \in Status
    BY <1>2, PassTypes DEF Backfill
  <2>4. AccurateStatus(status') /\ AccurateStatus(obj'.status)
    BY <1>t, <2>1, <2>2, <2>3, MarkedRecord DEF RecordInv
  <2>5. QED
    BY <2>1, <2>2, <2>3, <2>4 DEF RecordInv
<1>3. CASE BackfillUnrecorded
  BY <1>3 DEF BackfillUnrecorded, RecordInv
<1>4. CASE Suspended
  BY <1>4, FailRecords DEF Suspended, EndPass
<1>5. CASE Pending \/ Transient \/ ConvergedButLost \/ RefuseConflict
  BY <1>5, FailRecords DEF Pending, Transient, ConvergedButLost, RefuseConflict, Fail, EndPass
<1>6. CASE Resolve
  <2>1. pc = "resolve" /\ obj' = obj /\ obj.spec.input \in Inputs
    BY <1>6, PassTypes DEF Resolve, SpecType
  <2>2. CASE /\ obj.status.hash = obj.spec.input
             /\ Matches(seen', obj, obj.status.digest)
             /\ Complete(obj.status)
    <3>1. /\ result' = [digest |-> obj.status.digest, own |-> obj.status.own, record |-> FALSE,
                        conflict |-> None, attested |-> obj.status.attested]
          /\ pc' = "report"
          /\ UNCHANGED <<spec, status>>
      BY <1>6, <2>2 DEF Resolve
    <3>2. obj.status.digest = Output[obj.spec.input]
      BY <2>1, <2>2, AbsenceAssumption DEF RecordInv, AccurateStatus, Accurate
    <3>3. Accurate(result', obj.spec.input)
      BY <3>1, <3>2 DEF Accurate
    <3>4. QED
      BY <2>1, <3>1, <3>3 DEF RecordInv
  <2>3. CASE WriteStatus([cache.status EXCEPT !.ready = Says("Progressing", obj.status.digest)])
             /\ pc' = "assemble"
    <3>1. status' = [status EXCEPT !.ready = Says("Progressing", obj.status.digest)] /\ spec' = spec
      BY <2>1, <2>3, FreshProgress
    <3>2. AccurateStatus(status')
      BY <1>t, <3>1, SameRecord DEF RecordInv, Status
    <3>3. QED
      BY <2>1, <2>3, <3>1, <3>2 DEF RecordInv
  <2>4. QED
    BY <1>6, <2>2, <2>3 DEF Resolve
<1>7. CASE Converged \/ WriteOwnTag
  <2>1. result'.digest = Built /\ UNCHANGED <<spec, status, obj>> /\ pc # "idle"
    BY <1>7 DEF Converged, WriteOwnTag
  <2>2. QED
    BY <2>1 DEF RecordInv, Accurate, Built
<1>8. CASE KeepExisting
  <2>1. UNCHANGED <<spec, status, obj>> /\ pc = "assemble" /\ pc' = "report"
    BY <1>8 DEF KeepExisting, Refused
  <2>2. QED
    BY <1>8, <2>1, KeptIsNoRecord DEF RecordInv, Accurate
<1>9. CASE Write \/ WriteTag
  BY <1>9 DEF Write, WriteTag, RecordInv
<1>10. CASE Report
  <2>1. status' = Reported /\ spec' = spec /\ pc = "report" /\ pc' = "idle"
    BY <1>10, FreshReport DEF Report, EndPass
  <2>2. /\ status'.digest = result.digest /\ status'.hash = obj.spec.input
        /\ status'.conflict = result.conflict /\ status'.attested = result.attested
    BY <1>t, <2>1 DEF Reported, Status
  <2>3. AccurateStatus(status')
    BY <2>1, <2>2 DEF RecordInv, AccurateStatus, Accurate, Complete
  <2>4. QED
    BY <2>1, <2>3 DEF RecordInv
<1>11. QED
  BY <1>1, <1>2, <1>3, <1>4, <1>5, <1>6, <1>7, <1>8, <1>9, <1>10 DEF Pass

LEMMA WorldRecords ==
  ASSUME TypeOK, RecordInv, \A s \in Specs : KeepAttested(s), Sync \/ World
  PROVE  RecordInv'
<1> USE DEF objectVars, passVars
<1>1. CASE Sync
  BY <1>1 DEF Sync, RecordInv
<1>2. ASSUME NEW s \in Specs, EditSpec(s) PROVE RecordInv'
  BY <1>2 DEF EditSpec, RecordInv
<1>3. ASSUME NEW i \in Inputs, MoveSource(i) PROVE RecordInv'
  BY <1>3 DEF MoveSource, RecordInv, KeepAttested, TypeOK, SpecType
<1>4. ASSUME NEW d \in Manifests, NEW t \in Tags, ForeignPush(d, t) PROVE RecordInv'
  BY <1>4 DEF ForeignPush, RecordInv
<1>5. CASE Expire
  BY <1>5 DEF Expire, RecordInv
<1>6. CASE ApiError \/ Restart
  BY <1>6 DEF ApiError, EndPass, Restart, RecordInv
<1>7. QED
  BY <1>1, <1>2, <1>3, <1>4, <1>5, <1>6 DEF World

(* What the theorems on status assume of a controller and of the objects it is given: its cache is
   current, it attests what it publishes or no object keeps a tag, and what the first status records
   of its inputs is what they assemble to. *)
Attentive ==
  /\ ~CacheLag
  /\ \A s \in Specs \cup {InitSpec} : KeepAttested(s)
  /\ \A st \in InitStatuses : AccurateStatus(st)

LEMMA RecordInvHolds ==
  ASSUME Attentive
  PROVE  Spec => []RecordInv
<1> USE DEF Attentive
<1>1. Init => RecordInv
  BY DEF Init, RecordInv
<1>2. TypeOK /\ Current /\ RecordInv /\ [Next]_vars => RecordInv'
  <2>1. TypeOK /\ Current /\ RecordInv /\ Next => RecordInv'
    BY PassRecords, WorldRecords DEF Next
  <2>2. RecordInv /\ UNCHANGED vars => RecordInv'
    BY DEF vars, objectVars, passVars, RecordInv
  <2>3. QED
    BY <2>1, <2>2
<1>3. QED
  BY <1>1, <1>2, TypeCorrect, CurrentAlways, PTL DEF Spec

-----------------------------------------------------------------------------
(***************************************************************************)
(* Ready means published.  ReadyMeansPublished is not inductive either: it *)
(* follows a pass from the HEADs it decides on to the report, so it needs  *)
(* that a pass which is changing tags has withdrawn Ready first, that what *)
(* the pass saw is still so, that every tag of the spec is written or      *)
(* still to be, and that the record the cheap path reports carries its own *)
(* tag.                                                                    *)
(***************************************************************************)

Carries(r) == Complete(r) => r.own = r.digest

ServedAs(d, s) == d \in present /\ d \in named /\ \A t \in TagsOf(s) : tag[t] = d

ReadyInv ==
  /\ status.ready.generation <= generation
  /\ Carries(status)
  /\ pc # "idle" => obj.spec = spec /\ Carries(obj.status)
  /\ pc \in {"assemble", "tags"} => status.ready.kind # "Published"
  /\ pc = "assemble" => \A t \in TagsOf(spec) : seen.tag[t] \in {None, tag[t]}
  /\ pc = "tags" => /\ Built \in present
                    /\ \A t \in TagsOf(spec) : tag[t] = Built \/ \E i \in DOMAIN todo : todo[i] = t
  /\ pc = "report" => Carries(result) /\ (result.conflict = None => ServedAs(result.digest, spec))
  /\ ReadyMeansPublished

(* The world leaves the object's tags, its sources and a running pass's spec alone. *)
Undisturbed ==
  Disturbances \cap {"edit-in-pass", "source", "foreign", "foreign-in-pass", "expire", "expire-stalled"} = {}

LEMMA SameCarries ==
  ASSUME NEW st, NEW new, new.digest = st.digest, new.attested = st.attested,
         new.own \in {st.digest, st.own}, Carries(st)
  PROVE  Carries(new)
BY DEF Carries, Complete

(* What was published stays so while names are only added. *)
LEMMA StaysPublished ==
  ASSUME ReadyMeansPublished, UNCHANGED <<spec, generation, tag>>,
         named \subseteq named', present \subseteq present',
         status'.ready = status.ready, status'.observed = status.observed, status'.digest = status.digest
  PROVE  ReadyMeansPublished'
BY DEF ReadyMeansPublished, ReadyNow, TagsOf

LEMMA WithdrawnReady ==
  ASSUME status'.ready.kind # "Published"
  PROVE  ReadyMeansPublished'
BY DEF ReadyMeansPublished

LEMMA FailReady ==
  ASSUME ~CacheLag, TypeOK, Current, ReadyInv,
         NEW kind \in {"Failing", "Waiting", "Stalled", "Suspended"},
         PatchStatus([cache.status EXCEPT !.ready = Says(kind, None)]), pc' = "idle"
  PROVE  ReadyInv'
<1>1. /\ status' = [status EXCEPT !.ready = Says(kind, None), !.observed = generation]
      /\ UNCHANGED <<spec, generation>> /\ status \in Status /\ generation \in Nat
  BY FreshFail DEF TypeOK
<1>2. status'.ready = [kind |-> kind, digest |-> None, generation |-> generation]
  BY <1>1 DEF Status, Says, Current
<1>3. Carries(status')
  BY <1>1, SameCarries DEF Status, ReadyInv
<1>4. QED
  BY <1>1, <1>2, <1>3, WithdrawnReady DEF ReadyInv

(* What a HEAD shows of a tag of the spec is what the tag means, or nothing. *)
LEMMA HeadsShow ==
  ASSUME NEW deaf, NEW t \in Tags
  PROVE  Heads(deaf).tag[t] \in {None, tag[t]}
BY DEF Heads

LEMMA ResolveReady ==
  ASSUME ~CacheLag, TypeOK, Current, ReadyInv, Resolve
  PROVE  ReadyInv'
<1> USE DEF registryVars, objectVars
<1>1. /\ pc = "resolve" /\ UNCHANGED <<tag, named, present, obj>>
      /\ obj.spec = spec /\ obj.status \in Status /\ status \in Status /\ generation \in Nat
      /\ TagsOf(spec) \subseteq Tags
  BY PassTypes DEF Resolve, ReadyInv, TypeOK
<1>2. PICK deaf : seen' = Heads(deaf)
  BY DEF Resolve
<1>3. \A t \in TagsOf(spec) : seen'.tag[t] \in {None, tag[t]}
  BY <1>1, <1>2, HeadsShow
<1>4. CASE Matches(seen', obj, obj.status.digest) /\ Complete(obj.status) /\ UNCHANGED objectVars
           /\ pc' = "report"
           /\ result' = [digest |-> obj.status.digest, own |-> obj.status.own, record |-> FALSE,
                         conflict |-> None, attested |-> obj.status.attested]
  <2> DEFINE d == obj.status.digest
  <2>1. d \in present /\ (HasDigestTag(obj.status) => d \in named)
    <3>1. seen'.own /\ seen'.digest
      BY <1>4 DEF Matches
    <3>2. /\ Heads(deaf).own = (HasDigestTag(obj.status) => (obj.status.digest \in named /\ "own" \notin deaf))
          /\ Heads(deaf).digest = (obj.status.digest \in present /\ "digest" \notin deaf)
      BY Zenon DEF Heads
    <3>3. QED
      BY <1>2, <3>1, <3>2
  <2>2. d # None
    BY <2>1, NoneAssumption DEF TypeOK, RegistryTypeOK
  <2>3. d \in named
    BY <1>4, <2>1, <2>2, <1>1 DEF ReadyInv, Carries, HasDigestTag
  <2>4. \A t \in TagsOf(spec) : tag[t] = d
    BY <1>1, <1>3, <1>4, <2>2 DEF Matches
  <2>5. ServedAs(result.digest, spec)' /\ Carries(result)'
    BY <1>1, <1>4, <2>1, <2>3, <2>4 DEF ServedAs, ReadyInv, Carries, Complete, TagsOf
  <2>6. ReadyMeansPublished'
    BY <1>1, <1>4, StaysPublished DEF ReadyInv
  <2>7. QED
    BY <1>1, <1>4, <2>5, <2>6 DEF ReadyInv
<1>5. CASE WriteStatus([cache.status EXCEPT !.ready = Says("Progressing", obj.status.digest)])
           /\ pc' = "assemble"
  <2>1. /\ status' = [status EXCEPT !.ready = Says("Progressing", obj.status.digest)]
        /\ UNCHANGED <<spec, generation>>
    BY <1>1, <1>5, FreshProgress
  <2>2. status'.ready = [kind |-> "Progressing", digest |-> obj.status.digest, generation |-> generation]
    BY <1>1, <2>1 DEF Status, Says, Current
  <2>3. Carries(status')
    BY <1>1, <2>1, SameCarries DEF Status, ReadyInv
  <2>4. \A t \in TagsOf(spec') : seen'.tag[t] \in {None, tag'[t]}
    BY <1>1, <1>3, <2>1
  <2>5. QED
    BY <1>1, <1>5, <2>1, <2>2, <2>3, <2>4, WithdrawnReady DEF ReadyInv
<1>6. QED
  BY <1>4, <1>5 DEF Resolve

(* One tag less to write, and it means what was built. *)
LEMMA WriteTagReady ==
  ASSUME TypeOK, ReadyInv, WriteTag
  PROVE  ReadyInv'
<1> USE DEF objectVars, passVars
<1>1. /\ pc = "tags" /\ pc' = "tags" /\ todo # <<>> /\ todo \in Seq(Tags) /\ tag \in [Tags -> Manifests \cup {None}]
      /\ PushTag(Built, Head(todo)) /\ todo' = Tail(todo) /\ UNCHANGED <<spec, generation, status, obj>>
      /\ TagsOf(spec) \subseteq Tags
  BY PassTypes DEF WriteTag, TypeOK, RegistryTypeOK, ReadyInv
<1>2. Built' = Built /\ Built \in present'
  BY <1>1 DEF Built, PushTag
<1>3. ASSUME NEW t \in TagsOf(spec)
      PROVE  tag'[t] = Built \/ \E i \in DOMAIN todo' : todo'[i] = t
  <2>1. CASE tag[t] = Built \/ t = Head(todo)
    BY <1>1, <2>1 DEF PushTag
  <2>2. CASE t # Head(todo) /\ \E i \in DOMAIN todo : todo[i] = t
    <3>1. PICK i \in DOMAIN todo : todo[i] = t
      BY <2>2
    <3>2. /\ Len(todo) \in Nat /\ DOMAIN todo = 1 .. Len(todo) /\ Head(todo) = todo[1]
          /\ Len(todo') = Len(todo) - 1 /\ todo' \in Seq(Tags)
          /\ \A j \in 1 .. Len(todo') : todo'[j] = todo[j + 1]
      BY <1>1, HeadTailProperties, LenProperties
    <3>3. i - 1 \in 1 .. Len(todo')
      BY <2>2, <3>1, <3>2
    <3>4. todo'[i - 1] = t /\ i - 1 \in DOMAIN todo'
      BY <3>1, <3>2, <3>3, LenProperties
    <3>5. QED
      BY <3>4
  <2>3. QED
    BY <1>1, <2>1, <2>2 DEF ReadyInv
<1>4. QED
  BY <1>1, <1>2, <1>3, WithdrawnReady DEF ReadyInv

LEMMA ReportReady ==
  ASSUME ~CacheLag, TypeOK, Current, RecordInv, ReadyInv, Report
  PROVE  ReadyInv'
<1>1. /\ status' = Reported /\ UNCHANGED <<spec, generation, tag, named, present>>
      /\ pc = "report" /\ pc' = "idle" /\ obj.spec = spec
      /\ status \in Status /\ cache.status = status /\ cache.generation = generation /\ generation \in Nat
  BY FreshReport DEF Report, EndPass, registryVars, ReadyInv, TypeOK, Current
<1>2. /\ status'.digest = result.digest /\ status'.own = result.own /\ status'.attested = result.attested
      /\ status'.ready = Says(IF result.conflict = None THEN "Published" ELSE "Kept", result.digest)
  BY <1>1 DEF Reported, Status
<1>3. /\ status'.ready.generation = generation
      /\ status'.ready.kind = "Published" => result.conflict = None
  BY <1>1, <1>2 DEF Says
<1>4. Carries(status')
  BY <1>1, <1>2 DEF ReadyInv, Carries, Complete
<1>5. ReadyMeansPublished'
  <2>1. SUFFICES ASSUME status'.ready.kind = "Published"
                 PROVE  /\ status'.digest = Output[spec.input]
                        /\ ServedAs(status'.digest, spec)
    BY <1>1 DEF ReadyMeansPublished, ServedAs, TagsOf
  <2>2. result.conflict = None
    BY <1>3, <2>1
  <2>3. QED
    BY <1>1, <1>2, <2>2 DEF RecordInv, Accurate, ReadyInv
<1>6. QED
  BY <1>1, <1>3, <1>4, <1>5 DEF ReadyInv

LEMMA PassReady ==
  ASSUME ~CacheLag, TypeOK, Current, RecordInv, ReadyInv, Pass
  PROVE  ReadyInv'
<1> USE DEF registryVars, objectVars, passVars
<1>t. status \in Status /\ cache.status = status /\ cache.spec = spec
  BY DEF TypeOK, Current
<1>1. CASE Begin
  <2>1. ReadyMeansPublished'
    BY <1>1, StaysPublished DEF Begin, ReadyInv
  <2>2. QED
    BY <1>1, <1>t, <2>1 DEF Begin, ReadyInv
<1>2. CASE Backfill
  <2>1. PICK tagged, gone :
          /\ Mark(cache.status, tagged, gone) \in Status
          /\ WriteStatus(Mark(cache.status, tagged, gone))
          /\ obj'.spec = obj.spec
          /\ obj'.status = Mark(obj.status, tagged, gone)
    BY <1>2, BackfillSays
  <2>2. status' = Mark(status, tagged, gone) /\ UNCHANGED <<spec, generation>>
    BY <1>t, <2>1, FreshWrite
  <2>3. /\ pc = "backfill" /\ pc' = "resolve" /\ obj.status \in Status
        /\ UNCHANGED <<tag, present>> /\ named \subseteq named'
    BY <1>2, PassTypes DEF Backfill
  <2>4. ASSUME NEW st \in Status, Carries(st) PROVE Carries(Mark(st, tagged, gone))
    <3> DEFINE m == Mark(st, tagged, gone)
    <3>1. m.digest = st.digest /\ m.attested = st.attested /\ m.own \in {st.digest, st.own}
      BY DEF Mark, Status
    <3> HIDE DEF m
    <3>2. Carries(m)
      BY <2>4, <3>1, SameCarries
    <3>3. QED
      BY <3>2 DEF m
  <2>5. Carries(status') /\ Carries(obj'.status)
    BY <1>t, <2>1, <2>2, <2>3, <2>4 DEF ReadyInv
  <2>6. status'.ready = status.ready /\ status'.observed = status.observed /\ status'.digest = status.digest
    BY <1>t, <2>2 DEF Mark, Status
  <2>7. ReadyMeansPublished'
    BY <2>2, <2>3, <2>6, StaysPublished DEF ReadyInv
  <2>8. QED
    BY <2>1, <2>2, <2>3, <2>5, <2>6, <2>7 DEF ReadyInv
<1>3. CASE BackfillUnrecorded
  <2>1. ReadyMeansPublished'
    BY <1>3, StaysPublished DEF BackfillUnrecorded, ReadyInv
  <2>2. QED
    BY <1>3, <2>1 DEF BackfillUnrecorded, ReadyInv
<1>4. CASE Suspended
  BY <1>4, FailReady DEF Suspended, EndPass
<1>5. CASE Pending \/ Transient \/ ConvergedButLost \/ RefuseConflict
  BY <1>5, FailReady DEF Pending, Transient, ConvergedButLost, RefuseConflict, Fail, EndPass
<1>6. CASE Resolve
  BY <1>6, ResolveReady
<1>7. CASE Converged
  <2>1. /\ pc = "assemble" /\ pc' = "report" /\ Matches(seen, obj, Built) /\ PushOwnTag(Built)
        /\ result'.digest = Built /\ result'.own = Built
        /\ UNCHANGED <<spec, generation, status, obj>> /\ obj.spec = spec
    BY <1>7 DEF Converged, ReadyInv
  <2>2. Built # None
    BY <2>1, PassTypes, NoneAssumption
  <2>3. \A t \in TagsOf(spec) : tag[t] = Built
    BY <2>1, <2>2 DEF Matches, ReadyInv
  <2>4. ServedAs(result.digest, spec)' /\ Carries(result)'
    BY <2>1, <2>3 DEF ServedAs, PushOwnTag, Carries, TagsOf
  <2>5. QED
    BY <2>1, <2>4, WithdrawnReady DEF ReadyInv
<1>8. CASE KeepExisting
  <2>1. pc = "assemble" /\ pc' = "report" /\ UNCHANGED <<spec, generation, status, obj, tag, named, present>>
    BY <1>8 DEF KeepExisting, Refused
  <2>2. QED
    BY <1>8, <2>1, KeptIsNoRecord, WithdrawnReady DEF ReadyInv, Carries
<1>9. CASE Write
  <2>1. /\ pc = "assemble" /\ pc' = "tags" /\ UNCHANGED <<spec, generation, status, obj, tag, named>>
        /\ present' = present \cup {Built} /\ todo' = spec.tags /\ obj.spec = spec
    BY <1>9 DEF Write, PushDigest, ReadyInv
  <2>2. Built' = Built
    BY <2>1 DEF Built
  <2>3. \A t \in TagsOf(spec) : \E i \in DOMAIN todo' : todo'[i] = t
    BY <2>1 DEF TagsOf
  <2>4. QED
    BY <2>1, <2>2, <2>3, WithdrawnReady DEF ReadyInv, TagsOf
<1>10. CASE WriteTag
  BY <1>10, WriteTagReady
<1>11. CASE WriteOwnTag
  <2>1. /\ pc = "tags" /\ pc' = "report" /\ todo = <<>> /\ PushOwnTag(Built)
        /\ result'.digest = Built /\ result'.own = Built
        /\ UNCHANGED <<spec, generation, status, obj>> /\ obj.spec = spec
    BY <1>11 DEF WriteOwnTag, ReadyInv
  <2>2. \A t \in TagsOf(spec) : tag[t] = Built
    BY <2>1 DEF ReadyInv
  <2>3. ServedAs(result.digest, spec)' /\ Carries(result)'
    BY <2>1, <2>2 DEF ServedAs, PushOwnTag, Carries, TagsOf
  <2>4. QED
    BY <2>1, <2>3, WithdrawnReady DEF ReadyInv
<1>12. CASE Report
  BY <1>12, ReportReady
<1>13. QED
  BY <1>1, <1>2, <1>3, <1>4, <1>5, <1>6, <1>7, <1>8, <1>9, <1>10, <1>11, <1>12 DEF Pass

LEMMA WorldReady ==
  ASSUME Undisturbed, TypeOK, Current, ReadyInv, Sync \/ World
  PROVE  ReadyInv'
<1> USE DEF registryVars, objectVars, passVars
<1>1. CASE Sync
  BY <1>1 DEF Sync, Current
<1>2. ASSUME NEW s \in Specs, EditSpec(s) PROVE ReadyInv'
  <2>1. pc = "idle" /\ pc' = pc /\ generation' = generation + 1 /\ status' = status
    BY <1>2 DEF EditSpec, Disturb, Undisturbed
  <2>2. status.ready.generation \in Nat /\ generation \in Nat
    BY DEF TypeOK, Status, Condition
  <2>3. status'.ready.generation <= generation' /\ status'.ready.generation # generation'
    BY <2>1, <2>2 DEF ReadyInv
  <2>4. ReadyMeansPublished'
    BY <2>3 DEF ReadyMeansPublished, ReadyNow
  <2>5. QED
    BY <2>1, <2>3, <2>4 DEF ReadyInv
<1>3. ASSUME NEW i \in Inputs, MoveSource(i) PROVE FALSE
  BY <1>3 DEF MoveSource, Disturb, Undisturbed
<1>4. ASSUME NEW d \in Manifests, NEW t \in Tags, ForeignPush(d, t) PROVE FALSE
  BY <1>4 DEF ForeignPush, Disturb, Undisturbed
<1>5. CASE Expire
  <2>1. NothingExpires
    BY DEF Undisturbed, NothingExpires
  <2>2. QED
    BY <1>5, <2>1, NoExpiry
<1>6. CASE ApiError \/ Restart
  <2>1. pc' = "idle" /\ UNCHANGED <<spec, generation, status, tag, named, present>>
    BY <1>6 DEF ApiError, EndPass, Restart
  <2>2. ReadyMeansPublished'
    BY <2>1, StaysPublished DEF ReadyInv
  <2>3. QED
    BY <2>1, <2>2 DEF ReadyInv
<1>7. QED
  BY <1>1, <1>2, <1>3, <1>4, <1>5, <1>6 DEF World

(* ADR 0061, for every set of tags, specs, policies, statuses and repositories to start from: an
   object that is Ready for its spec is published, under every tag of it and its own, as what its
   inputs assemble to - wherever a pass was cut off, whatever requests failed and however the spec
   was edited between passes. *)
THEOREM ReadyAlwaysPublished ==
  ASSUME Attentive, Undisturbed,
         \A st \in InitStatuses : Carries(st) /\ st.ready.generation < 2
  PROVE  Spec => []ReadyMeansPublished
<1>1. Init => ReadyInv
  <2> SUFFICES ASSUME Init PROVE ReadyInv
    OBVIOUS
  <2>1. Carries(status) /\ status.ready.generation < 2 /\ generation = 2 /\ pc = "idle"
    BY DEF Init
  <2>2. status.ready.generation \in Nat
    BY InitAssumption DEF Init, Status, Condition
  <2>3. QED
    BY <2>1, <2>2 DEF ReadyInv, ReadyMeansPublished, ReadyNow
<1>2. TypeOK /\ Current /\ RecordInv /\ ReadyInv /\ [Next]_vars => ReadyInv'
  <2>1. TypeOK /\ Current /\ RecordInv /\ ReadyInv /\ Next => ReadyInv'
    BY PassReady, WorldReady DEF Next, Attentive
  <2>2. ReadyInv /\ UNCHANGED vars => ReadyInv'
    <3> SUFFICES ASSUME ReadyInv, UNCHANGED vars PROVE ReadyInv'
      OBVIOUS
    <3>1. UNCHANGED <<tag, named, present, spec, generation, status, pc, obj, seen, todo, result>>
      BY DEF vars, registryVars, objectVars, passVars
    <3>2. Built' = Built /\ ReadyMeansPublished'
      BY <3>1, StaysPublished DEF Built, ReadyInv
    <3>3. QED
      BY <3>1, <3>2 DEF ReadyInv, ServedAs, TagsOf
  <2>3. QED
    BY <2>1, <2>2
<1>3. ReadyInv => ReadyMeansPublished
  BY DEF ReadyInv
<1>4. Spec => []Current
  BY CurrentAlways DEF Attentive
<1>5. QED
  BY <1>1, <1>2, <1>3, <1>4, TypeCorrect, RecordInvHolds, PTL DEF Spec

-----------------------------------------------------------------------------
(***************************************************************************)
(* Composition implements Publishing.                                      *)
(***************************************************************************)

LEMMA IntentTypes ==
  ASSUME TypeOK
  PROVE  /\ pc \in {"assemble", "tags"} => Intent \in Abstract!Pass /\ Intent # None
         /\ pc \notin {"assemble", "tags"} => Intent = None
<1>1. CASE pc \in {"assemble", "tags"}
  <2> DEFINE asked == obj.spec.tags
             force == obj.spec.policy = "Overwrite"
             view  == seen.tag
             grant == IF pc = "tags" THEN Built ELSE None
             left  == IF pc = "tags" THEN todo ELSE obj.spec.tags
  <2>1. Intent = [asked |-> asked, force |-> force, view |-> view, grant |-> grant, left |-> left]
    BY <1>1 DEF Intent
  <2>2. asked \in Seq(Tags) /\ force \in BOOLEAN
    BY <1>1, PassTypes DEF SpecType
  <2>3. view \in [Tags -> Manifests \cup {None}]
    BY <1>1 DEF TypeOK, Seen
  <2>4. grant \in Manifests \cup {None} /\ left \in Seq(Tags)
    BY <1>1, <2>2, PassTypes DEF TypeOK
  <2> HIDE DEF asked, force, view, grant, left
  <2>5. Intent \in [asked : Seq(Tags), force : BOOLEAN, view : [Tags -> Manifests \cup {None}],
                    grant : Manifests \cup {None}, left : Seq(Tags)]
    BY <2>1, <2>2, <2>3, <2>4
  <2>6. QED
    BY <1>1, <2>5, PassAssumption DEF Abstract!Pass
<1>2. CASE pc \notin {"assemble", "tags"}
  BY <1>2 DEF Intent
<1>3. QED
  BY <1>1, <1>2

(* Nothing served goes, and nothing is claimed that is not served. *)
LEMMA StepsAreHonest ==
  ASSUME NothingExpires, TypeOK, ServedInv, ServedInv', Next
  PROVE  Abstract!Honest
<1> USE DEF registryVars, objectVars, passVars
<1>1. named \subseteq named'
  <2>1. CASE Pass
    BY <2>1 DEF Pass, Begin, Backfill, BackfillUnrecorded, Suspended, Pending, Resolve, Transient, Converged,
       ConvergedButLost, RefuseConflict, KeepExisting, Write, WriteTag, WriteOwnTag, Report,
       PushDigest, PushTag, PushOwnTag
  <2>2. CASE Sync
    BY <2>2 DEF Sync
  <2>3. CASE World
    BY <2>3, NoExpiry DEF World, EditSpec, MoveSource, ForeignPush, PushTag, ApiError, Restart
  <2>4. QED
    BY <2>1, <2>2, <2>3 DEF Next
<1>2. QED
  BY <1>1 DEF ServedInv, Abstract!Honest

(* A step that moves no tag and shows the abstract pass no progress, or ends it. *)
LEMMA QuietStep ==
  ASSUME TypeOK, TypeOK', Abstract!Honest, UNCHANGED tag,
         \/ pc' \notin {"assemble", "tags"}
         \/ UNCHANGED <<pc, obj, seen, todo>>
  PROVE  Abstract!Record \/ Abstract!Finish
<1>1. CASE UNCHANGED <<pc, obj, seen, todo>>
  <2>1. Intent' = Intent
    BY <1>1 DEF Intent, Built
  <2>2. QED
    BY <2>1 DEF Abstract!Record
<1>2. CASE pc' \notin {"assemble", "tags"}
  <2>1. Intent' = None
    BY <1>2 DEF Intent
  <2>2. QED
    BY <2>1 DEF Abstract!Record, Abstract!Finish
<1>3. QED
  BY <1>1, <1>2

LEMMA LookStep ==
  ASSUME TypeOK, TypeOK', Abstract!Honest, Resolve, pc' = "assemble"
  PROVE  Abstract!Look
<1> USE DEF registryVars
<1>1. Intent = None /\ Intent' \in Abstract!Pass
  <2>1. pc = "resolve" /\ obj' = obj /\ obj.spec.tags \in Seq(Tags)
    BY PassTypes DEF Resolve, SpecType
  <2>2. seen' \in Seen
    BY <2>1, HeadsTypes DEF Resolve
  <2> DEFINE force == obj.spec.policy = "Overwrite"
             view == seen'.tag
  <2>3. view \in [Tags -> Manifests \cup {None}] /\ force \in BOOLEAN
    BY <2>2 DEF Seen
  <2>4. Intent' = [asked |-> obj.spec.tags, force |-> force, view |-> view, grant |-> None,
                   left |-> obj.spec.tags]
    BY <2>1 DEF Intent
  <2> HIDE DEF force, view
  <2>5. Intent' \in Abstract!Pass
    BY <2>1, <2>3, <2>4 DEF Abstract!Pass
  <2>6. QED
    BY <2>1, <2>5 DEF Intent
<1>2. Intent'.grant = None /\ Intent'.left = Intent'.asked /\ Intent'.view = seen'.tag
  BY DEF Intent
<1>3. \A t \in Tags : seen'.tag[t] \in {None, tag[t]}
  <2>1. PICK deaf : seen' = Heads(deaf)
    BY DEF Resolve
  <2>2. seen'.tag = [t \in Tags |-> IF t \in TagsOf(obj.spec) \ deaf THEN tag[t] ELSE None]
    BY <2>1, Zenon DEF Heads
  <2>3. QED
    BY <2>2
<1>4. tag' = tag
  BY DEF Resolve
<1>5. QED
  BY <1>1, <1>2, <1>3, <1>4 DEF Abstract!Look

LEMMA GrantStep ==
  ASSUME TypeOK, TypeOK', Abstract!Honest, Write
  PROVE  Built \in Manifests /\ Abstract!Grant(Built)
<1> USE DEF objectVars
<1>1. /\ pc = "assemble" /\ pc' = "tags" /\ todo' = obj.spec.tags /\ tag' = tag
      /\ obj' = obj /\ seen' = seen /\ Built' = Built
  BY DEF Write, PushDigest, Built
<1>2. Built \in Manifests /\ Intent # None
  BY <1>1, PassTypes, IntentTypes
<1>3. /\ Intent = [asked |-> obj.spec.tags, force |-> obj.spec.policy = "Overwrite", view |-> seen.tag,
                   grant |-> None, left |-> obj.spec.tags]
      /\ Intent' = [asked |-> obj.spec.tags, force |-> obj.spec.policy = "Overwrite", view |-> seen.tag,
                    grant |-> Built, left |-> obj.spec.tags]
  BY <1>1 DEF Intent
<1>4. Intent.grant = None /\ Intent' = [Intent EXCEPT !.grant = Built]
  <2> DEFINE tags == obj.spec.tags
             force == obj.spec.policy = "Overwrite"
             view == seen.tag
  <2> HIDE DEF tags, force, view
  <2>1. /\ Intent = [asked |-> tags, force |-> force, view |-> view, grant |-> None, left |-> tags]
        /\ Intent' = [asked |-> tags, force |-> force, view |-> view, grant |-> Built, left |-> tags]
    BY <1>3 DEF tags, force, view
  <2>2. QED
    BY <2>1
<1>5. Abstract!Free(Intent, Built)
  <2>1. /\ Intent.asked = obj.spec.tags /\ Intent.view = seen.tag
        /\ Intent.force = (obj.spec.policy = "Overwrite")
    BY <1>3
  <2>2. Conflicting(seen, obj, Built) = {} => \A i \in DOMAIN obj.spec.tags : seen.tag[obj.spec.tags[i]] \in {None, Built}
    BY DEF Conflicting
  <2>3. QED
    BY <2>1, <2>2 DEF Abstract!Free, Write
<1>6. QED
  BY <1>1, <1>2, <1>4, <1>5 DEF Abstract!Grant

LEMMA TagStep ==
  ASSUME TypeOK, TypeOK', Abstract!Honest, WriteTag
  PROVE  Abstract!Write
<1> USE DEF objectVars
<1>1. /\ pc = "tags" /\ pc' = "tags" /\ todo # <<>> /\ todo' = Tail(todo)
      /\ obj' = obj /\ seen' = seen /\ Built' = Built
      /\ tag' = [tag EXCEPT ![Head(todo)] = Built]
  BY DEF WriteTag, PushTag, Built
<1> DEFINE tags == obj.spec.tags
           force == obj.spec.policy = "Overwrite"
           view == seen.tag
<1>2. /\ Intent = [asked |-> tags, force |-> force, view |-> view, grant |-> Built, left |-> todo]
      /\ Intent' = [asked |-> tags, force |-> force, view |-> view, grant |-> Built, left |-> todo']
  BY <1>1 DEF Intent
<1> HIDE DEF tags, force, view
<1>3. Intent # None /\ Built # None
  BY <1>1, IntentTypes, PassTypes, NoneAssumption
<1>4. Intent.left = todo /\ Intent.grant = Built
  BY <1>2
<1>5. Intent' = [Intent EXCEPT !.left = Tail(@)]
  <2>1. [Intent EXCEPT !.left = todo'] = [asked |-> tags, force |-> force, view |-> view, grant |-> Built, left |-> todo']
    BY <1>2
  <2>2. QED
    BY <1>1, <1>2, <1>4, <2>1
<1>6. QED
  BY <1>1, <1>3, <1>4, <1>5 DEF Abstract!Write

LEMMA OtherStep ==
  ASSUME Abstract!Honest, NEW d \in Manifests, NEW t \in Tags, ForeignPush(d, t)
  PROVE  Abstract!Other(t, d)
<1>1. tag' = [tag EXCEPT ![t] = d]
  BY DEF ForeignPush, PushTag
<1>2. Intent' = Intent
  BY DEF ForeignPush, passVars, Intent, Built
<1>3. QED
  BY <1>1, <1>2 DEF Abstract!Other

(* For every set of tags, specs, statuses and disturbances but expiry, each step of the controller
   and of its world is a step of Publishing or none at all: a pass moves only names it was asked
   for, all to the one digest it settled on after looking at every one of them, in order, and what
   status claims is served - whatever fails, lags, restarts or is edited on the way. *)
THEOREM ImplementsPublishing ==
  ASSUME NothingExpires,
         \A st \in InitStatuses, r \in InitRepositories :
           r.named \subseteq r.present /\ Claimed(st) \subseteq r.named
  PROVE  Spec => KeepsItsPromise
<1>1. Init => ServedInv
  BY DEF Init, ServedInv
<1>2. Init => Abstract!Init
  <2> SUFFICES ASSUME Init PROVE Abstract!Init
    OBVIOUS
  <2>1. TypeOK /\ ServedInv
    BY <1>1, InitTypes
  <2>2. Intent = None
    BY DEF Init, Intent
  <2>3. QED
    BY <2>1, <2>2 DEF Abstract!Init, TypeOK, RegistryTypeOK, ServedInv
<1>3. TypeOK /\ ServedInv /\ [Next]_vars => ServedInv'
  <2>1. TypeOK /\ ServedInv /\ Next => ServedInv'
    BY PassServes, WorldServes DEF Next
  <2>2. ServedInv /\ UNCHANGED vars => ServedInv'
    BY DEF vars, registryVars, objectVars, passVars, ServedInv
  <2>3. QED
    BY <2>1, <2>2
<1>4. TypeOK /\ TypeOK' /\ ServedInv /\ ServedInv' /\ [Next]_vars => [Abstract!Next]_(Abstract!publishingVars)
  <2> SUFFICES ASSUME TypeOK, TypeOK', ServedInv, ServedInv', [Next]_vars
               PROVE  [Abstract!Next]_(Abstract!publishingVars)
    OBVIOUS
  <2> USE DEF registryVars, objectVars, passVars
  <2>1. CASE UNCHANGED vars
    BY <2>1 DEF vars, Abstract!publishingVars, Intent, Built
  <2>2. Next => Abstract!Honest
    BY StepsAreHonest
  <2>3. CASE Next /\ UNCHANGED tag /\ (pc' \notin {"assemble", "tags"} \/ UNCHANGED <<pc, obj, seen, todo>>)
    BY <2>2, <2>3, QuietStep DEF Abstract!Next
  <2>4. CASE Pass
    <3>1. CASE Resolve
      BY <2>2, <2>3, <3>1, LookStep DEF Next, Pass, Resolve, Abstract!Next
    <3>2. CASE Write
      BY <2>2, <3>2, GrantStep DEF Next, Pass, Abstract!Next
    <3>3. CASE WriteTag
      BY <2>2, <3>3, TagStep DEF Next, Pass, Abstract!Next
    <3>4. CASE Begin \/ Backfill \/ BackfillUnrecorded \/ Suspended \/ Pending \/ Transient
      BY <2>3, <3>4 DEF Next, Pass, Begin, Backfill, BackfillUnrecorded, Suspended, Pending, Transient, Fail, EndPass
    <3>5. CASE ConvergedButLost \/ RefuseConflict \/ KeepExisting \/ Report
      BY <2>3, <3>5 DEF Next, Pass, ConvergedButLost, RefuseConflict, KeepExisting, Report, Fail, EndPass
    <3>6. CASE Converged \/ WriteOwnTag
      BY <2>3, <3>6 DEF Next, Pass, Converged, WriteOwnTag, PushOwnTag
    <3>7. QED
      BY <2>4, <3>1, <3>2, <3>3, <3>4, <3>5, <3>6 DEF Pass
  <2>5. CASE Sync
    BY <2>3, <2>5 DEF Next, Sync
  <2>6. CASE World
    <3>1. CASE \E d \in Manifests, t \in Tags : ForeignPush(d, t)
      BY <2>2, <2>6, <3>1, OtherStep DEF Next, Abstract!Next
    <3>2. CASE (\E s \in Specs : EditSpec(s)) \/ (\E i \in Inputs : MoveSource(i))
      BY <2>3, <2>6, <3>2 DEF Next, EditSpec, MoveSource
    <3>3. CASE Expire
      BY <3>3, NoExpiry
    <3>4. CASE ApiError \/ Restart
      BY <2>3, <2>6, <3>4 DEF Next, ApiError, Restart, EndPass
    <3>5. QED
      BY <2>6, <3>1, <3>2, <3>3, <3>4 DEF World
  <2>7. QED
    BY <2>1, <2>4, <2>5, <2>6 DEF Next
<1>5. QED
  BY <1>1, <1>2, <1>3, <1>4, TypeCorrect, PTL DEF Spec, KeepsItsPromise, Abstract!Spec

=============================================================================
